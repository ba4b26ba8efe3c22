------------------------- MODULE IoDispatchProofs -------------------------
(***************************************************************************)
(* Proofs about the dispatch of accesses to devices, for any number of     *)
(* vcpus and devices, any size of a BAR, and any accesses of the guest.    *)
(***************************************************************************)
EXTENDS IoDispatch, FiniteSetTheorems, TLAPS

\* A vcpu that is about to write the maps of the cache in force has in hand
\* what a search of that cache's handlers finds.
LookupInv ==
  \A v \in Vcpus : vcpu[v].pc = "count" /\ ~vcpu[v].stale =>
    vcpu[v].handler = Found(cache.handlers, vcpu[v].addr)

\* Handlers and registers of a device agree but for the one being moved and
\* those whose rebuild went to another device.
BarsInv ==
  \A d \in Devices \ torn : conf.pc # "rebuild" \/ d # conf.dev =>
    \E h \in io_handlers[d] :
      Aligned(h.start) = config[d][0] /\ config[d][0] % BarSize = 0

\* The register that was written is one of a device.
ConfInv == conf.pc = "rebuild" => conf.dev \in Devices

\* From its lookup on, a vcpu has a handler in hand, and what it saves is a write.
HandInv ==
  \A v \in Vcpus :
    /\ vcpu[v].pc \in {"count", "submit", "perform", "save"} => vcpu[v].handler \in Handlers
    /\ vcpu[v].pc = "save" => vcpu[v].value \in Values

\* The inductive invariant.
IInv == TypeOK /\ ConfInv /\ HandInv /\ LookupInv /\ CacheCoherent /\ BarsInv

-----------------------------------------------------------------------------
(* The operators.                                                          *)

\* A set of natural numbers has a minimum.
LEMMA MinOfNats ==
  ASSUME NEW S \in SUBSET Nat, S # {}
  PROVE  Min(S) \in S
<1> DEFINE Below == {0 .. x : x \in S}
<1>1. IsWellFoundedOn(StrictSubsetOrdering(Nat), FiniteSubsetsOf(Nat))
  BY FS_StrictSubsetOrderingWellFounded
<1>2. Below \subseteq FiniteSubsetsOf(Nat)
  <2>1. ASSUME NEW x \in S PROVE 0 .. x \in FiniteSubsetsOf(Nat)
    <3>1. IsFiniteSet(0 .. x)
      BY FS_Interval
    <3> QED
      BY <3>1 DEF FiniteSubsetsOf
  <2> QED
    BY <2>1
<1>3. Below # {}
  OBVIOUS
<1> HIDE DEF Below
<1>4. \E B \in Below : \A C \in Below : ~(<<C, B>> \in StrictSubsetOrdering(Nat))
  BY <1>1, <1>2, <1>3, WFMin
<1> USE DEF Below
<1>5. PICK x \in S : \A y \in S : ~(<<0 .. y, 0 .. x>> \in StrictSubsetOrdering(Nat))
  BY <1>4
<1>6. ASSUME NEW y \in S PROVE x <= y
  <2> SUFFICES ASSUME y < x PROVE FALSE
    OBVIOUS
  <2>1. 0 .. y \subseteq 0 .. x /\ x \in 0 .. x /\ x \notin 0 .. y
    OBVIOUS
  <2>2. 0 .. y \in SUBSET Nat /\ 0 .. x \in SUBSET Nat /\ 0 .. y # 0 .. x
    BY <2>1
  <2> QED
    BY <1>5, <2>1, <2>2 DEF StrictSubsetOrdering
<1> QED
  BY <1>6 DEF Min

\* What a search finds is a handler of some device, or nothing.
LEMMA FoundType ==
  ASSUME NEW handlers \in [Devices -> SUBSET Handlers], NEW a \in Addrs
  PROVE  Found(handlers, a) \in Handlers \cup {None}
<1> DEFINE with == {d \in Devices : \E h \in handlers[d] : Contains(h, a)}
<1>1. CASE with = {}
  BY <1>1 DEF Found
<1>2. CASE with # {}
  <2>1. Min(with) \in with
    <3>1. with \in SUBSET Nat
      BY SizesType DEF Devices
    <3> QED
      BY <1>2, <3>1, MinOfNats
  <2>2. PICK h \in handlers[Min(with)] : Contains(h, a)
    BY <2>1
  <2>3. (CHOOSE g \in handlers[Min(with)] : Contains(g, a)) \in handlers[Min(with)]
    BY <2>2
  <2> QED
    BY <1>2, <2>1, <2>3 DEF Found
<1> QED
  BY <1>1, <1>2

\* Rounding down to the size of a BAR.
LEMMA AlignedType ==
  ASSUME NEW a \in Addrs
  PROVE  Aligned(a) \in Addrs /\ Aligned(a) % BarSize = 0
<1>1. a \in Nat /\ BarSize \in Nat \ {0} /\ MaxAddr \in Nat
  BY SizesType DEF Addrs
<1>2. a % BarSize \in 0 .. BarSize - 1 /\ a = BarSize * (a \div BarSize) + (a % BarSize)
  BY <1>1
<1>3. a \div BarSize \in Nat
  BY <1>1
<1>4. a - (a % BarSize) = BarSize * (a \div BarSize)
  BY <1>1, <1>2, <1>3
<1>5. (BarSize * (a \div BarSize)) % BarSize = 0
  BY <1>1, <1>3
<1> QED
  BY <1>1, <1>2, <1>3, <1>4, <1>5 DEF Aligned, Addrs

-----------------------------------------------------------------------------
\* What TypeOK says of a vcpu.
VcpuRecords == [pc : {"guest", "lookup", "count", "submit", "perform", "save", "config", "dead"},
                addr : Addrs, value : Values \cup {None}, handler : Handlers \cup {None},
                seen : 0 .. HitLimit, stale : BOOLEAN]

\* What it says of the goroutine of the data port.
ConfRecords == [pc : {"idle", "write", "rebuild", "flush"}, bar : Bars, value : Addrs,
                dev : Devices \cup {None}, by : Vcpus \cup {None}]

\* A vcpu that has no exit in hand.
LEMMA IdleType == Idle \in VcpuRecords
BY SizesType DEF Idle, VcpuRecords, Addrs

\* Type correctness, one step of the proof per action.
LEMMA TypeStep == TypeOK /\ ConfInv /\ HandInv /\ [Next]_vars => TypeOK'
<1> SUFFICES ASSUME TypeOK, ConfInv, HandInv, [Next]_vars PROVE TypeOK'
  OBVIOUS
<1>v. vcpu \in [Vcpus -> VcpuRecords]
  BY DEF TypeOK, VcpuRecords
<1>w. ASSUME vcpu' \in [Vcpus -> VcpuRecords],
             UNCHANGED <<config, io_handlers, cache, last, conf, torn>>,
             events' \in [Keys -> [handler : Handlers, signalled : BOOLEAN, pc : {"wait", "submit"}] \cup {None}],
             fatal' \in BOOLEAN, owed' \subseteq Devices
      PROVE  TypeOK'
  BY <1>w DEF TypeOK, VcpuRecords
<1>1. ASSUME NEW v \in Vcpus, NEW r \in Accesses, Signal(v, r[1], r[2]) PROVE TypeOK'
  <2>1. <<r[1], r[2]>> \in Keys
    BY <1>1, AccessesType DEF Signal, Keys, Addrs
  <2>2. events[<<r[1], r[2]>>] \in [handler : Handlers, signalled : BOOLEAN, pc : {"wait", "submit"}]
    BY <1>1, <2>1 DEF Signal, TypeOK
  <2>3. events' \in [Keys -> [handler : Handlers, signalled : BOOLEAN, pc : {"wait", "submit"}] \cup {None}]
    BY <1>1, <2>1, <2>2 DEF Signal, TypeOK
  <2>4. owed' \subseteq Devices
    BY <1>1, <2>2 DEF Signal, TypeOK, Handlers
  <2> QED
    BY <1>1, <1>v, <2>3, <2>4, <1>w DEF Signal, TypeOK
<1>2. ASSUME NEW v \in Vcpus, NEW r \in Accesses, Exit(v, r[1], r[2]) PROVE TypeOK'
  <2>1. r[1] \in Addrs /\ r[2] \in Values \cup {None}
    BY AccessesType DEF Addrs
  <2>2. [Idle EXCEPT !.pc = "lookup", !.addr = r[1], !.value = r[2]] \in VcpuRecords
    BY <2>1, IdleType DEF VcpuRecords
  <2>3. vcpu' \in [Vcpus -> VcpuRecords]
    BY <1>2, <1>v, <2>2 DEF Exit
  <2>4. Found(cache.handlers, r[1]) \in Handlers \cup {None}
    BY <2>1, FoundType DEF TypeOK
  <2>5. owed' \subseteq Devices
    BY <1>2, <2>4 DEF Exit, TypeOK, Handlers
  <2> QED
    BY <1>2, <2>3, <2>5, <1>w DEF Exit, TypeOK
<1>3. ASSUME NEW v \in Vcpus, Lookup(v) PROVE TypeOK'
  <2> DEFINE a == vcpu[v].addr
             h == IF cache.memory[a] # None THEN cache.memory[a] ELSE Found(cache.handlers, a)
  <2>1. a \in Addrs /\ h \in Handlers \cup {None} /\ cache.hits[a] \in 0 .. HitLimit
    BY <1>v, FoundType DEF TypeOK, VcpuRecords
  <2>2. vcpu' \in [Vcpus -> VcpuRecords]
    <3>1. CASE h = None
      BY <1>3, <3>1, <1>v, IdleType DEF Lookup, Return
    <3>2. CASE h # None
      <4>1. vcpu' = [vcpu EXCEPT ![v] = [@ EXCEPT !.pc = "count", !.handler = h, !.seen = cache.hits[a]]]
        BY <1>3, <3>2 DEF Lookup
      <4> HIDE DEF h, a
      <4>2. [vcpu[v] EXCEPT !.pc = "count", !.handler = h, !.seen = cache.hits[a]] \in VcpuRecords
        BY <1>v, <2>1 DEF VcpuRecords
      <4> QED
        BY <4>1, <4>2, <1>v
    <3> QED
      BY <3>1, <3>2
  <2> QED
    BY <1>3, <2>2, <1>w DEF Lookup, TypeOK
<1>4. ASSUME NEW v \in Vcpus, Count(v) PROVE TypeOK'
  <2>1. vcpu' \in [Vcpus -> VcpuRecords]
    <3>1. [vcpu[v] EXCEPT !.pc = "submit", !.seen = 0, !.stale = FALSE] \in VcpuRecords
      <4>1. 0 \in 0 .. HitLimit /\ FALSE \in BOOLEAN
        BY SizesType
      <4>2. ASSUME NEW n \in 0 .. HitLimit, NEW b \in BOOLEAN
            PROVE  [vcpu[v] EXCEPT !.pc = "submit", !.seen = n, !.stale = b] \in VcpuRecords
        BY <1>v DEF VcpuRecords
      <4> QED
        BY <4>1, <4>2
    <3> QED
      BY <1>4, <1>v, <3>1 DEF Count
  <2>2. vcpu[v].addr \in Addrs /\ vcpu[v].handler \in Handlers \cup {None}
        /\ Counted(vcpu[v].seen) \in 0 .. HitLimit
    BY <1>v, SizesType DEF VcpuRecords, Counted
  <2>3. cache' \in [handlers : [Devices -> SUBSET Handlers],
                memory : [Addrs -> Handlers \cup {None}], hits : [Addrs -> 0 .. HitLimit]]
    BY <1>4, <2>2 DEF Count, TypeOK
  <2> QED
    BY <1>4, <2>1, <2>3 DEF Count, TypeOK, VcpuRecords
<1>5. ASSUME NEW v \in Vcpus, Perform(v) PROVE TypeOK'
  <2>1. vcpu' \in [Vcpus -> VcpuRecords]
    BY <1>5, <1>v, IdleType DEF Perform, Return, VcpuRecords
  <2>2. owed' \subseteq Devices
    BY <1>5 DEF Perform, Performed, TypeOK
  <2> QED
    BY <1>5, <2>1, <2>2, <1>w DEF Perform, TypeOK
<1>s. ASSUME NEW v \in Vcpus, Submit(v) PROVE TypeOK'
  <2>1. vcpu' \in [Vcpus -> VcpuRecords]
    BY <1>s, <1>v DEF Submit, VcpuRecords
  <2> QED
    BY <1>s, <2>1, <1>w DEF Submit, TypeOK
<1>6. ASSUME NEW v \in Vcpus, Save(v) PROVE TypeOK'
  <2>1. [Idle EXCEPT !.pc = "dead"] \in VcpuRecords
    BY IdleType DEF VcpuRecords
  <2>2. vcpu' \in [Vcpus -> VcpuRecords]
    BY <1>6, <1>v, IdleType, <2>1 DEF Save, Return
  <2>3. events' \in [Keys -> [handler : Handlers, signalled : BOOLEAN, pc : {"wait", "submit"}] \cup {None}]
    <3>1. BoundEventFd(vcpu[v].handler)
            \in [handler : Handlers, signalled : BOOLEAN, pc : {"wait", "submit"}]
      BY <1>6 DEF Save, At, HandInv, BoundEventFd
    <3> QED
      BY <1>6, <3>1 DEF Save, TypeOK
  <2> QED
    BY <1>6, <2>2, <2>3, <1>w DEF Save, TypeOK
<1>7. ASSUME NEW k \in Keys, Server(k) PROVE TypeOK'
  <2>1. events' \in [Keys -> [handler : Handlers, signalled : BOOLEAN, pc : {"wait", "submit"}] \cup {None}]
    <3> DEFINE Bound == [handler : Handlers, signalled : BOOLEAN, pc : {"wait", "submit"}]
    <3>1. events \in [Keys -> Bound \cup {None}] /\ events[k] # None
      BY <1>7 DEF Server, Wait, Serve, TypeOK
    <3>2. events[k] \in Bound
      BY <3>1
    <3>3. [events[k] EXCEPT !.pc = "submit", !.signalled = FALSE] \in Bound
      <4>1. ASSUME NEW b \in BOOLEAN PROVE [events[k] EXCEPT !.pc = "submit", !.signalled = b] \in Bound
        BY <3>2
      <4> QED
        BY <4>1
    <3>4. [events[k] EXCEPT !.pc = "wait"] \in Bound
      BY <3>2
    <3>5. \/ events' = [events EXCEPT ![k] = [events[k] EXCEPT !.pc = "submit", !.signalled = FALSE]]
          \/ events' = [events EXCEPT ![k] = [events[k] EXCEPT !.pc = "wait"]]
          \/ events' = [events EXCEPT ![k] = None]
      BY <1>7, <3>1 DEF Server, Wait, Serve, Unbound
    <3> HIDE DEF Bound
    <3>6. events' \in [Keys -> Bound \cup {None}]
      BY <3>1, <3>3, <3>4, <3>5
    <3> QED
      BY <3>6 DEF Bound
  <2>2. owed' \subseteq Devices
    BY <1>7 DEF Server, Wait, Serve, Performed, TypeOK
  <2> QED
    BY <1>7, <1>v, <2>1, <2>2, <1>w DEF Server, Wait, Serve, TypeOK
<1>8. ASSUME NEW v \in Vcpus, NEW d \in Devices \cup {None}, SelectLast(v, d) PROVE TypeOK'
  BY <1>8 DEF SelectLast, TypeOK
<1>9. ASSUME NEW v \in Vcpus, NEW i \in Bars, NEW w \in BarValues, ConfWrite(v, i, w) PROVE TypeOK'
  <2>1. [Idle EXCEPT !.pc = "config"] \in VcpuRecords
    BY IdleType DEF VcpuRecords
  <2>2. vcpu' \in [Vcpus -> VcpuRecords]
    BY <1>9, <1>v, <2>1 DEF ConfWrite
  <2>3. conf' \in ConfRecords
    BY <1>9, AccessesType DEF ConfWrite, ConfRecords, Addrs
  <2> QED
    BY <1>9, <2>2, <2>3 DEF ConfWrite, TypeOK, VcpuRecords, ConfRecords
<1>n. CASE NilLast
  BY <1>n DEF NilLast, TypeOK
<1>m. ASSUME ConfSet, ~NilLast PROVE TypeOK'
  <2>1. last \in Devices /\ conf.bar \in Bars /\ conf.value \in Addrs
    BY <1>m DEF ConfSet, TypeOK
  <2>2. config' \in [Devices -> [Bars -> Addrs]]
    BY <1>m, <2>1 DEF ConfSet, TypeOK
  <2>3. conf' \in ConfRecords
    <3>1. conf' = [ConfIdle EXCEPT !.pc = "rebuild", !.dev = last, !.by = conf.by]
      BY <1>m DEF ConfSet
    <3>2. ConfIdle \in ConfRecords
      BY SizesType DEF ConfIdle, ConfRecords, Bars, Addrs
    <3>3. conf.by \in Vcpus \cup {None}
      BY DEF TypeOK
    <3> QED
      BY <3>1, <3>2, <3>3, <2>1 DEF ConfRecords
  <2> QED
    BY <1>m, <2>2, <2>3 DEF ConfSet, TypeOK, ConfRecords
<1>10. ASSUME RebuildBars, ~NilLast PROVE TypeOK'
  <2>1. last \in Devices /\ conf.dev \in Devices
    BY <1>10 DEF RebuildBars, ConfInv, TypeOK
  <2>2. config[last] \in [Bars -> Addrs] /\ config[last][0] \in Addrs
    BY <2>1 DEF TypeOK, Bars
  <2>3. RebuiltRegs(config[last]) \in [Bars -> Addrs]
    BY <2>2, AlignedType, SizesType DEF RebuiltRegs, AllOnes, Addrs
  <2>4. config' \in [Devices -> [Bars -> Addrs]]
    BY <1>10, <2>1, <2>3 DEF RebuildBars, TypeOK
  <2>5. io_handlers' \in [Devices -> SUBSET Handlers]
    BY <1>10, <2>1, <2>2 DEF RebuildBars, RebuiltHandlers, TypeOK, Handlers
  <2>6. conf' \in ConfRecords
    BY <1>10 DEF RebuildBars, TypeOK, ConfRecords
  <2>7. torn' \subseteq Devices /\ owed' \subseteq Devices
    BY <1>10, <2>1 DEF RebuildBars, TypeOK
  <2> QED
    BY <1>10, <2>4, <2>5, <2>6, <2>7 DEF RebuildBars, TypeOK, ConfRecords
<1>11. CASE Flush
  <2>1. vcpu' \in [Vcpus -> VcpuRecords]
    <3>1. ASSUME NEW v \in Vcpus PROVE Outdated(v) \in VcpuRecords
      <4>1. cache.hits[vcpu[v].addr] \in 0 .. HitLimit
        BY <1>v DEF VcpuRecords, TypeOK
      <4>2. ASSUME NEW n \in 0 .. HitLimit, NEW b \in BOOLEAN
            PROVE  [vcpu[v] EXCEPT !.stale = b, !.seen = n] \in VcpuRecords
        BY <1>v DEF VcpuRecords
      <4>3. PICK b \in BOOLEAN : b = (vcpu[v].stale \/ vcpu[v].pc \in {"count", "perform", "save"})
        OBVIOUS
      <4>4. vcpu[v].seen \in 0 .. HitLimit
        BY <1>v DEF VcpuRecords
      <4>5. PICK n \in 0 .. HitLimit :
               n = IF ~vcpu[v].stale /\ vcpu[v].pc \in {"perform", "save"}
                   THEN cache.hits[vcpu[v].addr] ELSE vcpu[v].seen
        BY <4>1, <4>4
      <4>6. Outdated(v) = [vcpu[v] EXCEPT !.stale = b, !.seen = n]
        BY <4>3, <4>5 DEF Outdated
      <4> QED
        BY <4>2, <4>6
    <3> QED
      BY <1>11, <3>1, IdleType DEF Flush
  <2>2. cache' \in [handlers : [Devices -> SUBSET Handlers],
                memory : [Addrs -> Handlers \cup {None}], hits : [Addrs -> 0 .. HitLimit]]
    BY <1>11, SizesType DEF Flush, NewIoCache, TypeOK
  <2>3. conf' \in ConfRecords
    BY <1>11, SizesType DEF Flush, ConfIdle, ConfRecords, Bars, Addrs
  <2> QED
    BY <1>11, <2>1, <2>2, <2>3 DEF Flush, TypeOK, VcpuRecords, ConfRecords
<1>12. CASE MapRace
  BY <1>12 DEF MapRace, TypeOK
<1>13. CASE UNCHANGED vars
  BY <1>13 DEF vars, TypeOK
<1> QED
  BY <1>1, <1>2, <1>3, <1>4, <1>5, <1>s, <1>6, <1>7, <1>8, <1>9, <1>n, <1>m, <1>10, <1>11, <1>12, <1>13
     DEF Next, Access, Handle, Configure, Rebuild

-----------------------------------------------------------------------------
(* What is in flight.                                                      *)

\* A vcpu's own steps leave the other vcpus alone: what holds of each of them
\* before still holds if the handlers of the cache in force are the same.
LEMMA HandStep == IInv /\ [Next]_vars => HandInv' /\ LookupInv'
<1> SUFFICES ASSUME IInv, [Next]_vars PROVE HandInv' /\ LookupInv'
  OBVIOUS
<1>t. /\ TypeOK /\ HandInv /\ LookupInv
      /\ vcpu \in [Vcpus -> VcpuRecords]
  BY DEF IInv, TypeOK, VcpuRecords
<1> DEFINE Ok(r) == /\ r.pc \in {"count", "submit", "perform", "save"} => r.handler \in Handlers
                    /\ r.pc = "save" => r.value \in Values
                    /\ r.pc = "count" /\ ~r.stale => r.handler = Found(cache.handlers, r.addr)
<1>a. ASSUME NEW v \in Vcpus, NEW r, vcpu' = [vcpu EXCEPT ![v] = r], Ok(r),
             cache'.handlers = cache.handlers
      PROVE  HandInv' /\ LookupInv'
  BY <1>a, <1>t DEF HandInv, LookupInv
<1>b. ASSUME vcpu' = vcpu, cache'.handlers = cache.handlers PROVE HandInv' /\ LookupInv'
  BY <1>b, <1>t DEF HandInv, LookupInv
<1>c. Ok(Idle)
  BY DEF Idle
<1>d. ASSUME NEW p \in {"guest", "lookup", "config", "dead"}, NEW r \in VcpuRecords, r.pc = p PROVE Ok(r)
  BY <1>d
<1>1. ASSUME NEW v \in Vcpus, NEW r \in Accesses, Signal(v, r[1], r[2]) PROVE HandInv' /\ LookupInv'
  BY <1>1, <1>b DEF Signal
<1>2. ASSUME NEW v \in Vcpus, NEW r \in Accesses, Exit(v, r[1], r[2]) PROVE HandInv' /\ LookupInv'
  <2> DEFINE q == [Idle EXCEPT !.pc = "lookup", !.addr = r[1], !.value = r[2]]
  <2>1. q.pc = "lookup"
    BY IdleType DEF VcpuRecords
  <2>2. Ok(q)
    BY <2>1
  <2>3. vcpu' = [vcpu EXCEPT ![v] = q] /\ cache'.handlers = cache.handlers
    BY <1>2 DEF Exit
  <2> HIDE DEF q, Ok
  <2> QED
    BY <2>2, <2>3, <1>a
<1>3. ASSUME NEW v \in Vcpus, Lookup(v) PROVE HandInv' /\ LookupInv'
  <2> DEFINE a == vcpu[v].addr
             h == IF cache.memory[a] # None THEN cache.memory[a] ELSE Found(cache.handlers, a)
             q == [vcpu[v] EXCEPT !.pc = "count", !.handler = h, !.seen = cache.hits[a]]
  <2>0. cache' = cache
    BY <1>3 DEF Lookup
  <2>1. CASE h = None
    <3>1. vcpu' = [vcpu EXCEPT ![v] = Idle]
      BY <1>3, <2>1 DEF Lookup, Return
    <3> HIDE DEF Ok
    <3> QED
      BY <3>1, <2>0, <1>a, <1>c
  <2>2. CASE h # None
    <3>1. vcpu' = [vcpu EXCEPT ![v] = q]
      BY <1>3, <2>2 DEF Lookup
    <3>2. a \in Addrs
      BY <1>t DEF VcpuRecords
    <3>3. h = Found(cache.handlers, a)
      BY <2>2, <3>2 DEF IInv, CacheCoherent
    <3>4. h \in Handlers
      BY <2>2, <3>2, <3>3, <1>t, FoundType DEF TypeOK
    <3> HIDE DEF h
    <3>5. q.pc = "count" /\ q.handler = h /\ q.addr = a
      BY <1>t DEF VcpuRecords
    <3>6. Ok(q)
      <4> HIDE DEF q, a
      <4> QED
        BY <3>3, <3>4, <3>5
    <3> HIDE DEF Ok, q
    <3> QED
      BY <3>1, <3>6, <2>0, <1>a
  <2> QED
    BY <2>1, <2>2
<1>4. ASSUME NEW v \in Vcpus, Count(v) PROVE HandInv' /\ LookupInv'
  <2> DEFINE q == [vcpu[v] EXCEPT !.pc = "submit", !.seen = 0, !.stale = FALSE]
  <2>1. vcpu' = [vcpu EXCEPT ![v] = q]
    BY <1>4 DEF Count
  <2>2. q.pc = "submit" /\ q.handler = vcpu[v].handler
    BY <1>t DEF VcpuRecords
  <2>3. vcpu[v].handler \in Handlers
    BY <1>4, <1>t DEF Count, At, HandInv
  <2>4. cache'.handlers = cache.handlers
    BY <1>4, <1>t DEF Count, TypeOK
  <2>5. Ok(q)
    <3> HIDE DEF q
    <3> QED
      BY <2>2, <2>3
  <2> HIDE DEF q, Ok
  <2> QED
    BY <2>1, <2>4, <2>5, <1>a
<1>s. ASSUME NEW v \in Vcpus, Submit(v) PROVE HandInv' /\ LookupInv'
  <2> DEFINE q == [vcpu[v] EXCEPT !.pc = "perform"]
  <2>1. vcpu' = [vcpu EXCEPT ![v] = q] /\ cache' = cache
    BY <1>s DEF Submit
  <2>2. q.pc = "perform" /\ q.handler = vcpu[v].handler
    BY <1>t DEF VcpuRecords
  <2>3. vcpu[v].handler \in Handlers
    BY <1>s, <1>t DEF Submit, At, HandInv
  <2>4. Ok(q)
    <3> HIDE DEF q
    <3> QED
      BY <2>2, <2>3
  <2> HIDE DEF q, Ok
  <2> QED
    BY <2>1, <2>4, <1>a
<1>5. ASSUME NEW v \in Vcpus, Perform(v) PROVE HandInv' /\ LookupInv'
  <2> DEFINE h == vcpu[v].handler
             x == vcpu[v].value
             q == [vcpu[v] EXCEPT !.pc = "save"]
  <2>0. cache' = cache /\ h \in Handlers
    BY <1>5, <1>t DEF Perform, At, HandInv
  <2>1. CASE IsNotify(h, vcpu[v].addr, x)
    <3>1. vcpu' = [vcpu EXCEPT ![v] = q]
      BY <1>5, <2>1 DEF Perform
    <3>2. q.pc = "save" /\ q.handler = h /\ q.value = x
      BY <1>t DEF VcpuRecords
    <3>3. x \in Values
      BY <1>t, <2>1 DEF VcpuRecords, IsNotify
    <3>4. Ok(q)
      <4> HIDE DEF q
      <4> QED
        BY <3>2, <3>3, <2>0
    <3> HIDE DEF q, Ok
    <3> QED
      BY <3>1, <3>4, <2>0, <1>a
  <2>2. CASE ~IsNotify(h, vcpu[v].addr, x)
    <3>1. vcpu' = [vcpu EXCEPT ![v] = Idle]
      BY <1>5, <2>2 DEF Perform, Return
    <3> HIDE DEF Ok
    <3> QED
      BY <3>1, <2>0, <1>a, <1>c
  <2> QED
    BY <2>1, <2>2
<1>6. ASSUME NEW v \in Vcpus, Save(v) PROVE HandInv' /\ LookupInv'
  <2> DEFINE q == [Idle EXCEPT !.pc = "dead"]
  <2>1. vcpu' = [vcpu EXCEPT ![v] = Idle] \/ vcpu' = [vcpu EXCEPT ![v] = q]
    BY <1>6 DEF Save, Return
  <2>2. q.pc = "dead"
    BY IdleType DEF VcpuRecords
  <2>3. Ok(q)
    <3> HIDE DEF q
    <3> QED
      BY <2>2
  <2>4. cache' = cache
    BY <1>6 DEF Save
  <2> HIDE DEF q, Ok
  <2> QED
    BY <2>1, <2>3, <2>4, <1>a, <1>c
<1>7. ASSUME NEW k \in Keys, Server(k) PROVE HandInv' /\ LookupInv'
  BY <1>7, <1>b DEF Server, Wait, Serve
<1>8. ASSUME NEW v \in Vcpus, NEW d \in Devices \cup {None}, SelectLast(v, d) PROVE HandInv' /\ LookupInv'
  BY <1>8, <1>b DEF SelectLast
<1>9. ASSUME NEW v \in Vcpus, NEW i \in Bars, NEW w \in BarValues, ConfWrite(v, i, w)
      PROVE  HandInv' /\ LookupInv'
  <2> DEFINE q == [Idle EXCEPT !.pc = "config"]
  <2>1. q.pc = "config"
    BY IdleType DEF VcpuRecords
  <2>2. Ok(q)
    <3> HIDE DEF q
    <3> QED
      BY <2>1
  <2>3. vcpu' = [vcpu EXCEPT ![v] = q] /\ cache' = cache
    BY <1>9 DEF ConfWrite
  <2> HIDE DEF q, Ok
  <2> QED
    BY <2>2, <2>3, <1>a
<1>10. CASE ConfSet \/ RebuildBars
  BY <1>10, <1>b DEF ConfSet, RebuildBars, NilLast
<1>11. CASE Flush
  <2>1. ASSUME NEW v \in Vcpus
        PROVE  /\ vcpu'[v].pc \in {"count", "submit", "perform", "save"} => vcpu'[v].handler \in Handlers
               /\ vcpu'[v].pc = "save" => vcpu'[v].value \in Values
               /\ vcpu'[v].pc = "count" => vcpu'[v].stale
    <3>1. CASE v = conf.by
      <4>1. vcpu'[v] = Idle
        BY <1>11, <3>1 DEF Flush
      <4> QED
        BY <4>1 DEF Idle
    <3>2. CASE v # conf.by
      <4> DEFINE q == Outdated(v)
      <4>1. vcpu'[v] = q
        BY <1>11, <3>2 DEF Flush
      <4>2. /\ q.pc = vcpu[v].pc /\ q.handler = vcpu[v].handler /\ q.value = vcpu[v].value
            /\ q.stale = (vcpu[v].stale \/ vcpu[v].pc \in {"count", "perform", "save"})
        BY <1>t DEF VcpuRecords, Outdated
      <4> HIDE DEF q
      <4> QED
        BY <4>1, <4>2, <1>t DEF HandInv
    <3> QED
      BY <3>1, <3>2
  <2> QED
    BY <2>1 DEF HandInv, LookupInv
<1>12. CASE MapRace
  BY <1>12, <1>b DEF MapRace
<1>13. CASE UNCHANGED vars
  BY <1>13, <1>b DEF vars
<1> QED
  BY <1>1, <1>2, <1>3, <1>4, <1>s, <1>5, <1>6, <1>7, <1>8, <1>9, <1>10, <1>11, <1>12, <1>13
     DEF Next, Access, Handle, Configure, Rebuild

\* Only Count and Flush write the cache, and only the configuration port
\* changes handlers.
LEMMA CacheStep == IInv /\ [Next]_vars => CacheCoherent'
<1> SUFFICES ASSUME IInv, [Next]_vars PROVE CacheCoherent'
  OBVIOUS
<1>t. TypeOK /\ LookupInv /\ CacheCoherent
  BY DEF IInv
<1>a. ASSUME UNCHANGED <<cache, io_handlers>>, conf' = conf \/ conf'.pc # "idle" PROVE CacheCoherent'
  BY <1>a, <1>t DEF CacheCoherent
<1>1. ASSUME NEW v \in Vcpus, Access(v) PROVE CacheCoherent'
  BY <1>1, <1>a DEF Access, Signal, Exit
<1>2. ASSUME NEW v \in Vcpus, Lookup(v) \/ Submit(v) \/ Perform(v) \/ Save(v) PROVE CacheCoherent'
  BY <1>2, <1>a DEF Lookup, Submit, Perform, Save
<1>3. ASSUME NEW v \in Vcpus, Count(v) PROVE CacheCoherent'
  <2>1. CASE vcpu[v].stale
    BY <1>3, <2>1, <1>a DEF Count
  <2>2. CASE ~vcpu[v].stale
    <3>1. cache'.handlers = cache.handlers /\ io_handlers' = io_handlers /\ conf' = conf
      BY <1>3, <2>2, <1>t DEF Count, TypeOK
    <3>2. vcpu[v].handler = Found(cache.handlers, vcpu[v].addr)
      BY <1>3, <2>2, <1>t DEF Count, At, LookupInv
    <3>3. ASSUME NEW a \in Addrs
          PROVE  cache'.memory[a] = IF a = vcpu[v].addr THEN vcpu[v].handler ELSE cache.memory[a]
      BY <1>3, <2>2, <1>t DEF Count, TypeOK
    <3> QED
      BY <3>1, <3>2, <3>3, <1>t DEF CacheCoherent
  <2> QED
    BY <2>1, <2>2
<1>4. ASSUME NEW k \in Keys, Server(k) PROVE CacheCoherent'
  BY <1>4, <1>a DEF Server, Wait, Serve
<1>5. ASSUME NEW v \in Vcpus, Configure(v) PROVE CacheCoherent'
  BY <1>5, <1>a DEF Configure, SelectLast, ConfWrite
<1>n. CASE NilLast
  BY <1>n, <1>a DEF NilLast
<1>m. ASSUME ConfSet, ~NilLast PROVE CacheCoherent'
  BY <1>m, <1>a DEF ConfSet, ConfIdle
<1>6. ASSUME RebuildBars, ~NilLast PROVE CacheCoherent'
  <2>1. conf'.pc = "flush" /\ cache' = cache
    BY <1>6, <1>t DEF RebuildBars, TypeOK
  <2> QED
    BY <2>1, <1>t DEF CacheCoherent
<1>7. CASE Flush
  BY <1>7 DEF Flush, NewIoCache, CacheCoherent
<1>8. CASE MapRace
  BY <1>8, <1>a DEF MapRace
<1>9. CASE UNCHANGED vars
  BY <1>9, <1>a DEF vars
<1> QED
  BY <1>1, <1>2, <1>3, <1>4, <1>5, <1>n, <1>m, <1>6, <1>7, <1>8, <1>9
     DEF Next, Handle, Rebuild

\* Only Config.Write parts the registers of a device from its handlers, and
\* only RebuildBars joins them: if it works on another device, the one that
\* was written to is torn.
LEMMA BarsStep == IInv /\ [Next]_vars => BarsInv' /\ ConfInv'
<1> SUFFICES ASSUME IInv, [Next]_vars PROVE BarsInv' /\ ConfInv'
  OBVIOUS
<1>t. TypeOK /\ ConfInv /\ BarsInv
  BY DEF IInv
<1>a. ASSUME UNCHANGED <<config, io_handlers, conf, torn>> PROVE BarsInv' /\ ConfInv'
  BY <1>a, <1>t DEF BarsInv, ConfInv
<1>1. ASSUME NEW v \in Vcpus, Access(v) \/ Handle(v) PROVE BarsInv' /\ ConfInv'
  BY <1>1, <1>a DEF Access, Signal, Exit, Handle, Lookup, Count, Submit, Perform, Save
<1>2. ASSUME NEW k \in Keys, Server(k) PROVE BarsInv' /\ ConfInv'
  BY <1>2, <1>a DEF Server, Wait, Serve
<1>3. ASSUME NEW v \in Vcpus, NEW d \in Devices \cup {None}, SelectLast(v, d) PROVE BarsInv' /\ ConfInv'
  BY <1>3, <1>a DEF SelectLast
<1>4. ASSUME NEW v \in Vcpus, NEW i \in Bars, NEW w \in BarValues, ConfWrite(v, i, w)
      PROVE  BarsInv' /\ ConfInv'
  <2>1. conf.pc = "idle" /\ conf'.pc = "write" /\ UNCHANGED <<config, io_handlers, torn>>
    BY <1>4 DEF ConfWrite
  <2> QED
    BY <2>1, <1>t DEF BarsInv, ConfInv
<1>n. CASE NilLast
  BY <1>n, <1>a DEF NilLast
<1>m. ASSUME ConfSet, ~NilLast PROVE BarsInv' /\ ConfInv'
  <2>1. /\ last \in Devices /\ conf.pc = "write"
        /\ conf'.pc = "rebuild" /\ conf'.dev = last
        /\ io_handlers' = io_handlers /\ torn' = torn
    BY <1>m, <1>t DEF ConfSet, ConfIdle, TypeOK
  <2>2. ASSUME NEW d \in Devices, d # last PROVE config'[d] = config[d]
    BY <1>m, <1>t, <2>2 DEF ConfSet, TypeOK
  <2> QED
    BY <2>1, <2>2, <1>t DEF BarsInv, ConfInv
<1>5. ASSUME RebuildBars, ~NilLast PROVE BarsInv' /\ ConfInv'
  <2>1. /\ conf.pc = "rebuild" /\ conf.dev \in Devices /\ last \in Devices
        /\ conf'.pc = "flush" /\ torn' = (torn \cup {conf.dev}) \ {last}
    BY <1>5, <1>t DEF RebuildBars, ConfInv, TypeOK
  <2>2. ASSUME NEW d \in Devices, d # last
        PROVE  config'[d] = config[d] /\ io_handlers'[d] = io_handlers[d]
    BY <1>5, <1>t, <2>2 DEF RebuildBars, TypeOK
  <2> DEFINE a == config[last][0]
             h == [dev |-> last, start |-> a]
  <2>3. a \in Addrs
    BY <2>1, <1>t DEF TypeOK, Bars
  <2>4. config'[last][0] = Aligned(a) /\ io_handlers'[last] = {h}
    BY <1>5, <2>1, <1>t DEF RebuildBars, TypeOK, RebuiltRegs, RebuiltHandlers, Bars
  <2>5. h.start = a /\ Aligned(a) % BarSize = 0
    BY <2>3, AlignedType
  <2>6. \E g \in io_handlers'[last] :
           Aligned(g.start) = config'[last][0] /\ config'[last][0] % BarSize = 0
    <3> HIDE DEF h, a
    <3> QED
      BY <2>4, <2>5
  <2>7. ASSUME NEW d \in Devices \ torn'
        PROVE  \E g \in io_handlers'[d] : Aligned(g.start) = config'[d][0] /\ config'[d][0] % BarSize = 0
    <3>1. CASE d = last
      BY <3>1, <2>6
    <3>2. CASE d # last
      BY <3>2, <2>1, <2>2, <1>t DEF BarsInv
    <3> QED
      BY <3>1, <3>2
  <2> QED
    BY <2>1, <2>7 DEF BarsInv, ConfInv
<1>6. CASE Flush
  BY <1>6, <1>t DEF Flush, ConfIdle, BarsInv, ConfInv
<1>7. CASE MapRace
  BY <1>7, <1>a DEF MapRace
<1>8. CASE UNCHANGED vars
  BY <1>8, <1>a DEF vars
<1> QED
  BY <1>1, <1>2, <1>3, <1>4, <1>n, <1>m, <1>5, <1>6, <1>7, <1>8
     DEF Next, Configure, Rebuild

-----------------------------------------------------------------------------
(* The theorems.                                                           *)

\* The invariant holds when all devices are attached at address zero.
LEMMA InitInv == Init => IInv
<1> SUFFICES ASSUME Init PROVE IInv
  OBVIOUS
<1>0. 0 \in Addrs /\ AllOnes \in Addrs /\ 0 \in 0 .. HitLimit /\ 0 \in Bars /\ 0 % BarSize = 0
  BY SizesType DEF Addrs, AllOnes, Bars
<1>1. io_handlers \in [Devices -> SUBSET Handlers]
  BY <1>0 DEF Init, Handlers
<1>2. cache \in [handlers : [Devices -> SUBSET Handlers],
                 memory : [Addrs -> Handlers \cup {None}], hits : [Addrs -> 0 .. HitLimit]]
  BY <1>0, <1>1 DEF Init, NewIoCache
<1>3. config \in [Devices -> [Bars -> Addrs]]
  BY <1>0 DEF Init
<1>4. vcpu \in [Vcpus -> VcpuRecords] /\ \A v \in Vcpus : vcpu[v].pc = "guest"
  BY IdleType DEF Init, Idle
<1>5. conf \in ConfRecords /\ conf.pc = "idle"
  BY <1>0 DEF Init, ConfIdle, ConfRecords
<1>6. TypeOK
  BY <1>1, <1>2, <1>3, <1>4, <1>5 DEF Init, TypeOK, VcpuRecords, ConfRecords
<1>7. CacheCoherent
  BY DEF Init, NewIoCache, CacheCoherent
<1>8. BarsInv
  <2> SUFFICES ASSUME NEW d \in Devices
      PROVE \E h \in io_handlers[d] : Aligned(h.start) = config[d][0] /\ config[d][0] % BarSize = 0
    BY DEF BarsInv
  <2>1. [dev |-> d, start |-> 0] \in io_handlers[d] /\ config[d][0] = 0
    BY <1>0 DEF Init
  <2>2. Aligned(0) = 0
    BY <1>0 DEF Aligned
  <2> QED
    BY <1>0, <2>1, <2>2
<1> QED
  BY <1>4, <1>5, <1>6, <1>7, <1>8 DEF IInv, ConfInv, HandInv, LookupInv

\* The inductive invariant: types, what a vcpu has in hand between its lookup
\* and its writes, the cache against the handlers it was made from, and the
\* registers against the handlers, with the address port free to select another
\* device at any moment.
THEOREM Invariance == Spec => []IInv
<1>1. Init => IInv
  BY InitInv
<1>2. IInv /\ [Next]_vars => IInv'
  BY TypeStep, HandStep, CacheStep, BarsStep DEF IInv
<1> QED
  BY <1>1, <1>2, PTL DEF Spec

\* Whichever vcpus were between lookup and count when the cache was replaced,
\* the cache in force answers as a search of the handlers does (cache.go:64,
\* model.go:83).
THEOREM CacheIsCoherent == Spec => []CacheCoherent
<1>1. IInv => CacheCoherent
  BY DEF IInv
<1> QED
  BY <1>1, Invariance, PTL

\* A BAR register reads as the aligned address of the handler that answers
\* for it (pci.go:422 and 438), whatever was written to it and whichever device
\* was selected meanwhile: but for a device that was written to while the
\* rebuild went to another one (torn, pci.go:294 and 299).
THEOREM RegistersDecode == Spec => []BarsDecode
<1>1. IInv => BarsDecode
  BY DEF IInv, BarsInv, BarsDecode
<1> QED
  BY <1>1, Invariance, PTL

=============================================================================
