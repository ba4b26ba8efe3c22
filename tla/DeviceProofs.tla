--------------------------- MODULE DeviceProofs ---------------------------
(***************************************************************************)
(* Proofs about a device: about pausing it, for any sets of callers,       *)
(* handlers and vcpus and any bound on the pause count, and about its      *)
(* MSI-X table, for any number of workers, vectors and pending bits to a   *)
(* byte, and any bounds.                                                   *)
(***************************************************************************)
EXTENDS DevicePause, MsiX, FiniteSetTheorems, TLAPS

\* The internal pauses that have been counted: granted, or about to be.
Counted == {c \in Callers : call[c] \in {"i_lock", "i_held"}}

\* paused may count too much, never too little.
CountInv == Cardinality(Counted) <= paused

\* pause_lock is held by the caller inside run_lock.Lock.
OwnerInv == \A c \in Callers : call[c] \in {"i_lock", "m_lock"} <=> pause_lock = c

\* A writer has run_lock to itself; while it waits nobody holds a pause.
WriterInv ==
  /\ writer = "locked" => Active = {}
  /\ writer = "waiting" => Holders = {}

\* The inductive invariant.  That a holder keeps run_lock locked follows from
\* RunLockFollowsPauses, if paused is not 0 while there is a holder: CountInv.
IInv ==
  /\ TypeOK
  /\ CountInv
  /\ OwnerInv
  /\ WriterInv
  /\ RunLockFollowsPauses

-----------------------------------------------------------------------------
\* The set of counted pauses is finite.
LEMMA CountedFinite ==
  ASSUME TypeOK
  PROVE  IsFiniteSet(Counted) /\ Cardinality(Counted) \in Nat
BY CallersFinite, FS_Subset, FS_CardinalityType DEF Counted

\* If a caller is among them, paused is not 0.
LEMMA CountedPositive ==
  ASSUME TypeOK, CountInv, NEW c \in Counted
  PROVE  paused > 0
<1>1. Cardinality(Counted) # 0
  BY CountedFinite, FS_EmptySet
<1> QED
  BY <1>1, CountedFinite DEF CountInv, TypeOK

\* Type correctness; that paused stays natural needs CountInv.
LEMMA TypeStep == IInv /\ [Next]_vars => TypeOK'
<1> SUFFICES ASSUME IInv, [Next]_vars PROVE TypeOK'
  OBVIOUS
<1> USE DEF IInv, TypeOK, CallStates, IoStates, pauseVars, ioVars
<1>0. ASSUME NEW c \in Callers, PauseManual(c) PROVE TypeOK'
  BY <1>0 DEF PauseManual, LockRun, SetCall
<1>1. ASSUME NEW c \in Callers, PauseInternal(c) PROVE TypeOK'
  <2>1. paused' \in Nat
    BY <1>1 DEF PauseInternal
  <2> QED
    BY <1>1, <2>1 DEF PauseInternal, LockRun, SetCall
<1>2. ASSUME NEW c \in Callers, Locked(c) PROVE TypeOK'
  BY <1>2 DEF Locked, SetCall
<1>3. ASSUME NEW c \in Callers, UnpauseManual(c) PROVE TypeOK'
  BY <1>3 DEF UnpauseManual, UnlockRun
<1>4. ASSUME NEW c \in Callers, UnpauseInternal(c) PROVE TypeOK'
  <2>1. paused > 0
    BY <1>4, CountedPositive DEF UnpauseInternal, Counted
  <2>2. paused' \in Nat
    BY <1>4, <2>1 DEF UnpauseInternal
  <2> QED
    BY <1>4, <2>2 DEF UnpauseInternal, UnlockRun, SetCall
<1>5. ASSUME NEW h \in Handlers, Handler(h) PROVE TypeOK'
  BY <1>5 DEF Handler, Acquire, Reply, Release, Submit, Pull
<1>6. CASE UNCHANGED vars
  BY <1>6 DEF vars
<1> QED
  BY <1>0, <1>1, <1>2, <1>3, <1>4, <1>5, <1>6 DEF Next, Caller

\* No step makes paused count too little.
LEMMA CountStep == IInv /\ [Next]_vars => CountInv'
<1> SUFFICES ASSUME IInv, [Next]_vars PROVE CountInv'
  OBVIOUS
<1>t. TypeOK' /\ IsFiniteSet(Counted) /\ Cardinality(Counted) \in Nat
  BY TypeStep, CountedFinite DEF IInv
<1> USE DEF IInv, TypeOK, CountInv
<1>1. ASSUME Counted' = Counted, paused' = paused
      PROVE  CountInv'
  BY <1>1
<1>2. ASSUME NEW c \in Callers, PauseManual(c) \/ UnpauseManual(c) \/ Locked(c)
      PROVE  CountInv'
  <2>1. Counted' = Counted
    BY <1>2 DEF PauseManual, UnpauseManual, Locked, LockRun, SetCall, Counted
  <2> QED
    BY <1>2, <2>1, <1>1 DEF PauseManual, UnpauseManual, Locked
<1>3. ASSUME NEW c \in Callers, PauseInternal(c) PROVE CountInv'
  <2>1. c \notin Counted /\ Counted' = Counted \cup {c}
    BY <1>3 DEF PauseInternal, LockRun, SetCall, Counted
  <2>2. Cardinality(Counted') = Cardinality(Counted) + 1
    BY <2>1, <1>t, FS_AddElement
  <2> QED
    BY <1>3, <2>2, <1>t DEF PauseInternal
<1>4. ASSUME NEW c \in Callers, UnpauseInternal(c) PROVE CountInv'
  <2>1. c \in Counted /\ Counted' = Counted \ {c}
    BY <1>4 DEF UnpauseInternal, SetCall, Counted
  <2>2. Cardinality(Counted') = Cardinality(Counted) - 1
    BY <2>1, <1>t, FS_RemoveElement
  <2> QED
    BY <1>4, <2>2, <1>t DEF UnpauseInternal
<1>5. ASSUME NEW h \in Handlers, Handler(h) PROVE CountInv'
  BY <1>5, <1>1 DEF Handler, Acquire, Reply, Release, Submit, Pull, pauseVars, Counted
<1>6. CASE UNCHANGED vars
  BY <1>6, <1>1 DEF vars, pauseVars, Counted
<1> QED
  BY <1>2, <1>3, <1>4, <1>5, <1>6 DEF Next, Caller

\* The inductive invariant is preserved, one step of the proof per action.
LEMMA InvStep == IInv /\ [Next]_vars => IInv'
<1> SUFFICES ASSUME IInv, [Next]_vars PROVE IInv'
  OBVIOUS
<1>0. TypeOK' /\ CountInv'
  BY TypeStep, CountStep
<1>a. Holders # {} => paused > 0
  BY CountedPositive DEF IInv, Counted, Holders
<1> SUFFICES OwnerInv' /\ WriterInv' /\ RunLockFollowsPauses'
  BY <1>0 DEF IInv
<1> USE DEF IInv, TypeOK, OwnerInv, WriterInv, RunLockFollowsPauses, Active, Holders,
            PauseRequested, pauseVars, ioVars, CallStates, IoStates
<1>1. ASSUME NEW c \in Callers, PauseManual(c)
      PROVE  OwnerInv' /\ WriterInv' /\ RunLockFollowsPauses'
  BY <1>1, <1>a, NoOneFresh DEF PauseManual, LockRun, SetCall
<1>2. ASSUME NEW c \in Callers, PauseInternal(c)
      PROVE  OwnerInv' /\ WriterInv' /\ RunLockFollowsPauses'
  <2>1. CASE paused > 0 \/ is_paused
    BY <1>2, <2>1, NoOneFresh DEF PauseInternal, SetCall, LockRun
  <2>2. CASE ~(paused > 0 \/ is_paused)
    BY <1>2, <2>2, <1>a, NoOneFresh DEF PauseInternal, SetCall, LockRun
  <2> QED
    BY <2>1, <2>2
<1>3. ASSUME NEW c \in Callers, Locked(c)
      PROVE  OwnerInv' /\ WriterInv' /\ RunLockFollowsPauses'
  BY <1>3, NoOneFresh DEF Locked, SetCall
<1>4. ASSUME NEW c \in Callers, UnpauseManual(c)
      PROVE  OwnerInv' /\ WriterInv' /\ RunLockFollowsPauses'
  BY <1>4, NoOneFresh DEF UnpauseManual, UnlockRun
<1>5. ASSUME NEW c \in Callers, UnpauseInternal(c)
      PROVE  OwnerInv' /\ WriterInv' /\ RunLockFollowsPauses'
  BY <1>5, NoOneFresh DEF UnpauseInternal, UnlockRun, SetCall
\* A handler enters only if there is no writer at all.
<1>6. ASSUME NEW h \in Handlers, Handler(h)
      PROVE  OwnerInv' /\ WriterInv' /\ RunLockFollowsPauses'
  BY <1>6 DEF Handler, Acquire, Reply, Release, Submit, Pull
<1>7. CASE UNCHANGED vars
  BY <1>7 DEF vars
<1> QED
  BY <1>1, <1>2, <1>3, <1>4, <1>5, <1>6, <1>7 DEF Next, Caller

\* The invariant holds in every reachable state.
THEOREM Invariance == Spec => []IInv
<1>1. ASSUME Init PROVE IInv
  <2>0. TypeOK
    BY <1>1 DEF Init, TypeOK, CallStates, IoStates
  <2>1. OwnerInv /\ WriterInv /\ RunLockFollowsPauses
    BY <1>1, NoOneFresh DEF Init, OwnerInv, WriterInv, RunLockFollowsPauses, PauseRequested
  <2>2. Counted = {}
    BY <1>1 DEF Init, Counted
  <2>3. CountInv
    BY <1>1, <2>2, FS_EmptySet DEF Init, CountInv
  <2> QED
    BY <2>0, <2>1, <2>3 DEF IInv
<1> QED
  BY <1>1, InvStep, PTL DEF Spec

\* The state of a device's pause stays in its type; in particular no Unpause
\* takes paused below 0.
THEOREM TypeCorrect == Spec => []TypeOK
<1>1. IInv => TypeOK
  BY DEF IInv
<1> QED
  BY <1>1, Invariance, PTL

\* The invariant gives what the holder of an internal pause relies on.
LEMMA InvQuiet == IInv => HeldMeansQuiet
<1> SUFFICES ASSUME IInv, Holders # {} PROVE Active = {} /\ writer = "locked"
  BY DEF HeldMeansQuiet
<1>1. paused > 0
  BY CountedPositive DEF IInv, Counted, Holders
<1> QED
  BY <1>1 DEF IInv, WriterInv, RunLockFollowsPauses, PauseRequested, TypeOK

\* While an internal pause is held no handler is at work on the device.
THEOREM PauseSafety == Spec => []HeldMeansQuiet
BY InvQuiet, Invariance, PTL

\* run_lock is locked and unlocked exactly as pauses come into force and end.
THEOREM RunLockSafety == Spec => []RunLockFollowsPauses
<1>1. IInv => RunLockFollowsPauses
  BY DEF IInv
<1> QED
  BY <1>1, Invariance, PTL

-----------------------------------------------------------------------------
\* A step of the device is a step of the gate or leaves it alone.
LEMMA GateStep == IInv /\ [Next]_vars => [Gate!GateNext]_(Gate!gateVars)
<1> SUFFICES ASSUME IInv, [Next]_vars PROVE [Gate!GateNext]_(Gate!gateVars)
  OBVIOUS
<1>q. HeldMeansQuiet /\ HeldMeansQuiet'
  BY InvQuiet, InvStep, PTL
<1>b. ASSUME Active' = Active, Holders' = Holders
      PROVE  [Gate!GateNext]_(Gate!gateVars)
  BY <1>b DEF Gate!gateVars
<1>1. ASSUME NEW c \in Callers, Caller(c)
      PROVE  [Gate!GateNext]_(Gate!gateVars)
  <2>1. Active' = Active
    BY <1>1 DEF Caller, PauseManual, PauseInternal, Locked, UnpauseManual, UnpauseInternal,
                ioVars, Active
  <2>2. \E s \in CallStates : call' = [call EXCEPT ![c] = s]
    BY <1>1 DEF Caller, PauseManual, PauseInternal, Locked, UnpauseManual, UnpauseInternal,
                LockRun, SetCall, CallStates, IInv, TypeOK
  <2>3. \/ Holders' = Holders
        \/ c \notin Holders /\ Holders' = Holders \cup {c}
        \/ c \in Holders /\ Holders' = Holders \ {c}
    BY <2>2 DEF IInv, TypeOK, Holders
  <2>4. CASE Holders' = Holders
    BY <2>1, <2>4, <1>b
  <2>5. CASE c \notin Holders /\ Holders' = Holders \cup {c}
    <3>1. Active = {}
      BY <2>1, <2>5, <1>q DEF HeldMeansQuiet
    <3> QED
      BY <2>1, <2>5, <3>1 DEF Gate!GateNext, Gate!Grant
  <2>6. CASE c \in Holders /\ Holders' = Holders \ {c}
    BY <2>1, <2>6 DEF Gate!GateNext, Gate!Release
  <2> QED
    BY <2>3, <2>4, <2>5, <2>6
<1>2. ASSUME NEW h \in Handlers, Handler(h)
      PROVE  [Gate!GateNext]_(Gate!gateVars)
  <2>1. Holders' = Holders
    BY <1>2 DEF Handler, Acquire, Reply, Release, Submit, Pull, Holders
  <2>2. CASE (Active' # {}) = (Active # {})
    BY <2>1, <2>2 DEF Gate!gateVars
  <2>3. CASE Active # {} /\ Active' = {}
    BY <2>1, <2>3 DEF Gate!GateNext, Gate!Stop
  <2>4. CASE Active = {} /\ Active' # {}
    <3>1. Holders = {}
      BY <2>1, <2>4, <1>q DEF HeldMeansQuiet
    <3> QED
      BY <2>1, <2>4, <3>1 DEF Gate!GateNext, Gate!Start
  <2> QED
    BY <2>2, <2>3, <2>4
<1>3. CASE UNCHANGED vars
  BY <1>3, <1>b DEF vars, ioVars, Active, Holders
<1> QED
  BY <1>1, <1>2, <1>3 DEF Next

\* Pausing a device implements the gate.
THEOREM Refinement == Spec => ImplementsGate
<1>1. ASSUME Init PROVE Gate!GateInit
  BY <1>1 DEF Init, Gate!GateInit, Active, Holders
<1> QED
  BY <1>1, GateStep, Invariance, PTL DEF Spec, ImplementsGate, Gate!GateSpec

-----------------------------------------------------------------------------
(* MSI-X.                                                                  *)

PCs == {"idle", "send", "setGet", "setSet", "clearGet", "clearSet", "signal",
        "isPending", "isMasked"}

MsiXTypeOK ==
  /\ enabled \in BOOLEAN
  /\ masked \in [Vecs -> BOOLEAN]
  /\ Pending \subseteq Vecs
  /\ at \in [Actors -> [pc : PCs, vec : Vecs, val : SUBSET Vecs]]
  /\ raised \in [Workers -> Nat]
  /\ writes \in Nat
  /\ owed \subseteq Vecs /\ clobbered \subseteq Vecs
  /\ late \subseteq Vecs /\ stranded \subseteq Vecs

\* A goroutine is on its way to look at the mask of the vector and to signal
\* it, or to set its bit.
Checking(v) == \E a \in Actors :
  at[a].vec = v /\ at[a].pc \in {"isPending", "isMasked", "send", "setGet", "setSet",
                                 "clearGet", "clearSet"}

\* PendingIsDelivered, while goroutines are under way.
DeliveryInv ==
  \A v \in Pending :
    IsMasked(v) \/ v \in late \cup clobbered \cup stranded \/ Checking(v)

\* What a goroutine has read is of the byte it is going to write.
ReadInv == \A a \in Actors : at[a].val \subseteq Byte(at[a].vec)

\* The inductive invariant.
MsiXInv == MsiXTypeOK /\ ReadInv /\ NoInterruptVanishes /\ DeliveryInv

-----------------------------------------------------------------------------
\* The number of the byte a vector's pending bit is in, which IsMasked takes
\* for the number of an entry.
LEMMA ByteNumber ==
  ASSUME NEW v \in Vecs
  PROVE  v \div ByteBits \in Nat
BY VectorsAssumption DEF Vecs

\* There is a first vector, which idle goroutines have.
LEMMA ZeroIsVector == 0 \in Vecs
BY VectorsAssumption DEF Vecs

\* What Return leaves of the goroutine's state.
LEMMA ReturnType ==
  ASSUME MsiXTypeOK, NEW a \in Actors, Return(a, at[a].vec)
  PROVE  /\ at' \in [Actors -> [pc : PCs, vec : Vecs, val : SUBSET Vecs]]
         /\ \A b \in Actors \ {a} : at'[b] = at[b]
         /\ at'[a].pc \in {"idle", "isPending"}
<1>1. CASE a = Conf /\ at[a].vec + 1 < Vectors
  <2>1. at[a].vec + 1 \in Vecs
    BY <1>1, VectorsAssumption DEF MsiXTypeOK, Vecs
  <2> QED
    BY <1>1, <2>1 DEF MsiXTypeOK, Return, Goes, PCs
<1>2. CASE ~(a = Conf /\ at[a].vec + 1 < Vectors)
  BY <1>2, ZeroIsVector DEF MsiXTypeOK, Return, Idle, PCs
<1> QED
  BY <1>1, <1>2

\* And Goes.
LEMMA GoesType ==
  ASSUME MsiXTypeOK, NEW a \in Actors, NEW pc \in PCs, NEW v \in Vecs, Goes(a, pc, v)
  PROVE  /\ at' \in [Actors -> [pc : PCs, vec : Vecs, val : SUBSET Vecs]]
         /\ \A b \in Actors \ {a} : at'[b] = at[b]
         /\ at'[a] = [pc |-> pc, vec |-> v, val |-> {}]
BY DEF MsiXTypeOK, Goes, PCs

-----------------------------------------------------------------------------
\* Type correctness, one step of the proof per action.
LEMMA MsiXTypeStep == MsiXTypeOK /\ [MsiXNext]_msixVars => MsiXTypeOK'
<1> SUFFICES ASSUME MsiXTypeOK, [MsiXNext]_msixVars PROVE MsiXTypeOK'
  OBVIOUS
<1> USE DEF table, ghosts
<1>1. ASSUME NEW w \in Workers, NEW v \in 0 .. Vectors, Interrupt(w, v) PROVE MsiXTypeOK'
  <2>1. w \in Actors
    BY DEF Actors
  <2>2. at' \in [Actors -> [pc : PCs, vec : Vecs, val : SUBSET Vecs]]
    BY <1>1, <2>1, GoesType DEF Interrupt, MsiXTypeOK, PCs
  <2>3. raised' \in [Workers -> Nat]
    BY <1>1 DEF Interrupt, MsiXTypeOK
  <2> QED
    BY <1>1, <2>2, <2>3 DEF Interrupt, MsiXTypeOK
<1>2. ASSUME NEW a \in Actors, SendInterrupt(a) PROVE MsiXTypeOK'
  <2>1. at' \in [Actors -> [pc : PCs, vec : Vecs, val : SUBSET Vecs]]
    BY <1>2 DEF SendInterrupt, Goes, MsiXTypeOK, PCs
  <2> QED
    BY <1>2, <2>1 DEF SendInterrupt, MsiXTypeOK
<1>3. ASSUME NEW a \in Actors, Get8(a) PROVE MsiXTypeOK'
  <2>1. at' \in [Actors -> [pc : PCs, vec : Vecs, val : SUBSET Vecs]]
    BY <1>3 DEF Get8, MsiXTypeOK, PCs
  <2> QED
    BY <1>3, <2>1 DEF Get8, MsiXTypeOK
<1>4. ASSUME NEW a \in Actors, SetPending(a) PROVE MsiXTypeOK'
  <2>1. at' \in [Actors -> [pc : PCs, vec : Vecs, val : SUBSET Vecs]]
    BY <1>4, ReturnType DEF SetPending
  <2>2. at[a].vec \in Vecs /\ at[a].val \subseteq Vecs
    BY DEF MsiXTypeOK
  <2> QED
    BY <1>4, <2>1, <2>2 DEF SetPending, PendingWith, Stale, Byte, MsiXTypeOK
<1>5. ASSUME NEW a \in Actors, ClearPending(a) PROVE MsiXTypeOK'
  <2>2. at[a].vec \in Vecs /\ at[a].val \subseteq Vecs
    BY DEF MsiXTypeOK
  <2>1. at' \in [Actors -> [pc : PCs, vec : Vecs, val : SUBSET Vecs]]
    BY <1>5, <2>2, GoesType DEF ClearPending, PCs
  <2> QED
    BY <1>5, <2>1, <2>2 DEF ClearPending, PendingWithout, Stale, Byte, MsiXTypeOK
<1>6. ASSUME NEW a \in Actors, SignalMSI(a) PROVE MsiXTypeOK'
  <2>1. at' \in [Actors -> [pc : PCs, vec : Vecs, val : SUBSET Vecs]]
    BY <1>6, ReturnType DEF SignalMSI
  <2> QED
    BY <1>6, <2>1 DEF SignalMSI, MsiXTypeOK
<1>7. ASSUME NEW a \in Actors, CheckPending(a) PROVE MsiXTypeOK'
  <2>1. at' \in [Actors -> [pc : PCs, vec : Vecs, val : SUBSET Vecs]]
    BY <1>7, ReturnType, GoesType DEF CheckPending, MsiXTypeOK, PCs
  <2> QED
    BY <1>7, <2>1 DEF CheckPending, MsiXTypeOK
<1>8. ASSUME NEW a \in Actors, CheckMasked(a) PROVE MsiXTypeOK'
  <2>1. at' \in [Actors -> [pc : PCs, vec : Vecs, val : SUBSET Vecs]]
    BY <1>8, ReturnType, GoesType DEF CheckMasked, MsiXTypeOK, PCs
  <2> QED
    BY <1>8, <2>1 DEF CheckMasked, MsiXTypeOK
<1>9. ASSUME NEW v \in Vecs, NEW control \in BOOLEAN, EntryWrite(v, control) PROVE MsiXTypeOK'
  <2>1. at' \in [Actors -> [pc : PCs, vec : Vecs, val : SUBSET Vecs]]
    BY <1>9, GoesType DEF EntryWrite, Actors, PCs
  <2> QED
    BY <1>9, <2>1 DEF EntryWrite, Strands, MsiXTypeOK
<1>10. ASSUME NEW enable \in BOOLEAN, ControlWrite(enable) PROVE MsiXTypeOK'
  <2>1. at' \in [Actors -> [pc : PCs, vec : Vecs, val : SUBSET Vecs]]
    BY <1>10, GoesType, ZeroIsVector DEF ControlWrite, Actors, PCs
  <2> QED
    BY <1>10, <2>1 DEF ControlWrite, MsiXTypeOK
<1>11. CASE UNCHANGED msixVars
  BY <1>11 DEF msixVars, MsiXTypeOK
<1> QED
  BY <1>1, <1>2, <1>3, <1>4, <1>5, <1>6, <1>7, <1>8, <1>9, <1>10, <1>11 DEF MsiXNext, Deliver

\* No step makes a goroutine keep bits of another byte than it is going to write.
LEMMA ReadStep == MsiXTypeOK /\ ReadInv /\ [MsiXNext]_msixVars => ReadInv'
<1> SUFFICES ASSUME MsiXTypeOK, ReadInv, [MsiXNext]_msixVars, NEW b \in Actors
             PROVE  at'[b].val \subseteq Byte(at'[b].vec)
  BY DEF ReadInv, Byte
<1>1. CASE at'[b] = at[b] \/ at'[b].val = {}
  BY <1>1 DEF ReadInv
<1>2. CASE Get8(b)
  <2>1. at'[b].val = Pending \cap Byte(at[b].vec) /\ at'[b].vec = at[b].vec
    BY <1>2 DEF Get8, MsiXTypeOK
  <2> QED
    BY <2>1
<1>3. ASSUME NEW a \in Actors, Return(a, at[a].vec)
      PROVE  at'[b] = at[b] \/ at'[b].val = {}
  BY <1>3 DEF Return, Goes, Idle, MsiXTypeOK
<1>4. ASSUME NEW a \in Actors, NEW pc, NEW v, Goes(a, pc, v)
      PROVE  at'[b] = at[b] \/ at'[b].val = {}
  BY <1>4 DEF Goes, MsiXTypeOK
<1>5. ASSUME NEW a \in Actors, Deliver(a)
      PROVE  at'[b] = at[b] \/ at'[b].val = {} \/ Get8(b)
  <2>1. CASE Get8(a)
    BY <2>1 DEF Get8, MsiXTypeOK
  <2>2. CASE SetPending(a) \/ SignalMSI(a)
    BY <2>2, <1>3 DEF SetPending, SignalMSI
  <2>3. CASE SendInterrupt(a) \/ ClearPending(a)
    BY <2>3, <1>4 DEF SendInterrupt, ClearPending
  <2>4. CASE CheckPending(a) \/ CheckMasked(a)
    BY <2>4, <1>3, <1>4 DEF CheckPending, CheckMasked
  <2> QED
    BY <1>5, <2>1, <2>2, <2>3, <2>4 DEF Deliver
<1>6. CASE UNCHANGED msixVars
  BY <1>6, <1>1 DEF msixVars
<1>7. ASSUME NEW w \in Workers, NEW v \in 0 .. Vectors, Interrupt(w, v)
      PROVE  at'[b] = at[b] \/ at'[b].val = {}
  BY <1>7, <1>4 DEF Interrupt, Actors
<1>8. ASSUME NEW v \in Vecs, NEW control \in BOOLEAN, EntryWrite(v, control)
      PROVE  at'[b] = at[b] \/ at'[b].val = {}
  BY <1>8, <1>4 DEF EntryWrite, Actors
<1>9. ASSUME NEW enable \in BOOLEAN, ControlWrite(enable)
      PROVE  at'[b] = at[b] \/ at'[b].val = {}
  BY <1>9, <1>4 DEF ControlWrite, Actors
<1> QED
  BY <1>1, <1>2, <1>5, <1>6, <1>7, <1>8, <1>9 DEF MsiXNext

\* No step loses an interrupt: the vectors are the owed ones of after the step.
LEMMA VanishStep == MsiXTypeOK /\ NoInterruptVanishes /\ [MsiXNext]_msixVars => NoInterruptVanishes'
<1> SUFFICES ASSUME MsiXTypeOK, NoInterruptVanishes, [MsiXNext]_msixVars, NEW v \in owed'
             PROVE  v \in Pending' \/ InFlight(v)' \/ v \in clobbered'
  BY DEF NoInterruptVanishes
<1> USE DEF table, ghosts
\* A goroutine that another one's step leaves alone stays in flight.
<1>a. ASSUME NEW a \in Actors, \A b \in Actors \ {a} : at'[b] = at[b],
             v \in owed, v # at[a].vec, Pending \subseteq Pending', clobbered \subseteq clobbered'
      PROVE  v \in Pending' \/ InFlight(v)' \/ v \in clobbered'
  BY <1>a DEF NoInterruptVanishes, InFlight
<1>b. ASSUME NEW a \in Actors, \A b \in Actors \ {a} : at'[b] = at[b], v \in owed,
             at[a].pc \in {"idle", "isPending", "isMasked"}, Pending' = Pending, clobbered' = clobbered
      PROVE  v \in Pending' \/ InFlight(v)' \/ v \in clobbered'
  BY <1>b DEF NoInterruptVanishes, InFlight
<1>1. ASSUME NEW w \in Workers, NEW u \in 0 .. Vectors, Interrupt(w, u)
      PROVE  v \in Pending' \/ InFlight(v)' \/ v \in clobbered'
  <2>1. w \in Actors
    BY DEF Actors
  <2>2. CASE enabled /\ u \in Vecs
    <3>1. (\A b \in Actors \ {w} : at'[b] = at[b]) /\ at'[w] = [pc |-> "send", vec |-> u, val |-> {}]
      BY <1>1, <2>1, <2>2, GoesType DEF Interrupt, PCs
    <3>2. CASE v = u
      BY <2>1, <3>1, <3>2 DEF InFlight
    <3>3. CASE v # u
      BY <1>1, <2>1, <2>2, <3>1, <3>3, <1>b DEF Interrupt, Idle
    <3> QED
      BY <3>2, <3>3
  <2>3. CASE ~(enabled /\ u \in Vecs)
    BY <1>1, <2>3 DEF Interrupt, NoInterruptVanishes, InFlight
  <2> QED
    BY <2>2, <2>3
<1>2. ASSUME NEW a \in Actors, SendInterrupt(a) \/ Get8(a)
      PROVE  v \in Pending' \/ InFlight(v)' \/ v \in clobbered'
  <2>1. at'[a].vec = at[a].vec /\ at'[a].pc \in {"setGet", "clearGet", "setSet", "clearSet"}
    BY <1>2 DEF SendInterrupt, Get8, Goes, MsiXTypeOK
  <2>2. \A b \in Actors \ {a} : at'[b] = at[b]
    BY <1>2 DEF SendInterrupt, Get8, Goes, MsiXTypeOK
  <2> QED
    BY <1>2, <2>1, <2>2 DEF SendInterrupt, Get8, NoInterruptVanishes, InFlight
\* The other bits of the byte are written back as they were read: one that was
\* set in between is clobbered.
<1>3. ASSUME NEW a \in Actors, SetPending(a)
      PROVE  v \in Pending' \/ InFlight(v)' \/ v \in clobbered'
  <2>1. \A b \in Actors \ {a} : at'[b] = at[b]
    BY <1>3, ReturnType DEF SetPending
  <2>2. at[a].vec \in Pending'
    BY <1>3 DEF SetPending, PendingWith
  <2>3. \A u \in Pending : u \in Pending' \/ u \in clobbered'
    BY <1>3 DEF SetPending, PendingWith, Stale, MsiXTypeOK
  <2> QED
    BY <1>3, <2>1, <2>2, <2>3 DEF SetPending, NoInterruptVanishes, InFlight
<1>4. ASSUME NEW a \in Actors, ClearPending(a)
      PROVE  v \in Pending' \/ InFlight(v)' \/ v \in clobbered'
  <2>1. (\A b \in Actors \ {a} : at'[b] = at[b]) /\ at'[a].vec = at[a].vec /\ at'[a].pc = "signal"
    BY <1>4 DEF ClearPending, Goes, MsiXTypeOK
  <2>3. \A u \in Pending \ {at[a].vec} : u \in Pending' \/ u \in clobbered'
    BY <1>4 DEF ClearPending, PendingWithout, Stale, MsiXTypeOK
  <2> QED
    BY <1>4, <2>1, <2>3 DEF ClearPending, NoInterruptVanishes, InFlight
<1>5. ASSUME NEW a \in Actors, SignalMSI(a)
      PROVE  v \in Pending' \/ InFlight(v)' \/ v \in clobbered'
  BY <1>5, <1>a, ReturnType DEF SignalMSI
<1>6. ASSUME NEW a \in Actors, CheckPending(a) \/ CheckMasked(a)
      PROVE  v \in Pending' \/ InFlight(v)' \/ v \in clobbered'
  <2>1. \A b \in Actors \ {a} : at'[b] = at[b]
    BY <1>6, ReturnType DEF CheckPending, CheckMasked, Goes, MsiXTypeOK
  <2> QED
    BY <1>6, <2>1, <1>b DEF CheckPending, CheckMasked
<1>7. ASSUME NEW u \in Vecs, NEW control \in BOOLEAN, EntryWrite(u, control)
      PROVE  v \in Pending' \/ InFlight(v)' \/ v \in clobbered'
  BY <1>7, <1>b DEF EntryWrite, Goes, MsiXTypeOK, Actors, Idle
<1>8. ASSUME NEW enable \in BOOLEAN, ControlWrite(enable)
      PROVE  v \in Pending' \/ InFlight(v)' \/ v \in clobbered'
  BY <1>8, <1>b DEF ControlWrite, Goes, MsiXTypeOK, Actors, Idle
<1>9. CASE UNCHANGED msixVars
  BY <1>9 DEF msixVars, NoInterruptVanishes, InFlight
<1> QED
  BY <1>1, <1>2, <1>3, <1>4, <1>5, <1>6, <1>7, <1>8, <1>9 DEF MsiXNext, Deliver

-----------------------------------------------------------------------------
\* No step leaves a vector pending and unmasked for a reason that is not named.
LEMMA DeliveryStep == MsiXTypeOK /\ ReadInv /\ DeliveryInv /\ [MsiXNext]_msixVars => DeliveryInv'
<1> DEFINE Told(v) == IsMasked(v) \/ v \in late \cup clobbered \cup stranded \/ Checking(v)
<1> SUFFICES ASSUME MsiXTypeOK, ReadInv, DeliveryInv, [MsiXNext]_msixVars, NEW v \in Pending'
             PROVE  Told(v)'
  BY DEF DeliveryInv
<1>0. v \in Vecs /\ v \div ByteBits \in Nat /\ MsiXTypeOK'
  BY MsiXTypeStep, ByteNumber DEF MsiXTypeOK
<1> USE DEF table, ghosts
<1>m. ASSUME masked' = masked
      PROVE  IsMasked(v)' = IsMasked(v)
  BY <1>m DEF IsMasked
<1>a. ASSUME NEW a \in Actors, \A b \in Actors \ {a} : at'[b] = at[b], masked' = masked,
             v \in Pending, v # at[a].vec \/ at[a].pc \in {"idle", "signal"},
             late \ {at[a].vec} \subseteq late', clobbered \subseteq clobbered',
             stranded \ {at[a].vec} \subseteq stranded',
             v = at[a].vec => late \subseteq late' /\ stranded \subseteq stranded'
      PROVE  Told(v)'
  BY <1>a, <1>m DEF DeliveryInv, Checking
<1>1. ASSUME NEW w \in Workers, NEW u \in 0 .. Vectors, Interrupt(w, u) PROVE Told(v)'
  <2>1. w \in Actors
    BY DEF Actors
  <2>2. \A b \in Actors \ {w} : at'[b] = at[b]
    BY <1>1 DEF Interrupt, Goes, MsiXTypeOK
  <2> QED
    BY <1>1, <2>1, <2>2, <1>a DEF Interrupt, Idle
<1>2. ASSUME NEW a \in Actors, SendInterrupt(a) \/ Get8(a) PROVE Told(v)'
  <2>1. at'[a].vec = at[a].vec /\ at'[a].pc \in {"setGet", "clearGet", "setSet", "clearSet"}
    BY <1>2 DEF SendInterrupt, Get8, Goes, MsiXTypeOK
  <2>2. \A b \in Actors \ {a} : at'[b] = at[b]
    BY <1>2 DEF SendInterrupt, Get8, Goes, MsiXTypeOK
  <2>3. v = at[a].vec => Told(v)'
    BY <2>1 DEF Checking
  <2> QED
    BY <1>2, <2>2, <2>3, <1>a DEF SendInterrupt, Get8
\* The vector is masked or late; other bits that the write sets are clobbered.
<1>3. ASSUME NEW a \in Actors, SetPending(a) PROVE Told(v)'
  <2>1. \A b \in Actors \ {a} : at'[b] = at[b]
    BY <1>3, ReturnType DEF SetPending
  <2>2. v = at[a].vec => Told(v)'
    BY <1>3, <1>m DEF SetPending
  <2>3. v \in Pending \/ v \in clobbered' \/ v = at[a].vec
    BY <1>3 DEF SetPending, PendingWith, Stale, ReadInv
  <2> QED
    BY <1>3, <2>1, <2>2, <2>3, <1>a DEF SetPending
<1>4. ASSUME NEW a \in Actors, ClearPending(a) PROVE Told(v)'
  <2>1. \A b \in Actors \ {a} : at'[b] = at[b]
    BY <1>4 DEF ClearPending, Goes, MsiXTypeOK
  <2>2. v # at[a].vec
    BY <1>4 DEF ClearPending, PendingWithout, Byte, MsiXTypeOK
  <2>3. v \in Pending \/ v \in clobbered'
    BY <1>4, <2>2 DEF ClearPending, PendingWithout, Stale, ReadInv
  <2> QED
    BY <1>4, <2>1, <2>2, <2>3, <1>a DEF ClearPending
<1>5. ASSUME NEW a \in Actors, SignalMSI(a) PROVE Told(v)'
  BY <1>5, <1>a, ReturnType DEF SignalMSI
<1>6. ASSUME NEW a \in Actors, CheckPending(a) PROVE Told(v)'
  <2>1. \A b \in Actors \ {a} : at'[b] = at[b]
    BY <1>6, ReturnType DEF CheckPending, Goes, MsiXTypeOK
  <2>2. v = at[a].vec => at'[a].vec = v /\ at'[a].pc = "isMasked"
    BY <1>6 DEF CheckPending, Goes, MsiXTypeOK
  <2> QED
    BY <1>6, <2>1, <2>2, <1>a DEF CheckPending, Checking
<1>7. ASSUME NEW a \in Actors, CheckMasked(a) PROVE Told(v)'
  <2>1. \A b \in Actors \ {a} : at'[b] = at[b]
    BY <1>7, ReturnType DEF CheckMasked, Goes, MsiXTypeOK
  <2>2. v = at[a].vec /\ ~IsMasked(v) => at'[a].vec = v /\ at'[a].pc = "send"
    BY <1>7 DEF CheckMasked, Goes, MsiXTypeOK
  <2>3. v = at[a].vec => Told(v)'
    BY <1>7, <2>2, <1>m DEF CheckMasked, Checking
  <2> QED
    BY <1>7, <2>1, <2>3, <1>a DEF CheckMasked
\* A write that takes the mask of the vector back checks it or strands it.
<1>8. ASSUME NEW u \in Vecs, NEW control \in BOOLEAN, EntryWrite(u, control) PROVE Told(v)'
  <2>1. \A b \in Actors \ {Table} : at'[b] = at[b]
    BY <1>8 DEF EntryWrite, Goes, MsiXTypeOK
  <2>2. at'[Table].vec = u /\ at'[Table].pc = "isPending" /\ at[Table].pc = "idle" /\ Table \in Actors
    BY <1>8 DEF EntryWrite, Goes, MsiXTypeOK, Actors, Idle
  <2>3. v = u => Told(v)'
    BY <2>2 DEF Checking
  <2>4. Checking(v) => Checking(v)'
    BY <2>1, <2>2 DEF Checking
  <2>5. v \in late \cup clobbered \cup stranded => v \in (late \cup clobbered \cup stranded)'
    BY <1>8 DEF EntryWrite, Strands
  <2>6. IsMasked(v) /\ v # u => IsMasked(v)' \/ v \in stranded'
    <3>1. CASE v \div ByteBits = u
      BY <1>8, <1>0, <3>1 DEF EntryWrite, Strands, IsMasked, MsiXTypeOK
    <3>2. CASE v \div ByteBits # u
      BY <1>8, <1>0, <3>2, VectorsAssumption DEF EntryWrite, IsMasked, MsiXTypeOK, Vecs
    <3> QED
      BY <3>1, <3>2
  <2> QED
    BY <1>8, <2>3, <2>4, <2>5, <2>6 DEF EntryWrite, DeliveryInv
<1>9. ASSUME NEW enable \in BOOLEAN, ControlWrite(enable) PROVE Told(v)'
  <2>1. (\A b \in Actors \ {Conf} : at'[b] = at[b]) /\ Conf \in Actors
    BY <1>9 DEF ControlWrite, Goes, MsiXTypeOK, Actors
  <2> QED
    BY <1>9, <2>1, <1>a DEF ControlWrite, Idle
<1>10. CASE UNCHANGED msixVars
  BY <1>10, <1>m DEF msixVars, DeliveryInv, Checking
<1> QED
  BY <1>1, <1>2, <1>3, <1>4, <1>5, <1>6, <1>7, <1>8, <1>9, <1>10 DEF MsiXNext, Deliver

-----------------------------------------------------------------------------
\* The invariant holds in every reachable state.
THEOREM MsiXInvariance == MsiXSpec => []MsiXInv
<1>1. MsiXInit => MsiXInv
  <2> SUFFICES ASSUME MsiXInit PROVE MsiXInv
    OBVIOUS
  <2>1. MsiXTypeOK
    BY ZeroIsVector DEF MsiXInit, MsiXTypeOK, Idle, PCs
  <2>2. ReadInv /\ NoInterruptVanishes /\ DeliveryInv
    BY DEF MsiXInit, ReadInv, NoInterruptVanishes, DeliveryInv, Idle
  <2> QED
    BY <2>1, <2>2 DEF MsiXInv
<1>2. MsiXInv /\ [MsiXNext]_msixVars => MsiXInv'
  BY MsiXTypeStep, ReadStep, VanishStep, DeliveryStep DEF MsiXInv
<1> QED
  BY <1>1, <1>2, PTL DEF MsiXSpec

\* Of the interrupts raised none vanishes between the goroutines of the
\* channels and the handlers of the table and of the control register, but for
\* those whose byte of pending bits was written back by another.
THEOREM InterruptsKept == MsiXSpec => []NoInterruptVanishes
<1>1. MsiXInv => NoInterruptVanishes
  BY DEF MsiXInv
<1> QED
  BY <1>1, MsiXInvariance, PTL

\* What is left pending and unmasked when nothing is under way is left for one
\* of the three reasons the code has.
THEOREM PendingDelivered == MsiXSpec => []PendingIsDelivered
<1>1. MsiXInv => PendingIsDelivered
  BY DEF MsiXInv, DeliveryInv, PendingIsDelivered, Checking, Idle
<1> QED
  BY <1>1, MsiXInvariance, PTL

=============================================================================
