-------------------------- MODULE SaveRestoreProofs --------------------------
(***************************************************************************)
(* Proofs that a save is one cut of the machine and that a restart brings  *)
(* it back, for any numbers of vcpus, devices and calls of the control     *)
(* server, and any states KVM may hold.                                    *)
(***************************************************************************)
EXTENDS SaveRestore, FiniteSetTheorems, TLAPS

-----------------------------------------------------------------------------
(* The inductive invariant.                                                *)

IsCpu(k) == IsVcpu(k, MsrList, Len(FreshVcpu.xcrs.array))
Info(k)  == NewVcpuInfo(k, MsrList)

\* Where a saver is: with all vcpus paused; within SaveState; and within
\* Reload, but not within SaveState.
HeldPcs  == {"vcpuInfo", "modelPause", "lockWait", "save", "modelUnpause"}
SavePcs  == {"vmPause", "vmWait", "vmUnpause"} \cup HeldPcs
OuterPcs == {"outer", "outerWait", "loadVcpus", "loadModel", "outerUnpause"}
LockPcs  == {"lockWait", "manualWait"}

\* What a saver can be doing.
IsJob(s, j) ==
  /\ j = [op |-> j.op, pc |-> j.pc, i |-> j.i, info |-> j.info, err |-> j.err]
  /\ j.i \in Nat /\ j.err \in {"nil", "error"}
  /\ \/ j.pc = "idle" /\ j.op \in {"none", "ended"}
     \/ j.pc = "manualWait" /\ j.op = "device" /\ s \in Rpcs
     \/ j.pc \in SavePcs /\ (IF s = Main THEN j.op = "restart" ELSE j.op \in {"state", "reload"})
     \/ j.pc \in OuterPcs /\ j.op = "reload" /\ s \in Rpcs
     \/ j.pc \in {"encode", "exec"} /\ j.op = "restart" /\ s = Main /\ j.err = "nil"
  /\ j.pc \in {"loadVcpus", "loadModel"} => j.err = "nil"
  /\ j.pc \in {"outer", "outerWait", "vmPause", "vmWait", "vmUnpause", "outerUnpause", "loadVcpus"} =>
       j.i \in Vcpus
  /\ j.pc \in {"modelPause", "save", "modelUnpause", "loadModel", "encode"} \cup LockPcs => j.i \in DOMAIN DevSeq

JobsInv == job = [s \in Savers |-> job[s]] /\ \A s \in Savers : IsJob(s, job[s])

\* A saver's pause of a vcpu, by SaveState and by Reload around it, is counted;
\* and its Pause has returned.
VmHeld(j, v) ==
  \/ j.pc = "vmPause" /\ v < j.i
  \/ j.pc = "vmWait" /\ v <= j.i
  \/ j.pc \in HeldPcs
  \/ j.pc = "vmUnpause" /\ v >= j.i
OuterHeld(j, v) ==
  /\ j.op = "reload"
  /\ \/ j.pc = "outer" /\ v < j.i
     \/ j.pc = "outerWait" /\ v <= j.i
     \/ j.pc \in SavePcs \cup {"loadVcpus", "loadModel"}
     \/ j.pc = "outerUnpause" /\ v >= j.i
Granted(j, v) ==
  \/ VmHeld(j, v) /\ ~(j.pc = "vmWait" /\ v = j.i)
  \/ OuterHeld(j, v) /\ ~(j.pc = "outerWait" /\ v = j.i)

\* The same of the device at a place in model.devices.
DevHeld(j, n) ==
  \/ j.pc = "modelPause" /\ n < j.i
  \/ j.pc = "lockWait" /\ n <= j.i
  \/ j.pc = "save"
  \/ j.pc = "modelUnpause" /\ n >= j.i
DevGranted(j, n) == DevHeld(j, n) /\ ~(j.pc = "lockWait" /\ n = j.i)

VmHolds(v)    == {s \in Savers : VmHeld(job[s], v)}
OuterHolds(v) == {s \in Savers : OuterHeld(job[s], v)}
DevHolds(n)   == {s \in Savers : DevHeld(job[s], n)}

\* The counts cover the holders; they are more after a pause that failed or
\* was counted twice.
VcpuCountInv ==
  /\ vpaused \in [Vcpus -> Nat]
  /\ \A v \in Vcpus : Cardinality(VmHolds(v)) + Cardinality(OuterHolds(v)) <= vpaused[v]
DevCountInv == \A n \in DOMAIN DevSeq : Cardinality(DevHolds(n)) <= gate[DevSeq[n]].paused

\* A vcpu that is paused for somebody is parked.
ParkedInv == \A s \in Savers, v \in Vcpus : Granted(job[s], v) => vcpu[v] = "parked"

\* A vcpu waits for the handler that serves it.
ServeInv ==
  /\ vcpu \in [Vcpus -> Devs \cup {"run", "parked", "dead"}]
  /\ busy \in [Devs -> Vcpus \cup {Main, Nobody}]
  /\ \A d \in Devs : busy[d] \in Vcpus => vcpu[busy[d]] = d
  /\ \A d \in KernelDevs : busy[d] = Nobody

\* run_lock follows the pauses of a device, and excludes its handlers.
GateInv ==
  /\ gate \in [Devs -> [paused : Nat, manual : BOOLEAN, lock : {"free", "waiting", "locked"},
                        mutex : Savers \cup {Nobody}]]
  /\ \A d \in Devs :
       /\ gate[d].lock = IF gate[d].mutex # Nobody THEN "waiting"
                         ELSE IF gate[d].paused > 0 \/ gate[d].manual THEN "locked" ELSE "free"
       /\ gate[d].mutex # Nobody => gate[d].paused > 0 \/ gate[d].manual
       /\ gate[d].lock = "locked" => busy[d] = Nobody
WaitInv == \A s \in Savers : job[s].pc \in LockPcs => gate[DevSeq[job[s].i]].mutex = s
LockedInv ==
  \A s \in Savers, n \in DOMAIN DevSeq : DevGranted(job[s], n) => gate[DevSeq[n]].lock = "locked"

\* What KVM and the objects of its devices hold makes sense.
IsObject(d, o) ==
  LET k == SetKernel(d, FreshKernel[d], o) IN IsKernel(d, k) /\ o = GetKernel(d, k)
StoreInv ==
  /\ cpu = [v \in Vcpus |-> cpu[v]] /\ \A v \in Vcpus : IsCpu(cpu[v]) /\ cpu[v].lapic \in Lapics
  /\ kernel = [d \in KernelDevs |-> kernel[d]] /\ \A d \in KernelDevs : IsKernel(d, kernel[d])
  /\ obj = [d \in Devs |-> obj[d]] /\ \A d \in KernelDevs : IsObject(d, obj[d])

\* What has been read of the vcpus is what they hold, until they are unpaused,
\* but for the LAPICs that have changed.
HasInfo(j) ==
  /\ j.err = "nil"
  /\ \/ j.pc \in HeldPcs \ {"vcpuInfo"}
     \/ j.pc \in {"vmUnpause", "loadVcpus"} /\ j.op = "reload"
InfoInv ==
  /\ late = [s \in Savers |-> late[s]]
  /\ \A s \in Savers, v \in Vcpus :
       HasInfo(job[s]) => ReadFrom(job[s].info[v], cpu[v], v \in late[s])

\* What has been saved of the kernel's devices is what they hold, until the
\* devices are unpaused, but for those that went on.
HasSaved(j, n) ==
  j.err = "nil" /\ ((j.pc = "save" /\ n < j.i) \/ (j.pc = "modelUnpause" /\ j.i = 1))
AsSaved(d) == obj[d] = GetKernel(d, kernel[d])
SavedInv ==
  /\ ticked = [s \in Savers |-> ticked[s]]
  /\ \A s \in Savers, n \in DOMAIN DevSeq :
       HasSaved(job[s], n) /\ DevSeq[n] \in KernelDevs \ ticked[s] => AsSaved(DevSeq[n])

\* From when main has saved the machine until it replaces itself it has the
\* cut, which is of one piece: the vcpus in its hands, the devices in the
\* objects that have not gone on.
HasCut(j) == j.err = "nil" /\ j.pc \in {"modelUnpause", "vmUnpause", "encode", "exec"}
IsCut ==
  /\ cut.taken
  /\ \A v \in Vcpus : IsCpu(cut.cpu[v])
  /\ \A d \in KernelDevs : IsKernel(d, cut.kernel[d])
  /\ \A d \in KernelDevs \ cut.ticked : cut.obj[d] = GetKernel(d, cut.kernel[d])
  /\ \A v \in Vcpus : ReadFrom(job[Main].info[v], cut.cpu[v], v \in cut.late)
  /\ \A d \in Devs \ moved : obj[d] = cut.obj[d]
CutInv == cut.taken \in BOOLEAN /\ (HasCut(job[Main]) => IsCut)

\* The file holds the objects up to where main has come.
Encoded(j) ==
  IF j.pc = "encode" THEN j.i - 1 ELSE IF j.pc = "exec" THEN Len(DevSeq) ELSE 0
FileInv ==
  /\ file = [n \in 1 .. Len(file) |-> file[n]]
  /\ Len(file) = Encoded(job[Main])
  /\ \A n \in DOMAIN file : DevSeq[n] \notin moved => file[n] = cut.obj[DevSeq[n]]

\* The process that runs.
RunInv ==
  /\ phase = "running"
  /\ JobsInv /\ VcpuCountInv /\ ParkedInv /\ ServeInv
  /\ GateInv /\ WaitInv /\ DevCountInv /\ LockedInv
  /\ StoreInv /\ InfoInv /\ SavedInv /\ CutInv /\ FileInv

\* A vcpu is that of the cut, with the LAPIC that was read.
Restored(v) ==
  \E l \in Lapics : /\ SameVcpu(cpu[v], WithLapic(cut.cpu[v], l))
                    /\ v \in cut.late \/ l = cut.cpu[v].lapic

\* The process that takes over: nothing but main moves in it.
NewInv ==
  /\ phase \in {"vcpus", "load", "restored"}
  /\ vcpu = [v \in Vcpus |-> "parked"]
  /\ busy = [d \in Devs |-> Nobody]
  /\ \A s \in Savers : job[s].pc = "done"
  /\ IsCut
  /\ \A v \in Vcpus : IF phase = "vcpus" THEN cpu[v] = FreshVcpu ELSE Restored(v)
  /\ \A d \in KernelDevs :
       IF phase = "restored" THEN d \notin moved \cup cut.ticked => kernel[d] = cut.kernel[d]
       ELSE kernel[d] = FreshKernel[d]

IInv == RunInv \/ NewInv

-----------------------------------------------------------------------------
(* What is read and what is written.                                       *)

\* A set of places in a list has a last one.
LEMMA LastOf ==
  ASSUME NEW m \in Nat, NEW at \in SUBSET (1 .. m), at # {}
  PROVE  \E i \in at : \A j \in at : j <= i
<1> DEFINE Rest == {i .. m : i \in at}
<1>1. IsWellFoundedOn(StrictSubsetOrdering(Nat), FiniteSubsetsOf(Nat))
  BY FS_StrictSubsetOrderingWellFounded
<1>2. Rest \subseteq FiniteSubsetsOf(Nat)
  <2>1. ASSUME NEW i \in at PROVE i .. m \in FiniteSubsetsOf(Nat)
    <3>1. IsFiniteSet(i .. m)
      BY FS_Interval
    <3> QED
      BY <3>1 DEF FiniteSubsetsOf
  <2> QED
    BY <2>1
<1>3. Rest # {}
  OBVIOUS
<1> HIDE DEF Rest
<1>4. \E B \in Rest : \A C \in Rest : ~(<<C, B>> \in StrictSubsetOrdering(Nat))
  BY <1>1, <1>2, <1>3, WFMin
<1> USE DEF Rest
<1>5. PICK i \in at : \A j \in at : ~(<<j .. m, i .. m>> \in StrictSubsetOrdering(Nat))
  BY <1>4
<1>6. ASSUME NEW j \in at PROVE j <= i
  <2> SUFFICES ASSUME i < j PROVE FALSE
    OBVIOUS
  <2>1. j .. m \subseteq i .. m /\ i \in i .. m /\ i \notin j .. m
    OBVIOUS
  <2>2. j .. m \in SUBSET Nat /\ i .. m \in SUBSET Nat /\ j .. m # i .. m
    BY <2>1
  <2> QED
    BY <1>5, <2>1, <2>2 DEF StrictSubsetOrdering
<1> QED
  BY <1>6

\* The MSRs that are read from one state, written to another, are there.
LEMMA MsrsCopied ==
  ASSUME NEW k, NEW f, "msrs" \in DOMAIN f, DOMAIN f.msrs = ToSet(MsrList)
  PROVE  SetMsrs(f, GetMsrs(k, MsrList)) =
           [f EXCEPT !.msrs = [x \in ToSet(MsrList) |-> k.msrs[x]]]
<1> DEFINE msrs == GetMsrs(k, MsrList)
           at(x) == {i \in DOMAIN msrs : msrs[i].index = x}
           last(x) == CHOOSE i \in at(x) : \A j \in at(x) : j <= i
<1>1. DOMAIN msrs = 1 .. Len(MsrList) /\ Len(MsrList) \in Nat
  BY StatesAssumption DEF GetMsrs
<1>2. \A i \in DOMAIN msrs : msrs[i].index = MsrList[i] /\ msrs[i].value = k.msrs[MsrList[i]]
  BY DEF GetMsrs
<1>3. ASSUME NEW x \in ToSet(MsrList)
      PROVE  at(x) # {} /\ msrs[last(x)].value = k.msrs[x]
  <2>1. at(x) # {}
    BY <1>1, <1>2, StatesAssumption DEF ToSet
  <2>2. \E i \in at(x) : \A j \in at(x) : j <= i
    <3> HIDE DEF msrs
    <3> QED
    BY <1>1, <2>1, LastOf
  <2>3. last(x) \in at(x)
    BY <2>2
  <2> QED
    BY <2>1, <2>3, <1>2
<1>4. [x \in DOMAIN f.msrs |-> IF at(x) = {} THEN f.msrs[x] ELSE msrs[last(x)].value]
        = [x \in ToSet(MsrList) |-> k.msrs[x]]
  <2> HIDE DEF msrs, at, last
  <2> QED
    BY <1>3
<1> QED
  BY <1>4 DEF SetMsrs

\* A state by its parts.
State(regs, mp, cpuid, lapic, msrs, events, fpu, xcrs, xsave) ==
  [regs |-> regs, mp |-> mp, cpuid |-> cpuid, lapic |-> lapic, msrs |-> msrs, events |-> events,
   fpu |-> fpu, xcrs |-> xcrs, xsave |-> xsave]

\* The events and the xcrs of a state once they have been read and written.
CopiedEvents(k) ==
  LET x == k.events.exception
      i == k.events.interrupt
  IN  [exception |-> IF ~x.injected THEN [injected |-> FALSE, nr |-> 0, has_code |-> FALSE, code |-> 0]
                     ELSE [injected |-> TRUE, nr |-> x.nr, has_code |-> x.has_code,
                           code |-> IF x.has_code THEN x.code ELSE 0],
       interrupt |-> IF ~i.injected
                     THEN [injected |-> FALSE, nr |-> 0, soft |-> FALSE, shadow |-> FALSE]
                     ELSE [injected |-> TRUE, nr |-> i.nr, soft |-> i.soft, shadow |-> i.shadow],
       nmi |-> k.events.nmi, sipi |-> k.events.sipi, flags |-> k.events.flags]

Slots == Len(FreshVcpu.xcrs.array)
CopiedXcrs(k) ==
  [nr |-> k.xcrs.nr, array |-> [n \in 1 .. Slots |-> IF n <= k.xcrs.nr THEN k.xcrs.array[n] ELSE 0]]

\* The parts of a state KVM can hold.
LEMMA PartsOf ==
  ASSUME NEW k, IsCpu(k)
  PROVE  /\ k = State(k.regs, k.mp, k.cpuid, k.lapic, k.msrs, k.events, k.fpu, k.xcrs, k.xsave)
         /\ k.regs = [r \in RegisterNames |-> k.regs[r]]
         /\ k.msrs = [m \in ToSet(MsrList) |-> k.msrs[m]]
         /\ k.fpu = [f \in FpuFields |-> k.fpu[f]]
         /\ k.xcrs = [nr |-> k.xcrs.nr, array |-> k.xcrs.array]
         /\ k.xcrs.array = [n \in 1 .. Slots |-> k.xcrs.array[n]]
         /\ Slots \in Nat /\ k.xcrs.nr \in 0 .. Slots
<1>1. Slots \in Nat /\ k.xcrs.nr \in 0 .. Slots
  BY DEF IsCpu, IsVcpu, Slots
<1>2. k = State(k.regs, k.mp, k.cpuid, k.lapic, k.msrs, k.events, k.fpu, k.xcrs, k.xsave)
  BY DEF IsCpu, IsVcpu, State
<1>3. /\ k.regs = [r \in RegisterNames |-> k.regs[r]]
      /\ k.msrs = [m \in ToSet(MsrList) |-> k.msrs[m]]
      /\ k.fpu = [f \in FpuFields |-> k.fpu[f]]
  BY DEF IsCpu, IsVcpu
<1>4. /\ k.xcrs = [nr |-> k.xcrs.nr, array |-> k.xcrs.array]
      /\ k.xcrs.array = [n \in 1 .. Slots |-> k.xcrs.array[n]]
  <2> DEFINE array == [n \in 1 .. Slots |-> k.xcrs.array[n]]
  <2>1. k.xcrs = [nr |-> k.xcrs.nr, array |-> array]
    BY DEF IsCpu, IsVcpu, Slots
  <2>2. k.xcrs.array = array
    <3> HIDE DEF array
    <3> QED
      BY <2>1
  <2> QED
    BY <2>1, <2>2
<1> QED
  BY <1>1, <1>2, <1>3, <1>4

\* Reading the events of a state and writing them.
LEMMA EventsCopied ==
  ASSUME NEW k, IsCpu(k), NEW f, "events" \in DOMAIN f
  PROVE  SetEvents(f, GetEvents(k)) = [f EXCEPT !.events = CopiedEvents(k)]
<1> DEFINE x == k.events.exception
           i == k.events.interrupt
<1>1. x.injected \in BOOLEAN /\ x.has_code \in BOOLEAN /\ i.injected \in BOOLEAN
  BY DEF IsCpu, IsVcpu
<1>2. /\ x.injected /\ x.has_code => x.code # Nil /\ [number |-> x.nr, code |-> x.code] # Nil
      /\ x.injected /\ ~x.has_code => [number |-> x.nr, code |-> Nil] # Nil
  BY DEF IsCpu, IsVcpu
<1>3. i.injected => [number |-> i.nr, soft |-> i.soft, shadow |-> i.shadow] # Nil
  BY DEF IsCpu, IsVcpu
<1> DEFINE e == GetEvents(k)
<1>4. /\ e.nmi = k.events.nmi /\ e.sipi = k.events.sipi /\ e.flags = k.events.flags
      /\ e.exception = IF ~x.injected THEN Nil
                       ELSE [number |-> x.nr, code |-> IF x.has_code THEN x.code ELSE Nil]
      /\ e.interrupt = IF ~i.injected THEN Nil
                       ELSE [number |-> i.nr, soft |-> i.soft, shadow |-> i.shadow]
  BY DEF GetEvents
<1>5. (IF e.exception = Nil THEN [injected |-> FALSE, nr |-> 0, has_code |-> FALSE, code |-> 0]
       ELSE [injected |-> TRUE, nr |-> e.exception.number, has_code |-> e.exception.code # Nil,
             code |-> IF e.exception.code # Nil THEN e.exception.code ELSE 0])
        = CopiedEvents(k).exception
  <2> HIDE DEF e
  <2>1. CASE ~x.injected
    BY <2>1, <1>4 DEF CopiedEvents
  <2>2. CASE x.injected /\ x.has_code
    <3>1. e.exception = [number |-> x.nr, code |-> x.code] /\ e.exception # Nil
      BY <2>2, <1>4, <1>2
    <3>2. e.exception.number = x.nr /\ e.exception.code = x.code /\ e.exception.code # Nil
      BY <2>2, <3>1, <1>2
    <3>3. (e.exception.code # Nil) = TRUE /\ x.has_code = TRUE
      BY <3>2, <2>2, <1>1
    <3>4. CopiedEvents(k).exception
            = [injected |-> TRUE, nr |-> x.nr, has_code |-> TRUE, code |-> x.code]
      BY <2>2, <3>3 DEF CopiedEvents
    <3> QED
      BY <3>1, <3>2, <3>3, <3>4
  <2>3. CASE x.injected /\ ~x.has_code
    <3>1. e.exception = [number |-> x.nr, code |-> Nil] /\ e.exception # Nil
      BY <2>3, <1>4, <1>2
    <3>2. e.exception.number = x.nr /\ e.exception.code = Nil
      BY <3>1
    <3>3. (e.exception.code # Nil) = FALSE /\ x.has_code = FALSE
      BY <3>2, <2>3, <1>1
    <3>4. CopiedEvents(k).exception = [injected |-> TRUE, nr |-> x.nr, has_code |-> FALSE, code |-> 0]
      BY <2>3, <3>3 DEF CopiedEvents
    <3> QED
      BY <3>1, <3>2, <3>3, <3>4
  <2> QED
    BY <2>1, <2>2, <2>3, <1>1
<1>6. (IF e.interrupt = Nil THEN [injected |-> FALSE, nr |-> 0, soft |-> FALSE, shadow |-> FALSE]
       ELSE [injected |-> TRUE, nr |-> e.interrupt.number, soft |-> e.interrupt.soft,
             shadow |-> e.interrupt.shadow])
        = CopiedEvents(k).interrupt
  <2> HIDE DEF e
  <2>1. CASE ~i.injected
    BY <2>1, <1>4 DEF CopiedEvents
  <2>2. CASE i.injected
    <3>1. e.interrupt = [number |-> i.nr, soft |-> i.soft, shadow |-> i.shadow] /\ e.interrupt # Nil
      BY <2>2, <1>3, <1>4
    <3>2. CopiedEvents(k).interrupt
            = [injected |-> TRUE, nr |-> i.nr, soft |-> i.soft, shadow |-> i.shadow]
      BY <2>2 DEF CopiedEvents
    <3> QED
      BY <3>1, <3>2
  <2> QED
    BY <2>1, <2>2, <1>1
<1> QED
  <2> HIDE DEF e
  <2> SUFFICES SetEvents(f, e) = [f EXCEPT !.events = CopiedEvents(k)]
    BY DEF e
  <2>1. CopiedEvents(k) = [exception |-> CopiedEvents(k).exception,
                           interrupt |-> CopiedEvents(k).interrupt,
                           nmi |-> e.nmi, sipi |-> e.sipi, flags |-> e.flags]
    BY <1>4 DEF CopiedEvents
  <2> QED
    BY <2>1, <1>5, <1>6 DEF SetEvents

\* Reading the xcrs of a state and writing them.
LEMMA XcrsCopied ==
  ASSUME NEW k, IsCpu(k), NEW f, "xcrs" \in DOMAIN f, DOMAIN f.xcrs.array = 1 .. Slots
  PROVE  SetXcrs(f, GetXcrs(k)) = [f EXCEPT !.xcrs = CopiedXcrs(k)]
<1>1. k.xcrs.nr \in 0 .. Slots
  BY PartsOf
<1>2. /\ Len(GetXcrs(k)) = k.xcrs.nr
      /\ \A n \in 1 .. k.xcrs.nr : GetXcrs(k)[n] = k.xcrs.array[n]
  BY <1>1 DEF GetXcrs
<1>3. [n \in DOMAIN f.xcrs.array |-> IF n <= Len(GetXcrs(k)) THEN GetXcrs(k)[n] ELSE 0]
        = [n \in 1 .. Slots |-> IF n <= k.xcrs.nr THEN k.xcrs.array[n] ELSE 0]
  BY <1>1, <1>2
<1> QED
  BY <1>2, <1>3 DEF SetXcrs, CopiedXcrs

\* What Load makes of a state: the parts that were reached are those read.
LEMMA LoadIs ==
  ASSUME NEW k, IsCpu(k), NEW f, IsCpu(f), NEW n \in 1 .. Parts
  PROVE  LoadParts(f, Info(k), n) =
           State(k.regs, IF n > 1 THEN k.mp ELSE f.mp, IF n > 2 THEN k.cpuid ELSE f.cpuid,
                 IF n > 3 THEN k.lapic ELSE f.lapic, IF n > 4 THEN k.msrs ELSE f.msrs,
                 IF n > 5 THEN CopiedEvents(k) ELSE f.events, IF n > 6 THEN k.fpu ELSE f.fpu,
                 IF n > 7 THEN CopiedXcrs(k) ELSE f.xcrs, IF n > 8 THEN k.xsave ELSE f.xsave)
<1> DEFINE i == Info(k)
           mp == IF n > 1 THEN k.mp ELSE f.mp
           cpuid == IF n > 2 THEN k.cpuid ELSE f.cpuid
           lapic == IF n > 3 THEN k.lapic ELSE f.lapic
           msrs == IF n > 4 THEN k.msrs ELSE f.msrs
           events == IF n > 5 THEN CopiedEvents(k) ELSE f.events
           fpu == IF n > 6 THEN k.fpu ELSE f.fpu
           xcrs == IF n > 7 THEN CopiedXcrs(k) ELSE f.xcrs
           xsave == IF n > 8 THEN k.xsave ELSE f.xsave
           s1 == State(k.regs, f.mp, f.cpuid, f.lapic, f.msrs, f.events, f.fpu, f.xcrs, f.xsave)
           s2 == State(k.regs, mp, f.cpuid, f.lapic, f.msrs, f.events, f.fpu, f.xcrs, f.xsave)
           s3 == State(k.regs, mp, cpuid, f.lapic, f.msrs, f.events, f.fpu, f.xcrs, f.xsave)
           s4 == State(k.regs, mp, cpuid, lapic, f.msrs, f.events, f.fpu, f.xcrs, f.xsave)
           s5 == State(k.regs, mp, cpuid, lapic, msrs, f.events, f.fpu, f.xcrs, f.xsave)
           s6 == State(k.regs, mp, cpuid, lapic, msrs, events, f.fpu, f.xcrs, f.xsave)
           s7 == State(k.regs, mp, cpuid, lapic, msrs, events, fpu, f.xcrs, f.xsave)
           s8 == State(k.regs, mp, cpuid, lapic, msrs, events, fpu, xcrs, f.xsave)
           s9 == State(k.regs, mp, cpuid, lapic, msrs, events, fpu, xcrs, xsave)
<1>i. /\ i.registers = GetRegisters(k) /\ i.mp = k.mp /\ i.cpuid = k.cpuid
      /\ i.lapic = [data |-> k.lapic] /\ i.msrs = GetMsrs(k, MsrList) /\ i.events = GetEvents(k)
      /\ i.fpu = GetFpuState(k) /\ i.xcrs = GetXcrs(k) /\ i.xsave = k.xsave
  BY DEF Info, NewVcpuInfo, GetMpState, GetCpuid, GetLApic, GetXSave
<1>k. /\ \A r \in RegisterNames : k.regs[r] # Nil
      /\ k.mp # Nil /\ k.cpuid # Nil /\ k.lapic # Nil /\ i.msrs # Nil
      /\ i.fpu # Nil /\ i.xcrs # Nil /\ k.xsave # Nil
  BY <1>i DEF IsCpu, IsVcpu
<1>f. /\ f = State(f.regs, f.mp, f.cpuid, f.lapic, f.msrs, f.events, f.fpu, f.xcrs, f.xsave)
      /\ k.regs = [r \in RegisterNames |-> k.regs[r]]
      /\ k.msrs = [m \in ToSet(MsrList) |-> k.msrs[m]]
      /\ k.fpu = [x \in FpuFields |-> k.fpu[x]]
      /\ f.msrs = [m \in ToSet(MsrList) |-> f.msrs[m]]
      /\ f.xcrs.array = [m \in 1 .. Slots |-> f.xcrs.array[m]]
  BY PartsOf
<1>n. n \in Nat
  BY DEF Parts
<1> HIDE DEF i, mp, cpuid, lapic, msrs, events, fpu, xcrs, xsave
<1>1. SetRegisters(f, i.registers) = s1
  <2>1. [r \in RegisterNames |-> IF i.registers[r] = Nil THEN f.regs[r] ELSE i.registers[r]] = k.regs
    BY <1>i, <1>k, <1>f DEF GetRegisters
  <2> QED
    BY <2>1, <1>f DEF SetRegisters, State
<1>2. (IF n > 1 /\ i.mp # Nil THEN SetMpState(s1, i.mp) ELSE s1) = s2
  BY <1>i, <1>k DEF SetMpState, State, mp
<1>3. (IF n > 2 /\ i.cpuid # Nil THEN SetCpuid(s2, i.cpuid) ELSE s2) = s3
  BY <1>i, <1>k DEF SetCpuid, State, cpuid
<1>4. (IF n > 3 THEN SetLApic(s3, i.lapic) ELSE s3) = s4
  BY <1>i, <1>k DEF SetLApic, State, lapic
<1>5. (IF n > 4 /\ i.msrs # Nil THEN SetMsrs(s4, i.msrs) ELSE s4) = s5
  <2>1. "msrs" \in DOMAIN s4 /\ DOMAIN s4.msrs = ToSet(MsrList)
    BY <1>f DEF State
  <2>2. SetMsrs(s4, i.msrs) = [s4 EXCEPT !.msrs = [x \in ToSet(MsrList) |-> k.msrs[x]]]
    <3> HIDE DEF s4
    <3> QED
      BY <2>1, <1>i, MsrsCopied
  <2> QED
    BY <2>2, <1>f, <1>k DEF State, msrs
<1>6. (IF n > 5 THEN SetEvents(s5, i.events) ELSE s5) = s6
  <2>1. "events" \in DOMAIN s5
    BY DEF State
  <2>2. SetEvents(s5, i.events) = [s5 EXCEPT !.events = CopiedEvents(k)]
    <3> HIDE DEF s5
    <3> QED
      BY <2>1, <1>i, EventsCopied
  <2> QED
    BY <2>2 DEF State, events
<1>7. (IF n > 6 /\ i.fpu # Nil THEN SetFpuState(s6, i.fpu) ELSE s6) = s7
  <2>1. [x \in FpuFields |-> i.fpu[x]] = k.fpu
    BY <1>i, <1>f DEF GetFpuState
  <2> QED
    BY <2>1, <1>k DEF SetFpuState, State, fpu
<1>8. (IF n > 7 /\ i.xcrs # Nil THEN SetXcrs(s7, i.xcrs) ELSE s7) = s8
  <2>1. "xcrs" \in DOMAIN s7 /\ DOMAIN s7.xcrs.array = 1 .. Slots
    BY <1>f DEF State
  <2>2. SetXcrs(s7, i.xcrs) = [s7 EXCEPT !.xcrs = CopiedXcrs(k)]
    <3> HIDE DEF s7
    <3> QED
      BY <2>1, <1>i, XcrsCopied
  <2> QED
    BY <2>2, <1>k DEF State, xcrs
<1>9. (IF n > 8 /\ i.xsave # Nil THEN SetXSave(s8, i.xsave) ELSE s8) = s9
  BY <1>i, <1>k DEF SetXSave, State, xsave
<1>10. LoadParts(f, i, n) = s9
  <2> HIDE DEF s1, s2, s3, s4, s5, s6, s7, s8, s9
  <2> QED
    BY <1>1, <1>2, <1>3, <1>4, <1>5, <1>6, <1>7, <1>8, <1>9, Zenon DEF LoadParts
<1> QED
  BY <1>10 DEF i, mp, cpuid, lapic, msrs, events, fpu, xcrs, xsave

\* A copy of the events has those that are being injected.
LEMMA EventsOfCopy ==
  ASSUME NEW k, IsCpu(k), NEW e, e = CopiedEvents(k), NEW y, y = k.events.exception,
         NEW i, i = k.events.interrupt
  PROVE  /\ y.injected \in BOOLEAN /\ y.has_code \in BOOLEAN /\ i.injected \in BOOLEAN
         /\ e.exception.injected = y.injected /\ e.interrupt.injected = i.injected
         /\ y.injected => /\ e.exception.nr = y.nr /\ e.exception.has_code = y.has_code
                          /\ y.has_code => e.exception.code = y.code
         /\ i.injected => /\ e.interrupt.nr = i.nr /\ e.interrupt.soft = i.soft
                          /\ e.interrupt.shadow = i.shadow
         /\ e.nmi = k.events.nmi /\ e.sipi = k.events.sipi /\ e.flags = k.events.flags
<1>1. y.injected \in BOOLEAN /\ y.has_code \in BOOLEAN /\ i.injected \in BOOLEAN
  BY DEF IsCpu, IsVcpu
<1>2. e.exception.injected = y.injected /\ e.interrupt.injected = i.injected
  BY <1>1 DEF CopiedEvents
<1>3. y.injected => /\ e.exception.nr = y.nr /\ e.exception.has_code = y.has_code
                    /\ y.has_code => e.exception.code = y.code
  BY <1>1 DEF CopiedEvents
<1>4. i.injected => /\ e.interrupt.nr = i.nr /\ e.interrupt.soft = i.soft
                    /\ e.interrupt.shadow = i.shadow
  BY <1>1 DEF CopiedEvents
<1>5. e.nmi = k.events.nmi /\ e.sipi = k.events.sipi /\ e.flags = k.events.flags
  BY DEF CopiedEvents
<1> QED
  BY <1>1, <1>2, <1>3, <1>4, <1>5

\* What is read does not tell a state from its copy.
LEMMA CopyReads ==
  ASSUME NEW k, IsCpu(k), NEW e \in {k.events, CopiedEvents(k)}, NEW x \in {k.xcrs, CopiedXcrs(k)},
         NEW c, c = State(k.regs, k.mp, k.cpuid, k.lapic, k.msrs, e, k.fpu, x, k.xsave)
  PROVE  IsCpu(c) /\ Info(c) = Info(k)
<1>k. /\ k.xcrs = [nr |-> k.xcrs.nr, array |-> k.xcrs.array]
      /\ k.xcrs.array = [n \in 1 .. Slots |-> k.xcrs.array[n]]
      /\ Slots \in Nat /\ k.xcrs.nr \in 0 .. Slots
      /\ k.regs = [r \in RegisterNames |-> k.regs[r]]
      /\ k.msrs = [m \in ToSet(MsrList) |-> k.msrs[m]]
      /\ k.fpu = [f \in FpuFields |-> k.fpu[f]]
  BY PartsOf
<1>c. /\ c.regs = k.regs /\ c.mp = k.mp /\ c.cpuid = k.cpuid /\ c.lapic = k.lapic
      /\ c.msrs = k.msrs /\ c.events = e /\ c.fpu = k.fpu /\ c.xcrs = x /\ c.xsave = k.xsave
  BY DEF State
<1>1. GetEvents(c) = GetEvents(k)
  <2>1. CASE e = k.events
    BY <2>1, <1>c DEF GetEvents
  <2>2. CASE e = CopiedEvents(k)
    BY <2>2, <1>c, EventsOfCopy DEF GetEvents
  <2> QED
    BY <2>1, <2>2
<1>5. /\ x = [nr |-> k.xcrs.nr, array |-> x.array]
      /\ x.array = [n \in 1 .. Slots |-> x.array[n]]
      /\ \A n \in 1 .. k.xcrs.nr : x.array[n] = k.xcrs.array[n]
  <2>1. CASE x = k.xcrs
    BY <2>1, <1>k
  <2>2. CASE x = CopiedXcrs(k)
    BY <2>2, <1>k DEF CopiedXcrs
  <2> QED
    BY <2>1, <2>2
<1>2. GetXcrs(c) = GetXcrs(k)
  <2>1. c.xcrs.nr = k.xcrs.nr /\ c.xcrs.array = x.array
    BY <1>c, <1>5
  <2> QED
    BY <2>1, <1>5 DEF GetXcrs
<1>3. /\ GetRegisters(c) = GetRegisters(k) /\ GetMsrs(c, MsrList) = GetMsrs(k, MsrList)
      /\ GetFpuState(c) = GetFpuState(k) /\ GetLApic(c) = GetLApic(k)
  BY <1>c DEF GetRegisters, GetMsrs, GetFpuState, GetLApic
<1>4. Info(c) = Info(k)
  BY <1>1, <1>2, <1>3, <1>c DEF Info, NewVcpuInfo, GetMpState, GetCpuid, GetXSave
<1>6. /\ e = [exception |-> e.exception, interrupt |-> e.interrupt, nmi |-> e.nmi,
              sipi |-> e.sipi, flags |-> e.flags]
      /\ e.exception = [injected |-> e.exception.injected, nr |-> e.exception.nr,
                        has_code |-> e.exception.has_code, code |-> e.exception.code]
      /\ e.interrupt = [injected |-> e.interrupt.injected, nr |-> e.interrupt.nr,
                        soft |-> e.interrupt.soft, shadow |-> e.interrupt.shadow]
      /\ {e.exception.injected, e.exception.has_code, e.interrupt.injected} \subseteq BOOLEAN
      /\ e.exception.injected =>
           /\ e.exception.has_code => e.exception.code # Nil
           /\ [number |-> e.exception.nr, code |-> IF e.exception.has_code THEN e.exception.code ELSE Nil] # Nil
      /\ e.interrupt.injected =>
           [number |-> e.interrupt.nr, soft |-> e.interrupt.soft, shadow |-> e.interrupt.shadow] # Nil
  <2>1. CASE e = k.events
    BY <2>1 DEF IsCpu, IsVcpu
  <2>2. CASE e = CopiedEvents(k)
    <3> DEFINE y == k.events.exception
               i == k.events.interrupt
    <3>1. y.injected \in BOOLEAN /\ y.has_code \in BOOLEAN /\ i.injected \in BOOLEAN
      BY DEF IsCpu, IsVcpu
    <3>2. /\ y.injected /\ y.has_code => y.code # Nil /\ [number |-> y.nr, code |-> y.code] # Nil
          /\ y.injected /\ ~y.has_code => [number |-> y.nr, code |-> Nil] # Nil
          /\ i.injected => [number |-> i.nr, soft |-> i.soft, shadow |-> i.shadow] # Nil
      BY DEF IsCpu, IsVcpu
    <3>3. e.exception = IF ~y.injected
                        THEN [injected |-> FALSE, nr |-> 0, has_code |-> FALSE, code |-> 0]
                        ELSE [injected |-> TRUE, nr |-> y.nr, has_code |-> y.has_code,
                              code |-> IF y.has_code THEN y.code ELSE 0]
      BY <2>2 DEF CopiedEvents
    <3>4. e.interrupt = IF ~i.injected
                        THEN [injected |-> FALSE, nr |-> 0, soft |-> FALSE, shadow |-> FALSE]
                        ELSE [injected |-> TRUE, nr |-> i.nr, soft |-> i.soft, shadow |-> i.shadow]
      BY <2>2 DEF CopiedEvents
    <3>5. e = [exception |-> e.exception, interrupt |-> e.interrupt, nmi |-> e.nmi,
               sipi |-> e.sipi, flags |-> e.flags]
      BY <2>2 DEF CopiedEvents
    <3> HIDE DEF y, i
    <3>6. /\ e.exception = [injected |-> e.exception.injected, nr |-> e.exception.nr,
                            has_code |-> e.exception.has_code, code |-> e.exception.code]
          /\ e.exception.injected \in BOOLEAN /\ e.exception.has_code \in BOOLEAN
      <4>1. CASE ~y.injected
        BY <4>1, <3>3
      <4>2. CASE y.injected
        BY <4>2, <3>1, <3>3
      <4> QED
        BY <4>1, <4>2, <3>1
    <3>7. /\ e.interrupt = [injected |-> e.interrupt.injected, nr |-> e.interrupt.nr,
                            soft |-> e.interrupt.soft, shadow |-> e.interrupt.shadow]
          /\ e.interrupt.injected \in BOOLEAN
      <4>1. CASE ~i.injected
        BY <4>1, <3>4
      <4>2. CASE i.injected
        BY <4>2, <3>4
      <4> QED
        BY <4>1, <4>2, <3>1
    <3>8. ASSUME e.exception.injected
          PROVE  /\ e.exception.has_code => e.exception.code # Nil
                 /\ [number |-> e.exception.nr,
                     code |-> IF e.exception.has_code THEN e.exception.code ELSE Nil] # Nil
      <4>1. y.injected
        BY <3>8, <3>3, <3>1
      <4>2. /\ e.exception.has_code = y.has_code /\ e.exception.nr = y.nr
            /\ y.has_code => e.exception.code = y.code
        BY <4>1, <3>3
      <4>3. CASE y.has_code
        BY <4>1, <4>2, <4>3, <3>2
      <4>4. CASE ~y.has_code
        BY <4>1, <4>2, <4>4, <3>2
      <4> QED
        BY <4>3, <4>4, <3>1
    <3>9. ASSUME e.interrupt.injected
          PROVE  [number |-> e.interrupt.nr, soft |-> e.interrupt.soft,
                  shadow |-> e.interrupt.shadow] # Nil
      <4>1. i.injected
        BY <3>9, <3>4, <3>1
      <4> QED
        BY <4>1, <3>2, <3>4
    <3> QED
      BY <3>5, <3>6, <3>7, <3>8, <3>9
  <2> QED
    BY <2>1, <2>2
<1>7. /\ \A r \in RegisterNames : k.regs[r] # Nil
      /\ k.mp # Nil /\ k.cpuid # Nil /\ k.lapic # Nil /\ GetMsrs(k, MsrList) # Nil
      /\ GetFpuState(k) # Nil /\ GetXcrs(k) # Nil /\ k.xsave # Nil
  BY DEF IsCpu, IsVcpu
<1>8. c = [regs |-> [r \in RegisterNames |-> c.regs[r]], mp |-> c.mp, cpuid |-> c.cpuid,
           lapic |-> c.lapic, msrs |-> [m \in ToSet(MsrList) |-> c.msrs[m]], events |-> c.events,
           fpu |-> [f \in FpuFields |-> c.fpu[f]], xcrs |-> c.xcrs, xsave |-> c.xsave]
  BY <1>c, <1>k DEF State
<1>9. /\ c.xcrs = [nr |-> c.xcrs.nr, array |-> [n \in 1 .. Slots |-> c.xcrs.array[n]]]
      /\ Slots \in Nat /\ c.xcrs.nr \in 0 .. Slots
  BY <1>c, <1>5, <1>k
<1>10. IsCpu(c)
  BY <1>2, <1>3, <1>6, <1>7, <1>8, <1>9, <1>c DEF IsCpu, IsVcpu, Slots
<1> QED
  BY <1>4, <1>10

\* A state with another LAPIC.
LEMMA LapicOf ==
  ASSUME NEW k, IsCpu(k), NEW l \in Lapics
  PROVE  /\ IsCpu(WithLapic(k, l))
         /\ WithLapic(k, l) = State(k.regs, k.mp, k.cpuid, l, k.msrs, k.events, k.fpu, k.xcrs, k.xsave)
<1>1. l # Nil
  <2>1. PICK b \in VcpuStates \cup {BootVcpu} : l = b.lapic
    BY DEF Lapics
  <2> QED
    BY <2>1, StatesAssumption DEF IsVcpu
<1>2. WithLapic(k, l) = State(k.regs, k.mp, k.cpuid, l, k.msrs, k.events, k.fpu, k.xcrs, k.xsave)
  <2>1. k = State(k.regs, k.mp, k.cpuid, k.lapic, k.msrs, k.events, k.fpu, k.xcrs, k.xsave)
    BY PartsOf
  <2> QED
    BY <2>1 DEF WithLapic, State
<1> DEFINE w == WithLapic(k, l)
<1>3. /\ w.regs = k.regs /\ w.mp = k.mp /\ w.cpuid = k.cpuid /\ w.lapic = l /\ w.msrs = k.msrs
      /\ w.events = k.events /\ w.fpu = k.fpu /\ w.xcrs = k.xcrs /\ w.xsave = k.xsave
  BY <1>2 DEF State
<1>4. /\ k.regs = [r \in RegisterNames |-> k.regs[r]]
      /\ k.msrs = [m \in ToSet(MsrList) |-> k.msrs[m]]
      /\ k.fpu = [f \in FpuFields |-> k.fpu[f]]
  BY PartsOf
<1>5. w = [regs |-> [r \in RegisterNames |-> w.regs[r]], mp |-> w.mp, cpuid |-> w.cpuid,
           lapic |-> w.lapic, msrs |-> [m \in ToSet(MsrList) |-> w.msrs[m]], events |-> w.events,
           fpu |-> [f \in FpuFields |-> w.fpu[f]], xcrs |-> w.xcrs, xsave |-> w.xsave]
  BY <1>2, <1>3, <1>4 DEF State
<1> HIDE DEF w
<1>6. GetMsrs(w, MsrList) = GetMsrs(k, MsrList) /\ GetFpuState(w) = GetFpuState(k) /\ GetXcrs(w) = GetXcrs(k)
  BY <1>3 DEF GetMsrs, GetFpuState, GetXcrs
<1>7. IsCpu(w)
  BY <1>1, <1>3, <1>5, <1>6 DEF IsCpu, IsVcpu
<1> QED
  BY <1>2, <1>7 DEF w

\* Putting a LAPIC in place of another.
LEMMA LapicAgain ==
  ASSUME NEW k, IsCpu(k), NEW l \in Lapics
  PROVE  /\ WithLapic(k, l).lapic = l
         /\ \A m \in Lapics : WithLapic(WithLapic(k, l), m) = WithLapic(k, m)
         /\ k.lapic = l => WithLapic(k, l) = k
<1>1. k = State(k.regs, k.mp, k.cpuid, k.lapic, k.msrs, k.events, k.fpu, k.xcrs, k.xsave)
  BY PartsOf
<1> QED
  BY <1>1 DEF WithLapic, State

\* Loading a vcpu with what was read from it changes nothing that can be read,
\* but perhaps the LAPIC to what that was.
LEMMA LoadOwn ==
  ASSUME NEW k, IsCpu(k), k.lapic \in Lapics, NEW l \in Lapics, NEW n \in 1 .. Parts,
         NEW f, f = LoadParts(k, Info(WithLapic(k, l)), n)
  PROVE  /\ IsCpu(f) /\ f.lapic \in Lapics
         /\ \A m \in Lapics : Info(WithLapic(f, m)) = Info(WithLapic(k, m))
<1> DEFINE w == WithLapic(k, l)
           e == IF n > 5 THEN CopiedEvents(k) ELSE k.events
           x == IF n > 7 THEN CopiedXcrs(k) ELSE k.xcrs
           lap == IF n > 3 THEN l ELSE k.lapic
<1>w. IsCpu(w) /\ w = State(k.regs, k.mp, k.cpuid, l, k.msrs, k.events, k.fpu, k.xcrs, k.xsave)
  BY LapicOf
<1>0. /\ w.regs = k.regs /\ w.mp = k.mp /\ w.cpuid = k.cpuid /\ w.lapic = l /\ w.msrs = k.msrs
      /\ w.events = k.events /\ w.fpu = k.fpu /\ w.xcrs = k.xcrs /\ w.xsave = k.xsave
  BY <1>w DEF State
<1> HIDE DEF w
<1>c. CopiedEvents(w) = CopiedEvents(k) /\ CopiedXcrs(w) = CopiedXcrs(k)
  BY <1>0 DEF CopiedEvents, CopiedXcrs
<1>1. f = State(k.regs, k.mp, k.cpuid, lap, k.msrs, e, k.fpu, x, k.xsave)
  <2>1. f = State(w.regs, IF n > 1 THEN w.mp ELSE k.mp, IF n > 2 THEN w.cpuid ELSE k.cpuid,
                  IF n > 3 THEN w.lapic ELSE k.lapic, IF n > 4 THEN w.msrs ELSE k.msrs,
                  IF n > 5 THEN CopiedEvents(w) ELSE k.events, IF n > 6 THEN w.fpu ELSE k.fpu,
                  IF n > 7 THEN CopiedXcrs(w) ELSE k.xcrs, IF n > 8 THEN w.xsave ELSE k.xsave)
    <3>1. f = LoadParts(k, Info(w), n)
      BY DEF w
    <3> QED
      BY <1>w, <3>1, LoadIs
  <2> QED
    BY <2>1, <1>0, <1>c
<1>2. e \in {k.events, CopiedEvents(k)} /\ x \in {k.xcrs, CopiedXcrs(k)} /\ lap \in Lapics
  OBVIOUS
<1> HIDE DEF e, x, lap
<1>3. ASSUME NEW m \in Lapics, NEW c, c = State(k.regs, k.mp, k.cpuid, m, k.msrs, e, k.fpu, x, k.xsave)
      PROVE  IsCpu(c) /\ Info(c) = Info(WithLapic(k, m))
  <2> DEFINE q == WithLapic(k, m)
  <2>1. IsCpu(q) /\ q = State(k.regs, k.mp, k.cpuid, m, k.msrs, k.events, k.fpu, k.xcrs, k.xsave)
    BY LapicOf
  <2>2. /\ q.regs = k.regs /\ q.mp = k.mp /\ q.cpuid = k.cpuid /\ q.lapic = m /\ q.msrs = k.msrs
        /\ q.events = k.events /\ q.fpu = k.fpu /\ q.xcrs = k.xcrs /\ q.xsave = k.xsave
    BY <2>1 DEF State
  <2> HIDE DEF q
  <2>3. CopiedEvents(q) = CopiedEvents(k) /\ CopiedXcrs(q) = CopiedXcrs(k)
    BY <2>2 DEF CopiedEvents, CopiedXcrs
  <2>4. c = State(q.regs, q.mp, q.cpuid, q.lapic, q.msrs, e, q.fpu, x, q.xsave)
    BY <1>3, <2>2
  <2>5. e \in {q.events, CopiedEvents(q)} /\ x \in {q.xcrs, CopiedXcrs(q)}
    BY <1>2, <2>2, <2>3
  <2>6. IsCpu(c) /\ Info(c) = Info(q)
    <3>1. IsCpu(q)
      BY <2>1
    <3> QED
      BY <3>1, <2>4, <2>5, CopyReads, Zenon
  <2> QED
    BY <2>6 DEF q
<1>4. IsCpu(f) /\ f.lapic = lap
  <2>1. IsCpu(f)
    BY <1>1, <1>2, <1>3
  <2> QED
    BY <1>1, <2>1 DEF State
<1>5. ASSUME NEW m \in Lapics PROVE Info(WithLapic(f, m)) = Info(WithLapic(k, m))
  <2>1. WithLapic(f, m) = State(k.regs, k.mp, k.cpuid, m, k.msrs, e, k.fpu, x, k.xsave)
    BY <1>1 DEF WithLapic, State
  <2> QED
    BY <1>3, <2>1
<1> QED
  BY <1>2, <1>4, <1>5

\* Loading all of what was read from one vcpu into another makes them the same.
LEMMA LoadCopies ==
  ASSUME NEW k, IsCpu(k), NEW f, IsCpu(f)
  PROVE  SameVcpu(LoadParts(f, Info(k), Parts), k)
<1> DEFINE c == LoadParts(f, Info(k), Parts)
           y == k.events.exception
           i == k.events.interrupt
<1>1. c = State(k.regs, k.mp, k.cpuid, k.lapic, k.msrs, CopiedEvents(k), k.fpu, CopiedXcrs(k), k.xsave)
  BY LoadIs DEF Parts
<1> HIDE DEF c
<1>2. /\ c.regs = k.regs /\ c.mp = k.mp /\ c.cpuid = k.cpuid /\ c.lapic = k.lapic
      /\ c.msrs = k.msrs /\ c.fpu = k.fpu /\ c.xsave = k.xsave
      /\ c.xcrs = CopiedXcrs(k) /\ c.events = CopiedEvents(k)
  BY <1>1 DEF State
<1>3. y.injected \in BOOLEAN /\ y.has_code \in BOOLEAN /\ i.injected \in BOOLEAN
  BY DEF IsCpu, IsVcpu
<1>4. c.xcrs.nr = k.xcrs.nr /\ \A n \in 1 .. k.xcrs.nr : c.xcrs.array[n] = k.xcrs.array[n]
  <2>1. Slots \in Nat /\ k.xcrs.nr \in 0 .. Slots
    BY PartsOf
  <2> QED
    BY <1>2, <2>1 DEF CopiedXcrs
<1>5. /\ c.events.nmi = k.events.nmi /\ c.events.sipi = k.events.sipi
      /\ c.events.flags = k.events.flags
      /\ c.events.exception.injected = y.injected
      /\ y.injected => c.events.exception.nr = y.nr /\ c.events.exception.has_code = y.has_code
      /\ y.injected /\ y.has_code => c.events.exception.code = y.code
  BY <1>2, EventsOfCopy
<1>6. /\ c.events.interrupt.injected = i.injected
      /\ i.injected => /\ c.events.interrupt.nr = i.nr /\ c.events.interrupt.soft = i.soft
                       /\ c.events.interrupt.shadow = i.shadow
  BY <1>2, EventsOfCopy
<1>7. SameVcpu(c, k)
  BY <1>2, <1>3, <1>4, <1>5, <1>6 DEF SameVcpu
<1> QED
  BY <1>7 DEF c

\* A device in the kernel that is loaded with what was saved of another, or of
\* itself, has its state.
LEMMA KernelCopied ==
  ASSUME NEW d \in KernelDevs, NEW f, IsKernel(d, f), NEW k, IsKernel(d, k)
  PROVE  SetKernel(d, f, GetKernel(d, k)) = k
<1>1. d \in {"apic", "pit", "clock"}
  BY DevicesAssumption
<1>2. CASE d = "apic"
  BY <1>2 DEF IsKernel, SetKernel, GetKernel, IsIrqChip, SetIrqChip, GetIrqChip
<1>3. CASE d = "pit"
  BY <1>3 DEF IsKernel, SetKernel, GetKernel, IsPit, SetPit, GetPit
<1>4. CASE d = "clock"
  BY <1>4 DEF IsKernel, SetKernel, GetKernel, IsClock, SetClock, GetClock
<1> QED
  BY <1>1, <1>2, <1>3, <1>4

\* What is saved of a device makes sense, and can be loaded.
LEMMA ObjectOf ==
  ASSUME NEW d \in KernelDevs, NEW k, IsKernel(d, k)
  PROVE  IsObject(d, GetKernel(d, k))
<1>1. IsKernel(d, FreshKernel[d])
  BY StatesAssumption
<1>2. SetKernel(d, FreshKernel[d], GetKernel(d, k)) = k
  BY <1>1, KernelCopied
<1> QED
  BY <1>2 DEF IsObject

\* A device that is loaded with something sensible has a sensible state.
LEMMA ObjectLoads ==
  ASSUME NEW d \in KernelDevs, NEW k, IsKernel(d, k), NEW o, IsObject(d, o)
  PROVE  IsKernel(d, SetKernel(d, k, o))
<1> DEFINE was == SetKernel(d, FreshKernel[d], o)
<1>1. IsKernel(d, was) /\ o = GetKernel(d, was)
  BY DEF IsObject
<1> HIDE DEF was
<1> QED
  BY <1>1, KernelCopied

-----------------------------------------------------------------------------
(* Jobs.                                                                   *)

\* The vcpus and the devices are numbered from 1.
LEMMA Numbers ==
  /\ Cardinality(Vcpus) \in Nat \ {0} /\ Vcpus = 1 .. Cardinality(Vcpus) /\ 1 \in Vcpus
  /\ Len(DevSeq) \in Nat \ {0} /\ DOMAIN DevSeq = 1 .. Len(DevSeq) /\ 1 \in DOMAIN DevSeq
  /\ \A n \in DOMAIN DevSeq : DevSeq[n] \in Devs
  /\ \A d \in Devs : \E n \in DOMAIN DevSeq : DevSeq[n] = d
  /\ \A n, m \in DOMAIN DevSeq : DevSeq[n] = DevSeq[m] => n = m
<1>1. Cardinality(Vcpus) \in Nat \ {0} /\ Vcpus = 1 .. Cardinality(Vcpus)
  BY VcpusAssumption, FS_CardinalityType, FS_EmptySet
<1>2. 1 \in Vcpus
  BY <1>1
<1>3. Len(DevSeq) \in Nat \ {0} /\ DOMAIN DevSeq = 1 .. Len(DevSeq)
  BY DevicesAssumption
<1>4. \A n, m \in DOMAIN DevSeq : DevSeq[n] = DevSeq[m] => n = m
  BY DevicesAssumption DEF IsInjective
<1> QED
  BY <1>1, <1>2, <1>3, <1>4 DEF Devs, ToSet

\* One job becomes another; the others stay.
LEMMA BecomesIs ==
  ASSUME JobsInv, NEW s \in Savers, NEW j, Becomes(s, j)
  PROVE  /\ job'[s] = j
         /\ \A t \in Savers \ {s} : job'[t] = job[t]
         /\ job' = [t \in Savers |-> job'[t]]
BY DEF Becomes, JobsInv

-----------------------------------------------------------------------------
(* What the steps of a saver make of what it holds.                        *)

\* Nothing that a job has come by is claimed of the next one.
Keeps(s, j, k) ==
  /\ IsJob(s, k)
  /\ HasInfo(k) => HasInfo(j) /\ k.info = j.info
  /\ \A n \in DOMAIN DevSeq : HasSaved(k, n) => HasSaved(j, n)
  /\ s = Main => /\ HasCut(k) => HasCut(j) /\ k.info = j.info
                 /\ Encoded(k) = Encoded(j)
SameVcpus(j, k) ==
  \A v \in Vcpus : /\ VmHeld(k, v) <=> VmHeld(j, v)
                   /\ OuterHeld(k, v) <=> OuterHeld(j, v)
                   /\ Granted(k, v) => Granted(j, v)
SameDevices(j, k) ==
  /\ k.pc \notin LockPcs
  /\ \A n \in DOMAIN DevSeq : /\ DevHeld(k, n) <=> DevHeld(j, n)
                              /\ DevGranted(k, n) => DevGranted(j, n)

\* Vcpu.Pause of the next vcpu.
LEMMA PauseVcpuJob ==
  ASSUME NEW s \in Savers, NEW j, IsJob(s, j), j.pc \in {"outer", "vmPause"}, NEW k,
         k = Job(j.op, IF j.pc = "outer" THEN "outerWait" ELSE "vmWait", j.i, j.info, j.err)
  PROVE  /\ Keeps(s, j, k) /\ SameDevices(j, k)
         /\ \A v \in Vcpus :
              /\ VmHeld(k, v) <=> VmHeld(j, v) \/ (j.pc = "vmPause" /\ v = j.i)
              /\ OuterHeld(k, v) <=> OuterHeld(j, v) \/ (j.pc = "outer" /\ v = j.i)
              /\ Granted(k, v) => Granted(j, v)
         /\ j.i \in Vcpus
         /\ j.pc = "vmPause" => ~VmHeld(j, j.i)
         /\ j.pc = "outer" => ~OuterHeld(j, j.i)
<1> USE Numbers
<1>k. k.op = j.op /\ k.i = j.i /\ k.info = j.info /\ k.err = j.err
      /\ k.pc = (IF j.pc = "outer" THEN "outerWait" ELSE "vmWait")
  BY DEF Job
<1>1. IsJob(s, k)
  BY <1>k DEF IsJob, Job, SavePcs, HeldPcs, OuterPcs, LockPcs
<1>2. Keeps(s, j, k) /\ SameDevices(j, k)
  BY <1>1, <1>k DEF Keeps, SameDevices, HasInfo, HasSaved, HasCut, Encoded, DevHeld, DevGranted, LockPcs, HeldPcs
<1>3. j.i \in Vcpus
  BY DEF IsJob
<1> QED
  BY <1>2, <1>3, <1>k DEF VmHeld, OuterHeld, Granted, HeldPcs, SavePcs, IsJob, OuterPcs

Fields(k, op, pc, i, info, err) ==
  k.op = op /\ k.pc = pc /\ k.i = i /\ k.info = info /\ k.err = err

\* Vcpu.Pause fails, and the vcpus before this one have been unpaused.
LEMMA PauseVcpuFails ==
  ASSUME NEW s \in Savers, NEW j, IsJob(s, j), NEW k,
         j.pc \in {"outer", "vmPause"},
         k = FailedJob(j, IF j.pc = "vmPause" /\ j.op = "reload" THEN "outerUnpause" ELSE "idle")
  PROVE  /\ Keeps(s, j, k) /\ SameDevices(j, k)
         /\ \A v \in Vcpus :
              /\ VmHeld(k, v) <=> VmHeld(j, v) /\ ~(j.pc = "vmPause" /\ v < j.i)
              /\ OuterHeld(k, v) <=> OuterHeld(j, v) /\ ~(j.pc = "outer" /\ v < j.i)
              /\ Granted(k, v) => Granted(j, v)
         /\ j.i \in Vcpus
         /\ j.pc = "vmPause" => ~VmHeld(j, j.i)
         /\ j.pc = "outer" => ~OuterHeld(j, j.i)
<1> USE Numbers
<1>k. \/ k = EndedJob /\ ~(j.pc = "vmPause" /\ j.op = "reload")
      \/ k = Job(j.op, "outerUnpause", 1, Nil, "error") /\ j.pc = "vmPause" /\ j.op = "reload"
  BY DEF MovedJob, FailedJob, LoopedJob, EndedJob, Job, IsJob
<1>r. k = [op |-> k.op, pc |-> k.pc, i |-> k.i, info |-> k.info, err |-> k.err] /\ k.err \in {"nil", "error"}
  BY <1>k DEF Job, EndedJob, Fields, IsJob
<1>f. \/ Fields(k, "ended", "idle", 1, Nil, "nil") /\ ~(j.pc = "vmPause" /\ j.op = "reload")
      \/ Fields(k, j.op, "outerUnpause", 1, Nil, "error") /\ j.pc = "vmPause" /\ j.op = "reload"
  BY <1>k DEF Job, EndedJob, Fields, IsJob
<1>1. IsJob(s, k)
  <2>1. CASE Fields(k, "ended", "idle", 1, Nil, "nil")
    BY <1>r, <2>1 DEF Fields, IsJob, SavePcs, HeldPcs, OuterPcs, LockPcs
  <2>2. CASE Fields(k, j.op, "outerUnpause", 1, Nil, "error") /\ j.pc = "vmPause" /\ j.op = "reload"
    <3>1. s # Main /\ s \in Rpcs
      BY <2>2 DEF IsJob, Savers, SavePcs, HeldPcs, OuterPcs
    <3> QED
      BY <1>r, <2>2, <3>1 DEF Fields, IsJob, SavePcs, HeldPcs, OuterPcs, LockPcs
  <2> QED
    BY <1>f, <2>1, <2>2
<1>2. Keeps(s, j, k)
  BY <1>1, <1>f DEF Keeps, HasInfo, HasSaved, HasCut, Encoded, Fields, IsJob, SavePcs, HeldPcs, OuterPcs
<1> QED
  BY <1>2, <1>f DEF SameVcpus, SameDevices, VmHeld, OuterHeld, Granted, DevHeld, DevGranted, Fields,
                     IsJob, SavePcs, HeldPcs, OuterPcs, LockPcs

\* Vcpu.Pause returns.
LEMMA VcpuPausedJob ==
  ASSUME NEW s \in Savers, NEW j, IsJob(s, j), NEW k,
         j.pc \in {"outerWait", "vmWait"},
         k = IF j.pc = "outerWait" THEN LoopedJob(j, Cardinality(Vcpus), "outer", "vmPause")
             ELSE LoopedJob(j, Cardinality(Vcpus), "vmPause", "vcpuInfo")
  PROVE  /\ Keeps(s, j, k) /\ SameDevices(j, k)
         /\ \A v \in Vcpus : /\ VmHeld(k, v) <=> VmHeld(j, v)
                             /\ OuterHeld(k, v) <=> OuterHeld(j, v)
                             /\ Granted(k, v) => Granted(j, v) \/ v = j.i
<1> USE Numbers
<1>k. /\ k = Job(j.op, k.pc, k.i, j.info, j.err)
      /\ IF j.i < Cardinality(Vcpus)
         THEN k.i = j.i + 1 /\ k.pc = (IF j.pc = "outerWait" THEN "outer" ELSE "vmPause")
         ELSE k.i = 1 /\ k.pc = (IF j.pc = "outerWait" THEN "vmPause" ELSE "vcpuInfo")
  BY DEF MovedJob, FailedJob, LoopedJob, EndedJob, Job, IsJob
<1>r. k = [op |-> k.op, pc |-> k.pc, i |-> k.i, info |-> k.info, err |-> k.err] /\ k.err \in {"nil", "error"}
  BY <1>k DEF Job, EndedJob, Fields, IsJob
<1>f. /\ Fields(k, j.op, k.pc, k.i, j.info, j.err)
      /\ IF j.i < Cardinality(Vcpus)
         THEN k.i = j.i + 1 /\ k.pc = (IF j.pc = "outerWait" THEN "outer" ELSE "vmPause")
         ELSE k.i = 1 /\ k.pc = (IF j.pc = "outerWait" THEN "vmPause" ELSE "vcpuInfo")
  BY <1>k DEF Job, EndedJob, Fields, IsJob
<1>1. IsJob(s, k)
  <2>1. CASE j.pc = "outerWait"
    <3>1. s \in Rpcs /\ s # Main /\ j.op = "reload"
      BY <2>1, ActorsAssumption DEF IsJob, SavePcs, HeldPcs, OuterPcs
    <3> QED
      BY <1>r, <1>f, <2>1, <3>1 DEF Fields, IsJob, SavePcs, HeldPcs, OuterPcs, LockPcs
  <2>2. CASE j.pc = "vmWait"
    BY <1>r, <1>f, <2>2 DEF Fields, IsJob, SavePcs, HeldPcs, OuterPcs, LockPcs
  <2> QED
    BY <2>1, <2>2
<1>2. Keeps(s, j, k)
  BY <1>1, <1>f DEF Keeps, HasInfo, HasSaved, HasCut, Encoded, Fields, IsJob, SavePcs, HeldPcs, OuterPcs
<1> QED
  BY <1>2, <1>f DEF SameVcpus, SameDevices, VmHeld, OuterHeld, Granted, DevHeld, DevGranted, Fields,
                     IsJob, SavePcs, HeldPcs, OuterPcs, LockPcs

\* Vcpu.Unpause of the next vcpu; after the last SaveState or Reload returns.
LEMMA UnpauseVcpuJob ==
  ASSUME NEW s \in Savers, NEW j, IsJob(s, j), NEW k,
         j.pc \in {"vmUnpause", "outerUnpause"}, NEW to,
         to = (IF j.pc = "outerUnpause" THEN "idle"
               ELSE IF j.op = "reload" THEN (IF j.err = "nil" THEN "loadVcpus" ELSE "outerUnpause")
               ELSE IF j.op = "restart" /\ j.err = "nil" THEN "encode" ELSE "idle"),
         k = LoopedJob(j, Cardinality(Vcpus), j.pc, to)
  PROVE  /\ Keeps(s, j, k) /\ SameDevices(j, k)
         /\ \A v \in Vcpus :
              /\ VmHeld(k, v) <=> VmHeld(j, v) /\ ~(j.pc = "vmUnpause" /\ v = j.i)
              /\ OuterHeld(k, v) <=> OuterHeld(j, v) /\ ~(j.pc = "outerUnpause" /\ v = j.i)
              /\ Granted(k, v) => Granted(j, v)
         /\ j.i \in Vcpus
         /\ j.pc = "vmUnpause" => VmHeld(j, j.i)
         /\ j.pc = "outerUnpause" => OuterHeld(j, j.i)
<1> USE Numbers
<1>k. \/ j.i < Cardinality(Vcpus) /\ k = Job(j.op, j.pc, j.i + 1, j.info, j.err)
      \/ j.i >= Cardinality(Vcpus) /\ to = "idle" /\ k = EndedJob
      \/ j.i >= Cardinality(Vcpus) /\ to # "idle" /\ k = Job(j.op, to, 1, j.info, j.err)
  BY DEF MovedJob, FailedJob, LoopedJob, EndedJob, Job, IsJob
<1>r. k = [op |-> k.op, pc |-> k.pc, i |-> k.i, info |-> k.info, err |-> k.err] /\ k.err \in {"nil", "error"}
  BY <1>k DEF Job, EndedJob, Fields, IsJob
<1>f. \/ j.i < Cardinality(Vcpus) /\ Fields(k, j.op, j.pc, j.i + 1, j.info, j.err)
      \/ j.i >= Cardinality(Vcpus) /\ to = "idle" /\ Fields(k, "ended", "idle", 1, Nil, "nil")
      \/ j.i >= Cardinality(Vcpus) /\ to # "idle" /\ Fields(k, j.op, to, 1, j.info, j.err)
  BY <1>k DEF Job, EndedJob, Fields, IsJob
<1>0. /\ j.pc = "outerUnpause" => s \in Rpcs /\ s # Main /\ j.op = "reload"
      /\ j.op = "reload" => s \in Rpcs /\ s # Main
      /\ j.op = "restart" => s = Main
  BY ActorsAssumption DEF IsJob, Savers, SavePcs, HeldPcs, OuterPcs
<1>1. IsJob(s, k)
  <2>1. CASE j.i < Cardinality(Vcpus)
    <3>1. Fields(k, j.op, j.pc, j.i + 1, j.info, j.err)
      BY <1>f, <2>1 DEF IsJob
    <3> QED
      BY <1>r, <2>1, <3>1 DEF Fields, IsJob, SavePcs, HeldPcs, OuterPcs, LockPcs
  <2>2. CASE ~(j.i < Cardinality(Vcpus)) /\ to = "idle"
    <3>1. Fields(k, "ended", "idle", 1, Nil, "nil")
      BY <1>f, <2>2 DEF IsJob
    <3> QED
      BY <1>r, <3>1 DEF Fields, IsJob, SavePcs, HeldPcs, OuterPcs, LockPcs
  <2>3. CASE ~(j.i < Cardinality(Vcpus)) /\ to # "idle"
    <3>1. Fields(k, j.op, to, 1, j.info, j.err)
      BY <1>f, <2>3 DEF IsJob
    <3> QED
      BY <1>r, <1>0, <3>1, <2>3 DEF Fields, IsJob, SavePcs, HeldPcs, OuterPcs, LockPcs
  <2> QED
    BY <2>1, <2>2, <2>3
<1>2. Keeps(s, j, k)
  BY <1>1, <1>f DEF Keeps, HasInfo, HasSaved, HasCut, Encoded, Fields, IsJob, SavePcs, HeldPcs, OuterPcs
<1>3. SameDevices(j, k)
  BY <1>f DEF SameDevices, DevHeld, DevGranted, Fields, LockPcs
<1>4. j.i \in Vcpus /\ (j.pc = "vmUnpause" => VmHeld(j, j.i)) /\ (j.pc = "outerUnpause" => OuterHeld(j, j.i))
  BY <1>0 DEF IsJob, VmHeld, OuterHeld
<1>5. ASSUME NEW v \in Vcpus
      PROVE  /\ VmHeld(k, v) <=> VmHeld(j, v) /\ ~(j.pc = "vmUnpause" /\ v = j.i)
             /\ OuterHeld(k, v) <=> OuterHeld(j, v) /\ ~(j.pc = "outerUnpause" /\ v = j.i)
             /\ Granted(k, v) => Granted(j, v)
  <2>0. v \in Nat /\ j.i \in Nat /\ v >= 1 /\ v <= Cardinality(Vcpus)
    BY DEF IsJob
  <2>1. CASE j.i < Cardinality(Vcpus)
    <3>1. Fields(k, j.op, j.pc, j.i + 1, j.info, j.err)
      BY <1>f, <2>1 DEF IsJob
    <3> QED
      BY <2>0, <2>1, <3>1 DEF VmHeld, OuterHeld, Granted, Fields, IsJob, SavePcs, HeldPcs, OuterPcs
  <2>2. CASE ~(j.i < Cardinality(Vcpus)) /\ to = "idle"
    <3>1. Fields(k, "ended", "idle", 1, Nil, "nil")
      BY <1>f, <2>2 DEF IsJob
    <3> QED
      BY <1>0, <1>4, <2>0, <2>2, <3>1 DEF VmHeld, OuterHeld, Granted, Fields, IsJob, SavePcs, HeldPcs, OuterPcs
  <2>3. CASE ~(j.i < Cardinality(Vcpus)) /\ to # "idle"
    <3>1. Fields(k, j.op, to, 1, j.info, j.err) /\ j.pc = "vmUnpause"
      BY <1>f, <2>3 DEF IsJob
    <3> QED
      BY <1>0, <1>4, <2>0, <2>3, <3>1 DEF VmHeld, OuterHeld, Granted, Fields, IsJob, SavePcs, HeldPcs, OuterPcs
  <2> QED
    BY <2>1, <2>2, <2>3
<1> QED
  BY <1>2, <1>3, <1>4, <1>5

\* Vm.VcpuInfo fails.
LEMMA VcpuInfoFails ==
  ASSUME NEW s \in Savers, NEW j, IsJob(s, j), NEW k,
         j.pc = "vcpuInfo", k = FailedJob(j, "vmUnpause")
  PROVE  Keeps(s, j, k) /\ SameDevices(j, k) /\ SameVcpus(j, k)
<1> USE Numbers
<1>k. k = Job(j.op, "vmUnpause", 1, Nil, "error")
  BY DEF MovedJob, FailedJob, LoopedJob, EndedJob, Job, IsJob
<1>r. k = [op |-> k.op, pc |-> k.pc, i |-> k.i, info |-> k.info, err |-> k.err] /\ k.err \in {"nil", "error"}
  BY <1>k DEF Job, EndedJob, Fields, IsJob
<1>f. Fields(k, j.op, "vmUnpause", 1, Nil, "error")
  BY <1>k DEF Job, EndedJob, Fields, IsJob
<1>1. IsJob(s, k)
  BY <1>r, <1>f DEF Fields, IsJob, SavePcs, HeldPcs, OuterPcs, LockPcs
<1>2. Keeps(s, j, k)
  BY <1>1, <1>f DEF Keeps, HasInfo, HasSaved, HasCut, Encoded, Fields, IsJob, SavePcs, HeldPcs, OuterPcs
<1> QED
  BY <1>2, <1>f DEF SameVcpus, SameDevices, VmHeld, OuterHeld, Granted, DevHeld, DevGranted, Fields,
                     IsJob, SavePcs, HeldPcs, OuterPcs, LockPcs

\* Device.Pause of the next device has returned.
LEMMA PauseDeviceJob ==
  ASSUME NEW s \in Savers, NEW j, IsJob(s, j), NEW k,
         j.pc \in {"modelPause", "lockWait"}, k = LoopedJob(j, Len(DevSeq), "modelPause", "save")
  PROVE  /\ Keeps(s, j, k) /\ SameVcpus(j, k) /\ k.pc \notin LockPcs
         /\ \A n \in DOMAIN DevSeq :
              /\ DevHeld(k, n) <=> DevHeld(j, n) \/ (j.pc = "modelPause" /\ n = j.i)
              /\ DevGranted(k, n) => DevGranted(j, n) \/ n = j.i
         /\ j.i \in DOMAIN DevSeq
         /\ j.pc = "modelPause" => ~DevHeld(j, j.i)
<1> USE Numbers
<1>k. \/ j.i < Len(DevSeq) /\ k = Job(j.op, "modelPause", j.i + 1, j.info, j.err)
      \/ j.i >= Len(DevSeq) /\ k = Job(j.op, "save", 1, j.info, j.err)
  BY DEF MovedJob, FailedJob, LoopedJob, EndedJob, Job, IsJob
<1>r. k = [op |-> k.op, pc |-> k.pc, i |-> k.i, info |-> k.info, err |-> k.err] /\ k.err \in {"nil", "error"}
  BY <1>k DEF Job, EndedJob, Fields, IsJob
<1>f. \/ j.i < Len(DevSeq) /\ Fields(k, j.op, "modelPause", j.i + 1, j.info, j.err)
      \/ j.i >= Len(DevSeq) /\ Fields(k, j.op, "save", 1, j.info, j.err)
  BY <1>k DEF Job, EndedJob, Fields, IsJob
<1>1. IsJob(s, k)
  BY <1>r, <1>f DEF Fields, IsJob, SavePcs, HeldPcs, OuterPcs, LockPcs
<1>2. Keeps(s, j, k)
  BY <1>1, <1>f DEF Keeps, HasInfo, HasSaved, HasCut, Encoded, Fields, IsJob, SavePcs, HeldPcs, OuterPcs
<1> QED
  BY <1>2, <1>f DEF SameVcpus, SameDevices, VmHeld, OuterHeld, Granted, DevHeld, DevGranted, Fields,
                     IsJob, SavePcs, HeldPcs, OuterPcs, LockPcs

\* Device.Pause of the next device waits for run_lock.
LEMMA LockDeviceJob ==
  ASSUME NEW s \in Savers, NEW j, IsJob(s, j), NEW k,
         j.pc = "modelPause", k = Job(j.op, "lockWait", j.i, j.info, j.err)
  PROVE  /\ Keeps(s, j, k) /\ SameVcpus(j, k) /\ k.pc \in LockPcs /\ k.i = j.i
         /\ \A n \in DOMAIN DevSeq :
              /\ DevHeld(k, n) <=> DevHeld(j, n) \/ n = j.i
              /\ DevGranted(k, n) => DevGranted(j, n)
         /\ j.i \in DOMAIN DevSeq /\ ~DevHeld(j, j.i)
<1> USE Numbers
<1>k. k = Job(j.op, "lockWait", j.i, j.info, j.err)
  BY DEF MovedJob, FailedJob, LoopedJob, EndedJob, Job, IsJob
<1>r. k = [op |-> k.op, pc |-> k.pc, i |-> k.i, info |-> k.info, err |-> k.err] /\ k.err \in {"nil", "error"}
  BY <1>k DEF Job, EndedJob, Fields, IsJob
<1>f. Fields(k, j.op, "lockWait", j.i, j.info, j.err)
  BY <1>k DEF Job, EndedJob, Fields, IsJob
<1>1. IsJob(s, k)
  BY <1>r, <1>f DEF Fields, IsJob, SavePcs, HeldPcs, OuterPcs, LockPcs
<1>2. Keeps(s, j, k)
  BY <1>1, <1>f DEF Keeps, HasInfo, HasSaved, HasCut, Encoded, Fields, IsJob, SavePcs, HeldPcs, OuterPcs
<1> QED
  BY <1>2, <1>f DEF SameVcpus, SameDevices, VmHeld, OuterHeld, Granted, DevHeld, DevGranted, Fields,
                     IsJob, SavePcs, HeldPcs, OuterPcs, LockPcs

\* The Device call has paused its device.
LEMMA ManualPausedJob ==
  ASSUME NEW s \in Savers, NEW j, IsJob(s, j), NEW k,
         j.pc = "manualWait", k = MovedJob(j, "idle")
  PROVE  Keeps(s, j, k) /\ SameVcpus(j, k) /\ SameDevices(j, k)
<1> USE Numbers
<1>k. k = EndedJob
  BY DEF MovedJob, FailedJob, LoopedJob, EndedJob, Job, IsJob
<1>r. k = [op |-> k.op, pc |-> k.pc, i |-> k.i, info |-> k.info, err |-> k.err] /\ k.err \in {"nil", "error"}
  BY <1>k DEF Job, EndedJob, Fields, IsJob
<1>f. Fields(k, "ended", "idle", 1, Nil, "nil")
  BY <1>k DEF Job, EndedJob, Fields, IsJob
<1>1. IsJob(s, k)
  BY <1>r, <1>f DEF Fields, IsJob, SavePcs, HeldPcs, OuterPcs, LockPcs
<1>2. Keeps(s, j, k)
  BY <1>1, <1>f DEF Keeps, HasInfo, HasSaved, HasCut, Encoded, Fields, IsJob, SavePcs, HeldPcs, OuterPcs
<1> QED
  BY <1>2, <1>f DEF SameVcpus, SameDevices, VmHeld, OuterHeld, Granted, DevHeld, DevGranted, Fields,
                     IsJob, SavePcs, HeldPcs, OuterPcs, LockPcs

\* Device.Unpause of the next device.
LEMMA UnpauseDeviceJob ==
  ASSUME NEW s \in Savers, NEW j, IsJob(s, j), NEW k,
         j.pc = "modelUnpause", k = LoopedJob(j, Len(DevSeq), "modelUnpause", "vmUnpause")
  PROVE  /\ Keeps(s, j, k) /\ SameVcpus(j, k) /\ k.pc \notin LockPcs
         /\ \A n \in DOMAIN DevSeq :
              /\ DevHeld(k, n) <=> DevHeld(j, n) /\ n # j.i
              /\ DevGranted(k, n) => DevGranted(j, n)
         /\ j.i \in DOMAIN DevSeq /\ DevHeld(j, j.i)
<1> USE Numbers
<1>k. \/ j.i < Len(DevSeq) /\ k = Job(j.op, "modelUnpause", j.i + 1, j.info, j.err)
      \/ j.i >= Len(DevSeq) /\ k = Job(j.op, "vmUnpause", 1, j.info, j.err)
  BY DEF MovedJob, FailedJob, LoopedJob, EndedJob, Job, IsJob
<1>r. k = [op |-> k.op, pc |-> k.pc, i |-> k.i, info |-> k.info, err |-> k.err] /\ k.err \in {"nil", "error"}
  BY <1>k DEF Job, EndedJob, Fields, IsJob
<1>f. \/ j.i < Len(DevSeq) /\ Fields(k, j.op, "modelUnpause", j.i + 1, j.info, j.err)
      \/ j.i >= Len(DevSeq) /\ Fields(k, j.op, "vmUnpause", 1, j.info, j.err)
  BY <1>k DEF Job, EndedJob, Fields, IsJob
<1>1. IsJob(s, k)
  BY <1>r, <1>f DEF Fields, IsJob, SavePcs, HeldPcs, OuterPcs, LockPcs
<1>2. Keeps(s, j, k)
  BY <1>1, <1>f DEF Keeps, HasInfo, HasSaved, HasCut, Encoded, Fields, IsJob, SavePcs, HeldPcs, OuterPcs
<1> QED
  BY <1>2, <1>f DEF SameVcpus, SameDevices, VmHeld, OuterHeld, Granted, DevHeld, DevGranted, Fields,
                     IsJob, SavePcs, HeldPcs, OuterPcs, LockPcs

\* Model.Save fails.
LEMMA SaveFails ==
  ASSUME NEW s \in Savers, NEW j, IsJob(s, j), NEW k,
         j.pc = "save", k = FailedJob(j, "modelUnpause")
  PROVE  Keeps(s, j, k) /\ SameVcpus(j, k) /\ SameDevices(j, k)
<1> USE Numbers
<1>k. k = Job(j.op, "modelUnpause", 1, Nil, "error")
  BY DEF MovedJob, FailedJob, LoopedJob, EndedJob, Job, IsJob
<1>r. k = [op |-> k.op, pc |-> k.pc, i |-> k.i, info |-> k.info, err |-> k.err] /\ k.err \in {"nil", "error"}
  BY <1>k DEF Job, EndedJob, Fields, IsJob
<1>f. Fields(k, j.op, "modelUnpause", 1, Nil, "error")
  BY <1>k DEF Job, EndedJob, Fields, IsJob
<1>1. IsJob(s, k)
  BY <1>r, <1>f DEF Fields, IsJob, SavePcs, HeldPcs, OuterPcs, LockPcs
<1>2. Keeps(s, j, k)
  BY <1>1, <1>f DEF Keeps, HasInfo, HasSaved, HasCut, Encoded, Fields, IsJob, SavePcs, HeldPcs, OuterPcs
<1> QED
  BY <1>2, <1>f DEF SameVcpus, SameDevices, VmHeld, OuterHeld, Granted, DevHeld, DevGranted, Fields,
                     IsJob, SavePcs, HeldPcs, OuterPcs, LockPcs

\* Vcpu.Load of the next vcpu, which may fail.
LEMMA LoadVcpuJob ==
  ASSUME NEW s \in Savers, NEW j, IsJob(s, j), NEW k,
         j.pc = "loadVcpus",
         k \in {LoopedJob(j, Cardinality(Vcpus), "loadVcpus", "loadModel"), FailedJob(j, "outerUnpause")}
  PROVE  Keeps(s, j, k) /\ SameVcpus(j, k) /\ SameDevices(j, k)
<1> USE Numbers
<1>k. \/ j.i < Cardinality(Vcpus) /\ k = Job(j.op, "loadVcpus", j.i + 1, j.info, j.err)
      \/ j.i >= Cardinality(Vcpus) /\ k = Job(j.op, "loadModel", 1, j.info, j.err)
      \/ k = Job(j.op, "outerUnpause", 1, Nil, "error")
  BY DEF MovedJob, FailedJob, LoopedJob, EndedJob, Job, IsJob
<1>r. k = [op |-> k.op, pc |-> k.pc, i |-> k.i, info |-> k.info, err |-> k.err] /\ k.err \in {"nil", "error"}
  BY <1>k DEF Job, EndedJob, Fields, IsJob
<1>f. \/ j.i < Cardinality(Vcpus) /\ Fields(k, j.op, "loadVcpus", j.i + 1, j.info, j.err)
      \/ j.i >= Cardinality(Vcpus) /\ Fields(k, j.op, "loadModel", 1, j.info, j.err)
      \/ Fields(k, j.op, "outerUnpause", 1, Nil, "error")
  BY <1>k DEF Job, EndedJob, Fields, IsJob
<1>1. IsJob(s, k)
  BY <1>r, <1>f DEF Fields, IsJob, SavePcs, HeldPcs, OuterPcs, LockPcs
<1>2. Keeps(s, j, k)
  BY <1>1, <1>f DEF Keeps, HasInfo, HasSaved, HasCut, Encoded, Fields, IsJob, SavePcs, HeldPcs, OuterPcs
<1> QED
  BY <1>2, <1>f DEF SameVcpus, SameDevices, VmHeld, OuterHeld, Granted, DevHeld, DevGranted, Fields,
                     IsJob, SavePcs, HeldPcs, OuterPcs, LockPcs

\* Model.Load of the next device, which may fail.
LEMMA LoadModelJob ==
  ASSUME NEW s \in Savers, NEW j, IsJob(s, j), NEW k,
         j.pc = "loadModel",
         k \in {LoopedJob(j, Len(DevSeq), "loadModel", "outerUnpause"), FailedJob(j, "outerUnpause")}
  PROVE  /\ Keeps(s, j, k) /\ SameVcpus(j, k) /\ SameDevices(j, k)
         /\ j.i \in DOMAIN DevSeq
<1> USE Numbers
<1>k. \/ j.i < Len(DevSeq) /\ k = Job(j.op, "loadModel", j.i + 1, j.info, j.err)
      \/ j.i >= Len(DevSeq) /\ k = Job(j.op, "outerUnpause", 1, j.info, j.err)
      \/ k = Job(j.op, "outerUnpause", 1, Nil, "error")
  BY DEF MovedJob, FailedJob, LoopedJob, EndedJob, Job, IsJob
<1>r. k = [op |-> k.op, pc |-> k.pc, i |-> k.i, info |-> k.info, err |-> k.err] /\ k.err \in {"nil", "error"}
  BY <1>k DEF Job, EndedJob, Fields, IsJob
<1>f. \/ j.i < Len(DevSeq) /\ Fields(k, j.op, "loadModel", j.i + 1, j.info, j.err)
      \/ j.i >= Len(DevSeq) /\ Fields(k, j.op, "outerUnpause", 1, j.info, j.err)
      \/ Fields(k, j.op, "outerUnpause", 1, Nil, "error")
  BY <1>k DEF Job, EndedJob, Fields, IsJob
<1>1. IsJob(s, k)
  BY <1>r, <1>f DEF Fields, IsJob, SavePcs, HeldPcs, OuterPcs, LockPcs
<1>2. Keeps(s, j, k)
  BY <1>1, <1>f DEF Keeps, HasInfo, HasSaved, HasCut, Encoded, Fields, IsJob, SavePcs, HeldPcs, OuterPcs
<1>3. j.i \in DOMAIN DevSeq
  BY DEF IsJob
<1> QED
  BY <1>2, <1>3, <1>f DEF SameVcpus, SameDevices, VmHeld, OuterHeld, Granted, DevHeld, DevGranted, Fields,
                     IsJob, SavePcs, HeldPcs, OuterPcs, LockPcs

\* A call begins.
LEMMA StartJob ==
  ASSUME NEW s \in Savers, NEW j, IsJob(s, j), NEW k,
         j.pc = "idle", NEW op, op \in (IF s = Main THEN {"restart"} ELSE {"state", "reload"}),
         k = Job(op, IF op = "reload" THEN "outer" ELSE "vmPause", 1, Nil, "nil")
  PROVE  Keeps(s, j, k) /\ SameVcpus(j, k) /\ SameDevices(j, k)
<1> USE Numbers
<1>k. k = Job(op, IF op = "reload" THEN "outer" ELSE "vmPause", 1, Nil, "nil")
  BY DEF MovedJob, FailedJob, LoopedJob, EndedJob, Job, IsJob
<1>r. k = [op |-> k.op, pc |-> k.pc, i |-> k.i, info |-> k.info, err |-> k.err] /\ k.err \in {"nil", "error"}
  BY <1>k DEF Job, EndedJob, Fields, IsJob
<1>f. Fields(k, op, IF op = "reload" THEN "outer" ELSE "vmPause", 1, Nil, "nil")
  BY <1>k DEF Job, EndedJob, Fields, IsJob
<1>1. IsJob(s, k)
  <2>1. s # Main => s \in Rpcs
    BY DEF Savers
  <2>2. CASE op = "reload"
    BY <1>r, <1>f, <2>1, <2>2 DEF Fields, IsJob, SavePcs, HeldPcs, OuterPcs, LockPcs
  <2>3. CASE op # "reload"
    BY <1>r, <1>f, <2>1, <2>3 DEF Fields, IsJob, SavePcs, HeldPcs, OuterPcs, LockPcs
  <2> QED
    BY <2>2, <2>3
<1>2. Keeps(s, j, k)
  BY <1>1, <1>f DEF Keeps, HasInfo, HasSaved, HasCut, Encoded, Fields, IsJob, SavePcs, HeldPcs, OuterPcs
<1> QED
  BY <1>2, <1>f DEF SameVcpus, SameDevices, VmHeld, OuterHeld, Granted, DevHeld, DevGranted, Fields,
                     IsJob, SavePcs, HeldPcs, OuterPcs, LockPcs

\* The Device call waits for run_lock.
LEMMA DeviceCallJob ==
  ASSUME NEW s \in Savers, NEW j, IsJob(s, j), NEW k,
         j.pc = "idle", s \in Rpcs, NEW i \in DOMAIN DevSeq, k = Job("device", "manualWait", i, Nil, "nil")
  PROVE  /\ Keeps(s, j, k) /\ SameVcpus(j, k)
         /\ \A n \in DOMAIN DevSeq : (DevHeld(k, n) <=> DevHeld(j, n)) /\ ~DevGranted(k, n)
<1> USE Numbers
<1>k. k = Job("device", "manualWait", i, Nil, "nil")
  BY DEF MovedJob, FailedJob, LoopedJob, EndedJob, Job, IsJob
<1>r. k = [op |-> k.op, pc |-> k.pc, i |-> k.i, info |-> k.info, err |-> k.err] /\ k.err \in {"nil", "error"}
  BY <1>k DEF Job, EndedJob, Fields, IsJob
<1>f. Fields(k, "device", "manualWait", i, Nil, "nil")
  BY <1>k DEF Job, EndedJob, Fields, IsJob
<1>1. IsJob(s, k)
  BY <1>r, <1>f DEF Fields, IsJob, SavePcs, HeldPcs, OuterPcs, LockPcs
<1>2. Keeps(s, j, k)
  BY <1>1, <1>f DEF Keeps, HasInfo, HasSaved, HasCut, Encoded, Fields, IsJob, SavePcs, HeldPcs, OuterPcs
<1> QED
  BY <1>2, <1>f DEF SameVcpus, SameDevices, VmHeld, OuterHeld, Granted, DevHeld, DevGranted, Fields,
                     IsJob, SavePcs, HeldPcs, OuterPcs, LockPcs

\* Model.Save has saved the next device.
LEMMA SaveJob ==
  ASSUME NEW s \in Savers, NEW j, IsJob(s, j), NEW k,
         j.pc = "save", k = LoopedJob(j, Len(DevSeq), "save", "modelUnpause")
  PROVE  /\ IsJob(s, k) /\ SameVcpus(j, k) /\ SameDevices(j, k)
         /\ HasInfo(k) => HasInfo(j)
         /\ \A n \in DOMAIN DevSeq : HasSaved(k, n) => HasSaved(j, n) \/ n = j.i
         /\ HasCut(k) => HasInfo(j) /\ j.i = Len(DevSeq)
         /\ j.i = Len(DevSeq) /\ HasInfo(j) => \A n \in DOMAIN DevSeq : HasSaved(j, n) \/ n = j.i
         /\ k.info = j.info /\ j.i \in DOMAIN DevSeq
         /\ Encoded(k) = 0 /\ Encoded(j) = 0
<1> USE Numbers
<1>0. j.i \in DOMAIN DevSeq /\ j.i \in Nat
  BY DEF IsJob
<1>k. \/ j.i < Len(DevSeq) /\ k = Job(j.op, "save", j.i + 1, j.info, j.err)
      \/ j.i = Len(DevSeq) /\ k = Job(j.op, "modelUnpause", 1, j.info, j.err)
  BY <1>0 DEF LoopedJob, MovedJob
<1>r. k = [op |-> k.op, pc |-> k.pc, i |-> k.i, info |-> k.info, err |-> k.err] /\ k.err \in {"nil", "error"}
  BY <1>k DEF Job, IsJob
<1>f. \/ j.i < Len(DevSeq) /\ Fields(k, j.op, "save", j.i + 1, j.info, j.err)
      \/ j.i = Len(DevSeq) /\ Fields(k, j.op, "modelUnpause", 1, j.info, j.err)
  BY <1>k DEF Job, Fields
<1>1. IsJob(s, k)
  BY <1>r, <1>f, <1>0 DEF Fields, IsJob, SavePcs, HeldPcs, OuterPcs, LockPcs
<1>2. HasInfo(k) => HasInfo(j)
  BY <1>f DEF HasInfo, Fields, HeldPcs
<1>3. Encoded(k) = 0 /\ Encoded(j) = 0
  BY <1>f DEF Encoded, Fields
<1>4. SameVcpus(j, k) /\ SameDevices(j, k)
  BY <1>f DEF SameVcpus, SameDevices, VmHeld, OuterHeld, Granted, DevHeld, DevGranted, Fields,
              SavePcs, HeldPcs, LockPcs
<1>5. /\ \A n \in DOMAIN DevSeq : HasSaved(k, n) => HasSaved(j, n) \/ n = j.i
      /\ HasCut(k) => HasInfo(j) /\ j.i = Len(DevSeq)
      /\ j.i = Len(DevSeq) /\ HasInfo(j) => \A n \in DOMAIN DevSeq : HasSaved(j, n) \/ n = j.i
  BY <1>0, <1>f DEF HasSaved, HasCut, HasInfo, Fields, HeldPcs
<1> QED
  BY <1>0, <1>1, <1>2, <1>3, <1>4, <1>5, <1>f DEF Fields

\* Where nothing is claimed of a job.
LEMMA JobStays ==
  ASSUME NEW s \in Savers, NEW j, IsJob(s, j)
  PROVE  Keeps(s, j, j) /\ SameVcpus(j, j)
BY DEF Keeps, SameVcpus

-----------------------------------------------------------------------------
(* What a step of one saver leaves to the others.                          *)

\* There are finitely many savers.
LEMMA SaversFinite == IsFiniteSet(Savers) /\ Main \in Savers
<1>1. IsFiniteSet(Savers)
  BY ActorsAssumption, FS_AddElement DEF Savers
<1> QED
  BY <1>1 DEF Savers

\* A set of savers that one joins or leaves.
LEMMA Joins ==
  ASSUME NEW S \in SUBSET Savers, NEW s \in Savers
  PROVE  /\ Cardinality(S) \in Nat
         /\ s \notin S => Cardinality(S \cup {s}) = Cardinality(S) + 1
         /\ s \in S => Cardinality(S \ {s}) = Cardinality(S) - 1 /\ Cardinality(S) > 0
<1>1. IsFiniteSet(S)
  BY SaversFinite, FS_Subset
<1>2. Cardinality(S) \in Nat
  BY <1>1, FS_CardinalityType
<1>3. s \notin S => Cardinality(S \cup {s}) = Cardinality(S) + 1
  BY <1>1, FS_AddElement
<1>4. s \in S => Cardinality(S \ {s}) = Cardinality(S) - 1
  BY <1>1, FS_RemoveElement
<1>5. s \in S => Cardinality(S) > 0
  BY <1>1, <1>2, FS_EmptySet
<1> QED
  BY <1>2, <1>3, <1>4, <1>5

\* Those with a pause of a vcpu within SaveState, when one saver goes on.
LEMMA VmHolders ==
  ASSUME JobsInv, NEW s \in Savers, NEW k, Becomes(s, k), NEW v
  PROVE  /\ Cardinality(VmHolds(v)) \in Nat
         /\ (VmHeld(k, v) <=> VmHeld(job[s], v)) => VmHolds(v)' = VmHolds(v)
         /\ VmHeld(k, v) /\ ~VmHeld(job[s], v) => Cardinality(VmHolds(v)') = Cardinality(VmHolds(v)) + 1
         /\ ~VmHeld(k, v) /\ VmHeld(job[s], v) =>
              Cardinality(VmHolds(v)') = Cardinality(VmHolds(v)) - 1 /\ Cardinality(VmHolds(v)) > 0
<1>1. VmHolds(v) \in SUBSET Savers /\ (s \in VmHolds(v) <=> VmHeld(job[s], v))
  BY DEF VmHolds
<1>2. job'[s] = k /\ \A t \in Savers \ {s} : job'[t] = job[t]
  BY BecomesIs
<1>3. /\ VmHeld(k, v) => VmHolds(v)' = VmHolds(v) \cup {s}
      /\ ~VmHeld(k, v) => VmHolds(v)' = VmHolds(v) \ {s}
  BY <1>2 DEF VmHolds
<1> QED
  BY <1>1, <1>3, Joins

\* Those with one within Reload.
LEMMA OuterHolders ==
  ASSUME JobsInv, NEW s \in Savers, NEW k, Becomes(s, k), NEW v
  PROVE  /\ Cardinality(OuterHolds(v)) \in Nat
         /\ (OuterHeld(k, v) <=> OuterHeld(job[s], v)) => OuterHolds(v)' = OuterHolds(v)
         /\ OuterHeld(k, v) /\ ~OuterHeld(job[s], v) =>
              Cardinality(OuterHolds(v)') = Cardinality(OuterHolds(v)) + 1
         /\ ~OuterHeld(k, v) /\ OuterHeld(job[s], v) =>
              Cardinality(OuterHolds(v)') = Cardinality(OuterHolds(v)) - 1 /\ Cardinality(OuterHolds(v)) > 0
<1>1. OuterHolds(v) \in SUBSET Savers /\ (s \in OuterHolds(v) <=> OuterHeld(job[s], v))
  BY DEF OuterHolds
<1>2. job'[s] = k /\ \A t \in Savers \ {s} : job'[t] = job[t]
  BY BecomesIs
<1>3. /\ OuterHeld(k, v) => OuterHolds(v)' = OuterHolds(v) \cup {s}
      /\ ~OuterHeld(k, v) => OuterHolds(v)' = OuterHolds(v) \ {s}
  BY <1>2 DEF OuterHolds
<1> QED
  BY <1>1, <1>3, Joins

\* Those with a pause of a device.
LEMMA DevHolders ==
  ASSUME JobsInv, NEW s \in Savers, NEW k, Becomes(s, k), NEW n
  PROVE  /\ Cardinality(DevHolds(n)) \in Nat
         /\ (DevHeld(k, n) <=> DevHeld(job[s], n)) => DevHolds(n)' = DevHolds(n)
         /\ DevHeld(k, n) /\ ~DevHeld(job[s], n) => Cardinality(DevHolds(n)') = Cardinality(DevHolds(n)) + 1
         /\ ~DevHeld(k, n) /\ DevHeld(job[s], n) =>
              Cardinality(DevHolds(n)') = Cardinality(DevHolds(n)) - 1 /\ Cardinality(DevHolds(n)) > 0
<1>1. DevHolds(n) \in SUBSET Savers /\ (s \in DevHolds(n) <=> DevHeld(job[s], n))
  BY DEF DevHolds
<1>2. job'[s] = k /\ \A t \in Savers \ {s} : job'[t] = job[t]
  BY BecomesIs
<1>3. /\ DevHeld(k, n) => DevHolds(n)' = DevHolds(n) \cup {s}
      /\ ~DevHeld(k, n) => DevHolds(n)' = DevHolds(n) \ {s}
  BY <1>2 DEF DevHolds
<1> QED
  BY <1>1, <1>3, Joins

\* What has been read of the vcpus stays true, but for the LAPICs that are
\* noted; and so does what has been saved of a device that is not noted.
ReadsKept ==
  /\ late' = [t \in Savers |-> late'[t]]
  /\ \A v \in Vcpus : \A m \in Lapics : Info(WithLapic(cpu'[v], m)) = Info(WithLapic(cpu[v], m))
  /\ \A t \in Savers, v \in Vcpus :
       v \notin late'[t] => v \notin late[t] /\ cpu'[v].lapic = cpu[v].lapic
SavedKept ==
  /\ ticked' = [t \in Savers |-> ticked'[t]]
  /\ \A t \in Savers, d \in KernelDevs :
       d \notin ticked'[t] => AsSaved(d)' \/ (d \notin ticked[t] /\ ~AsSaved(d))

\* What was read is still what the vcpu holds.
LEMMA ReadStays ==
  ASSUME ReadsKept, NEW t \in Savers, NEW v \in Vcpus, NEW info,
         ReadFrom(info, cpu[v], v \in late[t])
  PROVE  ReadFrom(info, cpu'[v], v \in late'[t])
<1>1. PICK l \in Lapics : info = Info(WithLapic(cpu[v], l)) /\ (v \in late[t] \/ l = cpu[v].lapic)
  BY DEF ReadFrom, Info
<1>2. info = Info(WithLapic(cpu'[v], l))
  BY <1>1 DEF ReadsKept
<1>3. v \in late'[t] \/ l = cpu'[v].lapic
  BY <1>1 DEF ReadsKept
<1> QED
  BY <1>2, <1>3 DEF ReadFrom, Info

\* What one saver goes on with, the others keep.
LEMMA ReadFrame ==
  ASSUME JobsInv, InfoInv, SavedInv, NEW s \in Savers, NEW k, Becomes(s, k),
         IsJob(s, k), HasInfo(k) => HasInfo(job[s]) /\ k.info = job[s].info,
         ReadsKept, SavedKept,
         \A n \in DOMAIN DevSeq : HasSaved(k, n) /\ DevSeq[n] \in KernelDevs =>
                                     HasSaved(job[s], n) \/ AsSaved(DevSeq[n])'
  PROVE  JobsInv' /\ InfoInv' /\ SavedInv'
<1>1. job'[s] = k /\ (\A t \in Savers \ {s} : job'[t] = job[t]) /\ job' = [t \in Savers |-> job'[t]]
  BY BecomesIs
<1>2. \A t \in Savers : t # s => t \in Savers \ {s}
  OBVIOUS
<1>3. JobsInv'
  BY <1>1, <1>2 DEF JobsInv
<1>4. InfoInv'
  <2>0. late' = [t \in Savers |-> late'[t]]
    BY DEF ReadsKept
  <2> SUFFICES ASSUME NEW t \in Savers, NEW v \in Vcpus, HasInfo(job'[t])
               PROVE  ReadFrom(job'[t].info[v], cpu'[v], v \in late'[t])
    BY <2>0 DEF InfoInv
  <2>1. HasInfo(job[t]) /\ job'[t].info = job[t].info
    BY <1>1
  <2>2. ReadFrom(job[t].info[v], cpu[v], v \in late[t])
    BY <2>1 DEF InfoInv
  <2> QED
    BY <2>1, <2>2, ReadStays
<1>5. SavedInv'
  <2>0. ticked' = [t \in Savers |-> ticked'[t]]
    BY DEF SavedKept
  <2> SUFFICES ASSUME NEW t \in Savers, NEW n \in DOMAIN DevSeq, HasSaved(job'[t], n),
                      DevSeq[n] \in KernelDevs \ ticked'[t]
               PROVE  AsSaved(DevSeq[n])'
    BY <2>0 DEF SavedInv
  <2>1. HasSaved(job[t], n) \/ AsSaved(DevSeq[n])'
    BY <1>1
  <2>2. AsSaved(DevSeq[n])' \/ (DevSeq[n] \notin ticked[t] /\ ~AsSaved(DevSeq[n]))
    BY DEF SavedKept
  <2>3. HasSaved(job[t], n) /\ DevSeq[n] \notin ticked[t] => AsSaved(DevSeq[n])
    BY DEF SavedInv
  <2> QED
    BY <2>1, <2>2, <2>3
<1> QED
  BY <1>3, <1>4, <1>5

\* Nothing has happened to what has been read or saved.
LEMMA StoreKept ==
  ASSUME InfoInv, SavedInv, UNCHANGED <<cpu, kernel, obj, late, ticked>>
  PROVE  ReadsKept /\ SavedKept
<1>1. ReadsKept
  BY DEF ReadsKept, InfoInv
<1>2. \A d : AsSaved(d)' <=> AsSaved(d)
  BY DEF AsSaved
<1>3. SavedKept
  BY <1>2 DEF SavedKept, SavedInv
<1> QED
  BY <1>1, <1>3

\* Main's cut stays, and of the devices that have not moved the objects do.
LEMMA CutFrame ==
  ASSUME CutInv, FileInv, cut' = cut, file' = file, moved \subseteq moved',
         \A d \in Devs \ moved' : obj'[d] = obj[d],
         HasCut(job'[Main]) => HasCut(job[Main]) /\ job'[Main].info = job[Main].info,
         Encoded(job'[Main]) = Encoded(job[Main])
  PROVE  CutInv' /\ FileInv'
<1>1. CutInv'
  <2> SUFFICES ASSUME HasCut(job'[Main]) PROVE IsCut'
    BY DEF CutInv
  <2>1. IsCut
    BY DEF CutInv
  <2> QED
    BY <2>1 DEF IsCut
<1>2. FileInv'
  BY DEF FileInv
<1> QED
  BY <1>1, <1>2

\* What a saver has come by, when main is it or another.
LEMMA MainKeeps ==
  ASSUME JobsInv, NEW s \in Savers, NEW k, Becomes(s, k),
         s = Main => /\ HasCut(k) => HasCut(job[s]) /\ k.info = job[s].info
                     /\ Encoded(k) = Encoded(job[s])
  PROVE  /\ HasCut(job'[Main]) => HasCut(job[Main]) /\ job'[Main].info = job[Main].info
         /\ Encoded(job'[Main]) = Encoded(job[Main])
<1>1. job'[s] = k /\ \A t \in Savers \ {s} : job'[t] = job[t]
  BY BecomesIs
<1>2. CASE Main = s
  BY <1>1, <1>2
<1>3. CASE Main # s
  BY <1>1, <1>3, SaversFinite
<1> QED
  BY <1>2, <1>3

\* The job keeps what it had, and the data stay.
LEMMA JobFrame ==
  ASSUME JobsInv, InfoInv, SavedInv, CutInv, FileInv, NEW s \in Savers, NEW k, Becomes(s, k),
         Keeps(s, job[s], k), UNCHANGED <<store, file, ghost>>
  PROVE  JobsInv' /\ InfoInv' /\ SavedInv' /\ CutInv' /\ FileInv'
<1>1. /\ cpu' = cpu /\ kernel' = kernel /\ obj' = obj /\ file' = file /\ cut' = cut /\ moved' = moved
      /\ late' = late /\ ticked' = ticked
  BY DEF store, ghost, since
<1>2. JobsInv' /\ InfoInv' /\ SavedInv'
  <2>1. ReadsKept /\ SavedKept
    BY <1>1, StoreKept
  <2> QED
    BY <2>1, ReadFrame DEF Keeps
<1>3. /\ HasCut(job'[Main]) => HasCut(job[Main]) /\ job'[Main].info = job[Main].info
      /\ Encoded(job'[Main]) = Encoded(job[Main])
  BY MainKeeps DEF Keeps
<1>4. CutInv' /\ FileInv'
  BY <1>1, <1>3, CutFrame
<1> QED
  BY <1>2, <1>4

\* The job has the pauses of vcpus it had.
LEMMA VcpuFrame ==
  ASSUME JobsInv, VcpuCountInv, ParkedInv, NEW s \in Savers, NEW k, Becomes(s, k),
         SameVcpus(job[s], k), UNCHANGED <<vcpu, vpaused>>
  PROVE  VcpuCountInv' /\ ParkedInv'
<1>1. job'[s] = k /\ \A t \in Savers \ {s} : job'[t] = job[t]
  BY BecomesIs
<1>2. \A v \in Vcpus : VmHolds(v)' = VmHolds(v) /\ OuterHolds(v)' = OuterHolds(v)
  BY VmHolders, OuterHolders DEF SameVcpus
<1>3. VcpuCountInv'
  BY <1>2 DEF VcpuCountInv
<1>4. ParkedInv'
  <2> SUFFICES ASSUME NEW t \in Savers, NEW v \in Vcpus, Granted(job'[t], v)
               PROVE  vcpu'[v] = "parked"
    BY DEF ParkedInv
  <2>1. Granted(job[t], v)
    BY <1>1 DEF SameVcpus
  <2> QED
    BY <2>1 DEF ParkedInv
<1> QED
  BY <1>3, <1>4

\* The job has the pauses of devices it had.
LEMMA DevFrame ==
  ASSUME JobsInv, WaitInv, DevCountInv, LockedInv, NEW s \in Savers, NEW k, Becomes(s, k),
         SameDevices(job[s], k), UNCHANGED gate
  PROVE  WaitInv' /\ DevCountInv' /\ LockedInv'
<1>1. job'[s] = k /\ \A t \in Savers \ {s} : job'[t] = job[t]
  BY BecomesIs
<1>2. \A n \in DOMAIN DevSeq : DevHolds(n)' = DevHolds(n)
  BY DevHolders DEF SameDevices
<1>3. DevCountInv'
  BY <1>2 DEF DevCountInv
<1>4. WaitInv'
  <2> SUFFICES ASSUME NEW t \in Savers, job'[t].pc \in LockPcs
               PROVE  gate'[DevSeq[job'[t].i]].mutex = t
    BY DEF WaitInv
  <2>1. t # s
    BY <1>1 DEF SameDevices
  <2> QED
    BY <1>1, <2>1 DEF WaitInv
<1>5. LockedInv'
  <2> SUFFICES ASSUME NEW t \in Savers, NEW n \in DOMAIN DevSeq, DevGranted(job'[t], n)
               PROVE  gate'[DevSeq[n]].lock = "locked"
    BY DEF LockedInv
  <2>1. DevGranted(job[t], n)
    BY <1>1 DEF SameDevices
  <2> QED
    BY <2>1 DEF LockedInv
<1> QED
  BY <1>3, <1>4, <1>5

-----------------------------------------------------------------------------
(* The steps of a saver.                                                   *)

\* Nothing but the job changes.
LEMMA JobOnly ==
  ASSUME RunInv, NEW s \in Savers, NEW k, Becomes(s, k), Keeps(s, job[s], k), SameVcpus(job[s], k),
         SameDevices(job[s], k), UNCHANGED <<phase, gates, store, file, ghost>>
  PROVE  RunInv'
<1>1. JobsInv' /\ InfoInv' /\ SavedInv' /\ CutInv' /\ FileInv'
  BY JobFrame DEF RunInv
<1>2. VcpuCountInv' /\ ParkedInv'
  BY VcpuFrame DEF RunInv, gates
<1>3. WaitInv' /\ DevCountInv' /\ LockedInv'
  BY DevFrame DEF RunInv, gates
<1>4. ServeInv' /\ GateInv' /\ StoreInv' /\ phase' = "running"
  BY DEF RunInv, gates, store, ServeInv, GateInv, StoreInv
<1> QED
  BY <1>1, <1>2, <1>3, <1>4 DEF RunInv

\* A call begins.
LEMMA StartStep ==
  ASSUME RunInv, NEW s \in Savers, NEW op \in (IF s = Main THEN {"restart"} ELSE {"state", "reload"}),
         Start(s, op)
  PROVE  RunInv'
<1> DEFINE k == Job(op, IF op = "reload" THEN "outer" ELSE "vmPause", 1, Nil, "nil")
<1>1. IsJob(s, job[s]) /\ job[s].pc = "idle" /\ Becomes(s, k) /\ UNCHANGED <<phase, gates, store, file, ghost>>
  BY DEF Start, RunInv, JobsInv, IdleJob, Job
<1> HIDE DEF k
<1>2. Keeps(s, job[s], k) /\ SameVcpus(job[s], k) /\ SameDevices(job[s], k)
  BY <1>1, StartJob DEF k
<1> QED
  BY <1>1, <1>2, JobOnly

\* Vcpu.Pause counts its pause, or fails and leaves its count.
LEMMA PauseVcpuStep ==
  ASSUME RunInv, NEW s \in Savers, PauseVcpu(s)
  PROVE  RunInv'
<1> DEFINE j == job[s]
<1>0. JobsInv /\ VcpuCountInv /\ ParkedInv /\ IsJob(s, j) /\ j.pc \in {"outer", "vmPause"}
  BY DEF RunInv, JobsInv, PauseVcpu
<1>u. UNCHANGED <<phase, vcpu, gate, busy, store, file, ghost>>
  BY DEF PauseVcpu
<1>f. ASSUME NEW k, Becomes(s, k), Keeps(s, j, k), SameDevices(j, k), VcpuCountInv',
             \A v \in Vcpus : Granted(k, v) => Granted(j, v)
      PROVE  RunInv'
  <2>1. JobsInv' /\ InfoInv' /\ SavedInv' /\ CutInv' /\ FileInv'
    BY <1>f, <1>u, JobFrame DEF RunInv
  <2>2. WaitInv' /\ DevCountInv' /\ LockedInv'
    BY <1>f, <1>u, DevFrame DEF RunInv
  <2>3. ServeInv' /\ GateInv' /\ StoreInv' /\ phase' = "running"
    BY <1>u DEF RunInv, store, ServeInv, GateInv, StoreInv
  <2>4. ParkedInv'
    <3>1. job'[s] = k /\ \A t \in Savers \ {s} : job'[t] = job[t]
      BY <1>0, <1>f, BecomesIs
    <3> SUFFICES ASSUME NEW t \in Savers, NEW v \in Vcpus, Granted(job'[t], v)
                 PROVE  vcpu'[v] = "parked"
      BY DEF ParkedInv
    <3>2. Granted(job[t], v)
      BY <1>f, <3>1
    <3> QED
      BY <1>0, <1>u, <3>2 DEF ParkedInv
  <2> QED
    BY <1>f, <2>1, <2>2, <2>3, <2>4 DEF RunInv
<1>1. CASE /\ vpaused' = [vpaused EXCEPT ![j.i] = @ + 1]
           /\ Becomes(s, Job(j.op, IF j.pc = "outer" THEN "outerWait" ELSE "vmWait", j.i, j.info, j.err))
  <2> DEFINE k == Job(j.op, IF j.pc = "outer" THEN "outerWait" ELSE "vmWait", j.i, j.info, j.err)
  <2>0. Becomes(s, k)
    BY <1>1
  <2>1. /\ Keeps(s, j, k) /\ SameDevices(j, k)
        /\ \A v \in Vcpus :
             /\ VmHeld(k, v) <=> VmHeld(j, v) \/ (j.pc = "vmPause" /\ v = j.i)
             /\ OuterHeld(k, v) <=> OuterHeld(j, v) \/ (j.pc = "outer" /\ v = j.i)
             /\ Granted(k, v) => Granted(j, v)
        /\ j.i \in Vcpus
        /\ j.pc = "vmPause" => ~VmHeld(j, j.i)
        /\ j.pc = "outer" => ~OuterHeld(j, j.i)
    BY <1>0, PauseVcpuJob
  <2> HIDE DEF k, j
  <2>2. VcpuCountInv'
    <3>1. vpaused' \in [Vcpus -> Nat]
      BY <1>0, <1>1, <2>1 DEF VcpuCountInv
    <3>2. ASSUME NEW v \in Vcpus
          PROVE  (Cardinality(VmHolds(v)) + Cardinality(OuterHolds(v)))' <= vpaused'[v]
      <4>1. /\ Cardinality(VmHolds(v)) \in Nat /\ Cardinality(OuterHolds(v)) \in Nat
            /\ Cardinality(VmHolds(v)) + Cardinality(OuterHolds(v)) <= vpaused[v] /\ vpaused[v] \in Nat
        BY <1>0, <2>0, VmHolders, OuterHolders DEF VcpuCountInv
      <4>2. CASE v # j.i
        <5>1. VmHolds(v)' = VmHolds(v) /\ OuterHolds(v)' = OuterHolds(v)
          BY <1>0, <2>0, <2>1, <4>2, VmHolders, OuterHolders DEF j
        <5> QED
          BY <1>0, <1>1, <4>1, <4>2, <5>1 DEF VcpuCountInv
      <4>3. CASE v = j.i /\ j.pc = "vmPause"
        <5>1. Cardinality(VmHolds(v)') = Cardinality(VmHolds(v)) + 1 /\ OuterHolds(v)' = OuterHolds(v)
          BY <1>0, <2>0, <2>1, <4>3, VmHolders, OuterHolders DEF j
        <5> QED
          BY <1>0, <1>1, <4>1, <4>3, <5>1 DEF VcpuCountInv
      <4>4. CASE v = j.i /\ j.pc = "outer"
        <5>1. Cardinality(OuterHolds(v)') = Cardinality(OuterHolds(v)) + 1 /\ VmHolds(v)' = VmHolds(v)
          BY <1>0, <2>0, <2>1, <4>4, VmHolders, OuterHolders DEF j
        <5> QED
          BY <1>0, <1>1, <4>1, <4>4, <5>1 DEF VcpuCountInv
      <4> QED
        BY <1>0, <4>2, <4>3, <4>4
    <3> QED
      BY <3>1, <3>2 DEF VcpuCountInv
  <2> QED
    BY <1>f, <2>0, <2>1, <2>2
<1>2. CASE /\ vpaused[j.i] = 0
           /\ vpaused' = [u \in Vcpus |-> IF u = j.i THEN 1
                                          ELSE IF u < j.i THEN vpaused[u] - 1 ELSE vpaused[u]]
           /\ Fails(s, IF At(s, "vmPause") /\ job[s].op = "reload" THEN "outerUnpause" ELSE "idle")
  <2> DEFINE k == FailedJob(j, IF j.pc = "vmPause" /\ j.op = "reload" THEN "outerUnpause" ELSE "idle")
  <2>0. Becomes(s, k)
    BY <1>2 DEF Fails, At
  <2>1. /\ Keeps(s, j, k) /\ SameDevices(j, k)
        /\ \A v \in Vcpus :
             /\ VmHeld(k, v) <=> VmHeld(j, v) /\ ~(j.pc = "vmPause" /\ v < j.i)
             /\ OuterHeld(k, v) <=> OuterHeld(j, v) /\ ~(j.pc = "outer" /\ v < j.i)
             /\ Granted(k, v) => Granted(j, v)
        /\ j.i \in Vcpus
        /\ j.pc = "vmPause" => ~VmHeld(j, j.i)
        /\ j.pc = "outer" => ~OuterHeld(j, j.i)
    BY <1>0, PauseVcpuFails
  <2>3. \A v \in Vcpus : v < j.i => IF j.pc = "vmPause" THEN VmHeld(j, v) ELSE OuterHeld(j, v)
    BY <1>0 DEF IsJob, VmHeld, OuterHeld, SavePcs, HeldPcs, OuterPcs
  <2> HIDE DEF k, j
  <2>2. VcpuCountInv'
    <3>0. \A v \in Vcpus : v \in Nat
      BY Numbers
    <3>2. ASSUME NEW v \in Vcpus
          PROVE  /\ vpaused'[v] \in Nat
                 /\ (Cardinality(VmHolds(v)) + Cardinality(OuterHolds(v)))' <= vpaused'[v]
      <4>1. /\ Cardinality(VmHolds(v)) \in Nat /\ Cardinality(OuterHolds(v)) \in Nat
            /\ Cardinality(VmHolds(v)) + Cardinality(OuterHolds(v)) <= vpaused[v] /\ vpaused[v] \in Nat
        BY <1>0, <2>0, VmHolders, OuterHolders DEF VcpuCountInv
      <4>2. CASE ~(v < j.i)
        <5>1. VmHolds(v)' = VmHolds(v) /\ OuterHolds(v)' = OuterHolds(v)
          BY <1>0, <2>0, <2>1, <4>2, VmHolders, OuterHolders DEF j
        <5> QED
          BY <1>2, <4>1, <4>2, <5>1
      <4>3. CASE v < j.i /\ j.pc = "vmPause"
        <5>1. /\ Cardinality(VmHolds(v)') = Cardinality(VmHolds(v)) - 1 /\ Cardinality(VmHolds(v)) > 0
              /\ OuterHolds(v)' = OuterHolds(v)
          BY <1>0, <2>0, <2>1, <2>3, <4>3, VmHolders, OuterHolders DEF j
        <5>2. vpaused'[v] = vpaused[v] - 1
          BY <1>2, <2>1, <3>0, <4>3
        <5> QED
          BY <4>1, <5>1, <5>2
      <4>4. CASE v < j.i /\ j.pc = "outer"
        <5>1. /\ Cardinality(OuterHolds(v)') = Cardinality(OuterHolds(v)) - 1 /\ Cardinality(OuterHolds(v)) > 0
              /\ VmHolds(v)' = VmHolds(v)
          BY <1>0, <2>0, <2>1, <2>3, <4>4, VmHolders, OuterHolders DEF j
        <5>2. vpaused'[v] = vpaused[v] - 1
          BY <1>2, <2>1, <3>0, <4>4
        <5> QED
          BY <4>1, <5>1, <5>2
      <4> QED
        BY <1>0, <4>2, <4>3, <4>4
    <3> QED
      BY <1>2, <3>2 DEF VcpuCountInv
  <2> QED
    BY <1>f, <2>0, <2>1, <2>2
<1> QED
  BY <1>1, <1>2 DEF PauseVcpu, At

\* Vcpu.Pause returns: the vcpu is parked.
LEMMA VcpuPausedStep ==
  ASSUME RunInv, NEW s \in Savers, VcpuPaused(s)
  PROVE  RunInv'
<1> DEFINE j == job[s]
           k == IF j.pc = "outerWait" THEN LoopedJob(j, Cardinality(Vcpus), "outer", "vmPause")
                ELSE LoopedJob(j, Cardinality(Vcpus), "vmPause", "vcpuInfo")
<1>0. JobsInv /\ VcpuCountInv /\ ParkedInv /\ IsJob(s, j) /\ j.pc \in {"outerWait", "vmWait"}
  BY DEF RunInv, JobsInv, VcpuPaused
<1>u. UNCHANGED <<phase, gates, store, file, ghost>> /\ vcpu[j.i] = "parked"
  BY DEF VcpuPaused
<1>1. Becomes(s, k)
  BY DEF VcpuPaused, Loops, At
<1>2. /\ Keeps(s, j, k) /\ SameDevices(j, k)
      /\ \A v \in Vcpus : /\ VmHeld(k, v) <=> VmHeld(j, v)
                          /\ OuterHeld(k, v) <=> OuterHeld(j, v)
                          /\ Granted(k, v) => Granted(j, v) \/ v = j.i
  BY <1>0, VcpuPausedJob
<1> HIDE DEF k
<1>3. JobsInv' /\ InfoInv' /\ SavedInv' /\ CutInv' /\ FileInv'
  BY <1>1, <1>2, <1>u, JobFrame DEF RunInv
<1>4. WaitInv' /\ DevCountInv' /\ LockedInv'
  BY <1>1, <1>2, <1>u, DevFrame DEF RunInv, gates
<1>5. ServeInv' /\ GateInv' /\ StoreInv' /\ phase' = "running"
  BY <1>u DEF RunInv, gates, store, ServeInv, GateInv, StoreInv
<1>6. VcpuCountInv'
  <2>1. \A v \in Vcpus : VmHolds(v)' = VmHolds(v) /\ OuterHolds(v)' = OuterHolds(v)
    BY <1>0, <1>1, <1>2, VmHolders, OuterHolders
  <2> QED
    BY <1>0, <1>u, <2>1 DEF VcpuCountInv, gates
<1>7. ParkedInv'
  <2>1. job'[s] = k /\ \A t \in Savers \ {s} : job'[t] = job[t]
    BY <1>0, <1>1, BecomesIs
  <2> SUFFICES ASSUME NEW t \in Savers, NEW v \in Vcpus, Granted(job'[t], v)
               PROVE  vcpu'[v] = "parked"
    BY DEF ParkedInv
  <2>2. Granted(job[t], v) \/ v = j.i
    BY <1>2, <2>1
  <2> QED
    BY <1>0, <1>u, <2>2 DEF ParkedInv, gates
<1> QED
  BY <1>3, <1>4, <1>5, <1>6, <1>7 DEF RunInv

\* Vcpu.Unpause takes its pause back.
LEMMA UnpauseVcpuStep ==
  ASSUME RunInv, NEW s \in Savers, UnpauseVcpu(s)
  PROVE  RunInv'
<1> DEFINE j == job[s]
           to == IF j.pc = "outerUnpause" THEN "idle"
                 ELSE IF j.op = "reload" THEN (IF j.err = "nil" THEN "loadVcpus" ELSE "outerUnpause")
                 ELSE IF j.op = "restart" /\ j.err = "nil" THEN "encode" ELSE "idle"
           k == LoopedJob(j, Cardinality(Vcpus), j.pc, to)
<1>0. JobsInv /\ VcpuCountInv /\ ParkedInv /\ IsJob(s, j) /\ j.pc \in {"vmUnpause", "outerUnpause"}
  BY DEF RunInv, JobsInv, UnpauseVcpu
<1>u. UNCHANGED <<phase, vcpu, gate, busy, store, file, ghost>> /\ vpaused' = [vpaused EXCEPT ![j.i] = @ - 1]
  BY DEF UnpauseVcpu
<1>1. Becomes(s, k)
  <2>1. (IF At(s, "vmUnpause") THEN Returned(s) ELSE "idle") = to
    BY <1>0 DEF At, Returned
  <2> QED
    BY <2>1, Zenon DEF UnpauseVcpu, Loops
<1> HIDE DEF to
<1>2. /\ Keeps(s, j, k) /\ SameDevices(j, k)
      /\ \A v \in Vcpus :
           /\ VmHeld(k, v) <=> VmHeld(j, v) /\ ~(j.pc = "vmUnpause" /\ v = j.i)
           /\ OuterHeld(k, v) <=> OuterHeld(j, v) /\ ~(j.pc = "outerUnpause" /\ v = j.i)
           /\ Granted(k, v) => Granted(j, v)
      /\ j.i \in Vcpus
      /\ j.pc = "vmUnpause" => VmHeld(j, j.i)
      /\ j.pc = "outerUnpause" => OuterHeld(j, j.i)
  BY <1>0, UnpauseVcpuJob DEF to
<1> HIDE DEF k
<1>3. JobsInv' /\ InfoInv' /\ SavedInv' /\ CutInv' /\ FileInv'
  BY <1>1, <1>2, <1>u, JobFrame DEF RunInv
<1>4. WaitInv' /\ DevCountInv' /\ LockedInv'
  BY <1>1, <1>2, <1>u, DevFrame DEF RunInv
<1>5. ServeInv' /\ GateInv' /\ StoreInv' /\ phase' = "running"
  BY <1>u DEF RunInv, store, ServeInv, GateInv, StoreInv
<1>6. ParkedInv'
  <2>1. job'[s] = k /\ \A t \in Savers \ {s} : job'[t] = job[t]
    BY <1>0, <1>1, BecomesIs
  <2> SUFFICES ASSUME NEW t \in Savers, NEW v \in Vcpus, Granted(job'[t], v)
               PROVE  vcpu'[v] = "parked"
    BY DEF ParkedInv
  <2>2. Granted(job[t], v)
    BY <1>2, <2>1
  <2> QED
    BY <1>0, <1>u, <2>2 DEF ParkedInv
<1>7. VcpuCountInv'
  <2> HIDE DEF j
  <2>1. ASSUME NEW v \in Vcpus
        PROVE  /\ vpaused'[v] \in Nat
               /\ (Cardinality(VmHolds(v)) + Cardinality(OuterHolds(v)))' <= vpaused'[v]
    <3>1. /\ Cardinality(VmHolds(v)) \in Nat /\ Cardinality(OuterHolds(v)) \in Nat
          /\ Cardinality(VmHolds(v)) + Cardinality(OuterHolds(v)) <= vpaused[v] /\ vpaused[v] \in Nat
      BY <1>0, <1>1, VmHolders, OuterHolders DEF VcpuCountInv
    <3>2. vpaused'[v] = IF v = j.i THEN vpaused[v] - 1 ELSE vpaused[v]
      BY <1>0, <1>u DEF VcpuCountInv
    <3>3. CASE v # j.i
      <4>1. VmHolds(v)' = VmHolds(v) /\ OuterHolds(v)' = OuterHolds(v)
        BY <1>0, <1>1, <1>2, <3>3, VmHolders, OuterHolders DEF j
      <4> QED
        BY <3>1, <3>2, <3>3, <4>1
    <3>4. CASE v = j.i /\ j.pc = "vmUnpause"
      <4>1. /\ Cardinality(VmHolds(v)') = Cardinality(VmHolds(v)) - 1 /\ Cardinality(VmHolds(v)) > 0
            /\ OuterHolds(v)' = OuterHolds(v)
        BY <1>0, <1>1, <1>2, <3>4, VmHolders, OuterHolders DEF j
      <4> QED
        BY <3>1, <3>2, <3>4, <4>1
    <3>5. CASE v = j.i /\ j.pc = "outerUnpause"
      <4>1. /\ Cardinality(OuterHolds(v)') = Cardinality(OuterHolds(v)) - 1 /\ Cardinality(OuterHolds(v)) > 0
            /\ VmHolds(v)' = VmHolds(v)
        BY <1>0, <1>1, <1>2, <3>5, VmHolders, OuterHolders DEF j
      <4> QED
        BY <3>1, <3>2, <3>5, <4>1
    <3> QED
      BY <1>0, <3>3, <3>4, <3>5
  <2>2. vpaused' = [v \in Vcpus |-> vpaused'[v]]
    BY <1>0, <1>u DEF VcpuCountInv
  <2> QED
    BY <2>1, <2>2 DEF VcpuCountInv
<1> QED
  BY <1>3, <1>4, <1>5, <1>6, <1>7 DEF RunInv

\* Vm.VcpuInfo reads the vcpus, or fails.
LEMMA VcpuInfoStep ==
  ASSUME RunInv, NEW s \in Savers, VcpuInfo(s)
  PROVE  RunInv'
<1> DEFINE j == job[s]
           info == [v \in Vcpus |-> NewVcpuInfo(cpu[v], MsrList)]
           k == Job(j.op, "modelPause", 1, info, j.err)
<1>0. JobsInv /\ IsJob(s, j) /\ j.pc = "vcpuInfo"
  BY DEF RunInv, JobsInv, VcpuInfo, At
<1>u. UNCHANGED <<phase, gates, store, file, cut, moved, ticked>>
  BY DEF VcpuInfo
<1>1. CASE Becomes(s, FailedJob(j, "vmUnpause")) /\ late' = late
  <2> DEFINE f == FailedJob(j, "vmUnpause")
  <2>1. Becomes(s, f)
    BY <1>1
  <2>2. Keeps(s, j, f) /\ SameVcpus(j, f) /\ SameDevices(j, f)
    BY <1>0, VcpuInfoFails
  <2> HIDE DEF f
  <2> QED
    BY <1>u, <1>1, <2>1, <2>2, JobOnly DEF ghost, since
<1>2. CASE Becomes(s, k) /\ late' = [late EXCEPT ![s] = {}]
  <2>1. info = [v \in Vcpus |-> Info(cpu[v])]
    BY DEF Info
  <2> HIDE DEF info
  <2>2. k = [op |-> j.op, pc |-> "modelPause", i |-> 1, info |-> info, err |-> j.err]
    BY DEF Job
  <2> HIDE DEF k
  <2>3. /\ k = [op |-> k.op, pc |-> k.pc, i |-> k.i, info |-> k.info, err |-> k.err]
        /\ k.op = j.op /\ k.pc = "modelPause" /\ k.i = 1 /\ k.info = info /\ k.err = j.err
    BY <2>2
  <2>4. IsJob(s, k)
    BY <1>0, <2>3, Numbers DEF IsJob, SavePcs, HeldPcs, OuterPcs, LockPcs
  <2>5. SameVcpus(j, k)
    BY <1>0, <2>3 DEF SameVcpus, VmHeld, OuterHeld, Granted, SavePcs, HeldPcs
  <2>6. SameDevices(j, k)
    BY <1>0, <2>3, Numbers DEF SameDevices, DevHeld, DevGranted, LockPcs
  <2>7. VcpuCountInv' /\ ParkedInv'
    BY <1>2, <1>u, <2>5, VcpuFrame DEF RunInv, gates
  <2>8. WaitInv' /\ DevCountInv' /\ LockedInv'
    BY <1>2, <1>u, <2>6, DevFrame DEF RunInv, gates
  <2>9. ServeInv' /\ GateInv' /\ StoreInv' /\ phase' = "running"
    BY <1>u DEF RunInv, gates, store, ServeInv, GateInv, StoreInv
  <2>10. job'[s] = k /\ (\A t \in Savers \ {s} : job'[t] = job[t]) /\ job' = [t \in Savers |-> job'[t]]
    BY <1>0, <1>2, BecomesIs
  <2>11. /\ cpu' = cpu /\ kernel' = kernel /\ obj' = obj /\ file' = file /\ cut' = cut /\ moved' = moved
         /\ ticked' = ticked
    BY <1>u DEF store
  <2>12. JobsInv'
    BY <1>0, <2>4, <2>10 DEF JobsInv
  <2>13. InfoInv'
    <3>0. /\ late' = [t \in Savers |-> late'[t]] /\ \A t \in Savers \ {s} : late'[t] = late[t]
      BY <1>2 DEF RunInv, InfoInv
    <3> SUFFICES ASSUME NEW t \in Savers, NEW v \in Vcpus, HasInfo(job'[t])
                 PROVE  ReadFrom(job'[t].info[v], cpu'[v], v \in late'[t])
      BY <3>0 DEF InfoInv
    <3>1. CASE t = s
      <4>1. IsCpu(cpu[v]) /\ cpu[v].lapic \in Lapics
        BY DEF RunInv, StoreInv
      <4>2. WithLapic(cpu[v], cpu[v].lapic) = cpu[v]
        BY <4>1, LapicAgain
      <4>3. job'[t].info[v] = Info(WithLapic(cpu[v], cpu[v].lapic))
        BY <2>1, <2>3, <2>10, <3>1, <4>2
      <4> QED
        BY <2>11, <4>1, <4>3 DEF ReadFrom, Info
    <3>2. CASE t # s
      BY <2>10, <2>11, <3>0, <3>2 DEF InfoInv, RunInv
    <3> QED
      BY <3>1, <3>2
  <2>14. (\A n : ~HasSaved(k, n)) /\ ~HasCut(k) /\ Encoded(k) = Encoded(j)
    BY <1>0, <2>3 DEF HasSaved, HasCut, Encoded
  <2>15. SavedInv'
    <3>1. \A d : AsSaved(d)' <=> AsSaved(d)
      BY <2>11 DEF AsSaved
    <3> SUFFICES ASSUME NEW t \in Savers, NEW n \in DOMAIN DevSeq, HasSaved(job'[t], n),
                        DevSeq[n] \in KernelDevs \ ticked'[t]
                 PROVE  AsSaved(DevSeq[n])
      BY <2>11, <3>1 DEF SavedInv, RunInv
    <3>2. t # s
      BY <2>10, <2>14
    <3> QED
      BY <2>10, <2>11, <3>2 DEF SavedInv, RunInv
  <2>16. /\ HasCut(job'[Main]) => HasCut(job[Main]) /\ job'[Main].info = job[Main].info
         /\ Encoded(job'[Main]) = Encoded(job[Main])
    <3>1. CASE Main = s
      BY <2>10, <2>14, <3>1
    <3>2. CASE Main # s
      BY <2>10, <3>2, SaversFinite
    <3> QED
      BY <3>1, <3>2
  <2>17. CutInv'
    BY <2>11, <2>16 DEF CutInv, IsCut, RunInv
  <2>18. FileInv'
    BY <2>11, <2>16 DEF FileInv, RunInv
  <2> QED
    BY <2>7, <2>8, <2>9, <2>12, <2>13, <2>15, <2>17, <2>18 DEF RunInv
<1> QED
  BY <1>1, <1>2 DEF VcpuInfo, Fails

\* What a gate may be.
GoodGate(d, p, b, l, x) ==
  /\ p \in Nat /\ b \in BOOLEAN /\ x \in Savers \cup {Nobody}
  /\ x # Nobody => l = "waiting" /\ (p > 0 \/ b)
  /\ x = Nobody /\ (p > 0 \/ b) => l = "locked"
  /\ x = Nobody /\ ~(p > 0 \/ b) => l = "free"
  /\ l = "locked" => busy[d] = Nobody
SetsGate(d, p, b, l, x) == gate' = [gate EXCEPT ![d] = Gate(p, b, l, x)] /\ busy' = busy

\* A gate that is replaced.
LEMMA GateStep ==
  ASSUME GateInv, NEW d \in Devs, NEW p, NEW b, NEW l, NEW x, GoodGate(d, p, b, l, x),
         SetsGate(d, p, b, l, x)
  PROVE  /\ GateInv'
         /\ gate'[d].paused = p /\ gate'[d].lock = l /\ gate'[d].mutex = x
         /\ \A e \in Devs \ {d} : gate'[e] = gate[e]
<1>1. /\ p \in Nat /\ b \in BOOLEAN /\ x \in Savers \cup {Nobody} /\ l \in {"free", "waiting", "locked"}
      /\ x # Nobody => l = "waiting" /\ (p > 0 \/ b)
      /\ x = Nobody /\ (p > 0 \/ b) => l = "locked"
      /\ x = Nobody /\ ~(p > 0 \/ b) => l = "free"
      /\ l = "locked" => busy[d] = Nobody
  BY DEF GoodGate
<1>2. Gate(p, b, l, x) \in [paused : Nat, manual : BOOLEAN, lock : {"free", "waiting", "locked"},
                            mutex : Savers \cup {Nobody}]
  BY <1>1 DEF Gate
<1>3. gate \in [Devs -> [paused : Nat, manual : BOOLEAN, lock : {"free", "waiting", "locked"},
                         mutex : Savers \cup {Nobody}]]
  BY DEF GateInv
<1>4. gate'[d] = Gate(p, b, l, x)
  BY <1>3 DEF SetsGate
<1>5. gate'[d].paused = p /\ (gate'[d].manual <=> b) /\ gate'[d].lock = l /\ gate'[d].mutex = x
  BY <1>1, <1>4 DEF Gate
<1>6. \A e \in Devs \ {d} : gate'[e] = gate[e]
  BY <1>3 DEF SetsGate
<1>7. gate' \in [Devs -> [paused : Nat, manual : BOOLEAN, lock : {"free", "waiting", "locked"},
                          mutex : Savers \cup {Nobody}]]
  BY <1>2, <1>3 DEF SetsGate
<1>8. GateInv'
  <2> SUFFICES ASSUME NEW e \in Devs
               PROVE  /\ gate'[e].lock = IF gate'[e].mutex # Nobody THEN "waiting"
                                         ELSE IF gate'[e].paused > 0 \/ gate'[e].manual THEN "locked" ELSE "free"
                      /\ gate'[e].mutex # Nobody => gate'[e].paused > 0 \/ gate'[e].manual
                      /\ gate'[e].lock = "locked" => busy'[e] = Nobody
    BY <1>7 DEF GateInv
  <2>1. CASE e = d
    BY <1>1, <1>5, <2>1 DEF SetsGate
  <2>2. CASE e # d
    BY <1>6, <2>2 DEF GateInv, SetsGate
  <2> QED
    BY <2>1, <2>2
<1> QED
  BY <1>5, <1>6, <1>8

\* A step of one saver at one device.
LEMMA DevChange ==
  ASSUME JobsInv, WaitInv, DevCountInv, LockedInv, NEW s \in Savers, NEW k, Becomes(s, k),
         NEW m \in DOMAIN DevSeq,
         \A e \in Devs \ {DevSeq[m]} : gate'[e] = gate[e],
         gate[DevSeq[m]].mutex \in {s, Nobody},
         k.pc \in LockPcs => k.i = m /\ gate'[DevSeq[m]].mutex = s,
         \A n \in DOMAIN DevSeq \ {m} : /\ DevHeld(k, n) <=> DevHeld(job[s], n)
                                        /\ DevGranted(k, n) => DevGranted(job[s], n),
         Cardinality(DevHolds(m)') <= gate'[DevSeq[m]].paused,
         gate'[DevSeq[m]].lock # "locked" => \A t \in Savers : ~DevGranted(job'[t], m)
  PROVE  WaitInv' /\ DevCountInv' /\ LockedInv'
<1> DEFINE d == DevSeq[m]
<1>0. d \in Devs /\ \A n \in DOMAIN DevSeq : DevSeq[n] \in Devs /\ (n # m => DevSeq[n] # d)
  BY Numbers
<1>1. job'[s] = k /\ \A t \in Savers \ {s} : job'[t] = job[t]
  BY BecomesIs
<1>2. /\ \A e \in Devs \ {d} : gate'[e] = gate[e]
      /\ gate[d].mutex \in {s, Nobody}
      /\ k.pc \in LockPcs => k.i = m /\ gate'[d].mutex = s
      /\ Cardinality(DevHolds(m)') <= gate'[d].paused
      /\ gate'[d].lock # "locked" => \A t \in Savers : ~DevGranted(job'[t], m)
  OBVIOUS
<1>5. WaitInv'
  <2> SUFFICES ASSUME NEW t \in Savers, job'[t].pc \in LockPcs
               PROVE  gate'[DevSeq[job'[t].i]].mutex = t
    BY DEF WaitInv
  <2>1. CASE t = s
    BY <1>1, <1>2, <2>1
  <2>2. CASE t # s
    <3>1. gate[DevSeq[job[t].i]].mutex = t /\ job'[t] = job[t]
      BY <1>1, <2>2 DEF WaitInv
    <3>2. DevSeq[job[t].i] \in Devs /\ DevSeq[job[t].i] # d
      <4>1. job[t].i \in DOMAIN DevSeq
        BY <3>1 DEF JobsInv, IsJob, LockPcs
      <4>2. t # Nobody
        BY ActorsAssumption DEF Savers
      <4> QED
        BY <1>0, <1>2, <2>2, <3>1, <4>1, <4>2
    <3> QED
      BY <1>2, <3>1, <3>2
  <2> QED
    BY <2>1, <2>2
<1>6. DevCountInv'
  <2> SUFFICES ASSUME NEW n \in DOMAIN DevSeq
               PROVE  Cardinality(DevHolds(n)') <= gate'[DevSeq[n]].paused
    BY DEF DevCountInv
  <2>1. CASE n = m
    BY <1>2, <2>1
  <2>2. CASE n # m
    <3>1. DevHolds(n)' = DevHolds(n)
      BY <2>2, DevHolders
    <3>2. gate'[DevSeq[n]] = gate[DevSeq[n]]
      BY <1>0, <1>2, <2>2
    <3> QED
      BY <3>1, <3>2 DEF DevCountInv
  <2> QED
    BY <2>1, <2>2
<1>7. LockedInv'
  <2> SUFFICES ASSUME NEW t \in Savers, NEW n \in DOMAIN DevSeq, DevGranted(job'[t], n)
               PROVE  gate'[DevSeq[n]].lock = "locked"
    BY DEF LockedInv
  <2>1. CASE n = m
    BY <1>2, <2>1
  <2>2. CASE n # m
    <3>1. DevGranted(job[t], n)
      BY <1>1, <2>2
    <3>2. gate'[DevSeq[n]] = gate[DevSeq[n]]
      BY <1>0, <1>2, <2>2
    <3> QED
      BY <3>1, <3>2 DEF LockedInv
  <2> QED
    BY <2>1, <2>2
<1> QED
  BY <1>5, <1>6, <1>7

\* The rest of the invariant, when a step is at a device only.
LEMMA DevOnly ==
  ASSUME RunInv, NEW s \in Savers, NEW k, Becomes(s, k), Keeps(s, job[s], k), SameVcpus(job[s], k),
         UNCHANGED <<phase, vcpu, vpaused, busy, store, file, ghost>>,
         GateInv', WaitInv', DevCountInv', LockedInv'
  PROVE  RunInv'
<1>1. JobsInv' /\ InfoInv' /\ SavedInv' /\ CutInv' /\ FileInv'
  BY JobFrame DEF RunInv
<1>2. VcpuCountInv' /\ ParkedInv'
  BY VcpuFrame DEF RunInv
<1>3. ServeInv' /\ StoreInv' /\ phase' = "running"
  BY DEF RunInv, store, ServeInv, StoreInv
<1> QED
  BY <1>1, <1>2, <1>3 DEF RunInv

\* What a gate is.
LEMMA GateIs ==
  ASSUME GateInv, NEW d \in Devs
  PROVE  /\ gate[d].paused \in Nat /\ gate[d].manual \in BOOLEAN
         /\ gate[d].lock = IF gate[d].mutex # Nobody THEN "waiting"
                           ELSE IF gate[d].paused > 0 \/ gate[d].manual THEN "locked" ELSE "free"
         /\ gate[d].mutex # Nobody => gate[d].paused > 0 \/ gate[d].manual
         /\ gate[d].lock = "locked" => busy[d] = Nobody
<1>1. gate[d] \in [paused : Nat, manual : BOOLEAN, lock : {"free", "waiting", "locked"},
                   mutex : Savers \cup {Nobody}]
  BY DEF GateInv
<1>2. gate[d].paused \in Nat /\ gate[d].manual \in BOOLEAN
  BY <1>1
<1> QED
  BY <1>2 DEF GateInv

\* Device.Pause: of a device that is paused it returns at once.
LEMMA PauseDeviceStep ==
  ASSUME RunInv, NEW s \in Savers, PauseDevice(s)
  PROVE  RunInv'
<1> DEFINE j == job[s]
           d == DevSeq[j.i]
<1>0. /\ JobsInv /\ GateInv /\ WaitInv /\ DevCountInv /\ LockedInv /\ IsJob(s, j)
      /\ j.pc = "modelPause" /\ gate[d].mutex = Nobody
  BY DEF RunInv, JobsInv, PauseDevice, At, Dev
<1>u. UNCHANGED <<phase, vcpu, vpaused, busy, store, file, ghost>>
  BY DEF PauseDevice
<1>m. PICK m \in DOMAIN DevSeq : m = j.i
  BY <1>0 DEF IsJob
<1>d. d \in Devs /\ d = DevSeq[m]
  BY <1>m, Numbers
<1>g. /\ gate[d].paused \in Nat /\ gate[d].manual \in BOOLEAN
      /\ gate[d].lock = IF gate[d].paused > 0 \/ gate[d].manual THEN "locked" ELSE "free"
      /\ gate[d].lock = "locked" => busy[d] = Nobody
  BY <1>0, <1>d, GateIs
<1>c. Cardinality(DevHolds(m)) <= gate[d].paused
  BY <1>0, <1>m, <1>d DEF DevCountInv
<1>1. CASE gate[d].paused > 0 \/ gate[d].manual
  <2> DEFINE k == LoopedJob(j, Len(DevSeq), "modelPause", "save")
  <2>1. Becomes(s, k) /\ gate' = [gate EXCEPT ![d] = Gate(gate[d].paused + 2, gate[d].manual, gate[d].lock, Nobody)]
    BY <1>1, <1>0, <1>d DEF PauseDevice, Dev, Loops, GateInv
  <2>2. /\ Keeps(s, j, k) /\ SameVcpus(j, k) /\ k.pc \notin LockPcs
        /\ \A n \in DOMAIN DevSeq :
             /\ DevHeld(k, n) <=> DevHeld(j, n) \/ n = m
             /\ DevGranted(k, n) => DevGranted(j, n) \/ n = m
        /\ ~DevHeld(j, m)
    BY <1>0, <1>m, PauseDeviceJob
  <2> HIDE DEF k, j, d
  <2>3. Cardinality(DevHolds(m)) \in Nat /\ Cardinality(DevHolds(m)') = Cardinality(DevHolds(m)) + 1
    BY <1>0, <1>m, <2>1, <2>2, DevHolders DEF j
  <2>4. Cardinality(DevHolds(m)') <= gate[d].paused + 2 /\ gate[d].lock = "locked"
    BY <1>1, <1>c, <1>g, <2>3
  <2>5. /\ GateInv'
        /\ gate'[d].paused = gate[d].paused + 2 /\ gate'[d].lock = gate[d].lock /\ gate'[d].mutex = Nobody
        /\ \A e \in Devs \ {d} : gate'[e] = gate[e]
    <3> DEFINE p == gate[d].paused + 2
               b == gate[d].manual
               l == gate[d].lock
    <3>1. SetsGate(d, p, b, l, Nobody) /\ GoodGate(d, p, b, l, Nobody)
      BY <1>g, <1>u, <2>1, <2>4 DEF GoodGate, SetsGate
    <3> HIDE DEF p, b, l
    <3>2. /\ GateInv'
          /\ gate'[d].paused = p /\ gate'[d].lock = l /\ gate'[d].mutex = Nobody
          /\ \A e \in Devs \ {d} : gate'[e] = gate[e]
      BY <1>0, <1>d, <3>1, GateStep
    <3> QED
      BY <3>2 DEF p, l
  <2>6. \A n \in DOMAIN DevSeq \ {m} : /\ DevHeld(k, n) <=> DevHeld(job[s], n)
                                       /\ DevGranted(k, n) => DevGranted(job[s], n)
    BY <2>2 DEF j
  <2>7. WaitInv' /\ DevCountInv' /\ LockedInv'
    BY <1>0, <1>m, <1>d, <2>1, <2>2, <2>4, <2>5, <2>6, DevChange
  <2> QED
    BY <1>u, <2>1, <2>2, <2>5, <2>7, DevOnly DEF j
<1>2. CASE ~(gate[d].paused > 0 \/ gate[d].manual)
  <2> DEFINE k == Job(j.op, "lockWait", j.i, j.info, j.err)
  <2>1. Becomes(s, k) /\ gate' = [gate EXCEPT ![d] = Gate(1, gate[d].manual, "waiting", s)]
    BY <1>2, <1>0, <1>d DEF PauseDevice, Dev, GateInv
  <2>2. /\ Keeps(s, j, k) /\ SameVcpus(j, k) /\ k.pc \in LockPcs /\ k.i = m
        /\ \A n \in DOMAIN DevSeq :
             /\ DevHeld(k, n) <=> DevHeld(j, n) \/ n = m
             /\ DevGranted(k, n) => DevGranted(j, n)
        /\ ~DevHeld(j, m)
    BY <1>0, <1>m, LockDeviceJob
  <2> HIDE DEF k, j, d
  <2>3. Cardinality(DevHolds(m)) \in Nat /\ Cardinality(DevHolds(m)') = Cardinality(DevHolds(m)) + 1
    BY <1>0, <1>m, <2>1, <2>2, DevHolders DEF j
  <2>4. Cardinality(DevHolds(m)') <= 1
    BY <1>2, <1>c, <1>g, <2>3
  <2>5. /\ GateInv'
        /\ gate'[d].paused = 1 /\ gate'[d].lock = "waiting" /\ gate'[d].mutex = s
        /\ \A e \in Devs \ {d} : gate'[e] = gate[e]
    <3> DEFINE b == gate[d].manual
    <3>1. SetsGate(d, 1, b, "waiting", s) /\ GoodGate(d, 1, b, "waiting", s)
      BY <1>g, <1>u, <2>1, ActorsAssumption DEF GoodGate, SetsGate, Savers
    <3> HIDE DEF b
    <3> QED
      BY <1>0, <1>d, <3>1, GateStep
  <2>6. \A n \in DOMAIN DevSeq \ {m} : /\ DevHeld(k, n) <=> DevHeld(job[s], n)
                                       /\ DevGranted(k, n) => DevGranted(job[s], n)
    BY <2>2 DEF j
  <2>7. \A t \in Savers : ~DevGranted(job'[t], m)
    <3> SUFFICES ASSUME NEW t \in Savers, DevGranted(job'[t], m)
                 PROVE  FALSE
      OBVIOUS
    <3>1. job'[s] = k /\ \A u \in Savers \ {s} : job'[u] = job[u]
      BY <1>0, <2>1, BecomesIs
    <3>2. DevGranted(job[t], m)
      BY <1>m, <2>2, <3>1 DEF j
    <3>3. gate[d].lock = "locked"
      BY <1>0, <1>m, <1>d, <3>2 DEF LockedInv
    <3> QED
      BY <1>2, <1>g, <3>3
  <2>8. WaitInv' /\ DevCountInv' /\ LockedInv'
    BY <1>0, <1>m, <1>d, <2>1, <2>2, <2>4, <2>5, <2>6, <2>7, DevChange
  <2> QED
    BY <1>u, <2>1, <2>2, <2>5, <2>8, DevOnly DEF j
<1> QED
  BY <1>1, <1>2

\* run_lock is granted.
LEMMA DevicePausedStep ==
  ASSUME RunInv, NEW s \in Savers, DevicePaused(s)
  PROVE  RunInv'
<1> DEFINE j == job[s]
           d == DevSeq[j.i]
           k == IF j.pc = "lockWait" THEN LoopedJob(j, Len(DevSeq), "modelPause", "save") ELSE MovedJob(j, "idle")
<1>0. /\ JobsInv /\ GateInv /\ WaitInv /\ DevCountInv /\ LockedInv /\ IsJob(s, j)
      /\ j.pc \in {"lockWait", "manualWait"} /\ busy[d] = Nobody
  BY DEF RunInv, JobsInv, DevicePaused, Dev
<1>u. UNCHANGED <<phase, vcpu, vpaused, busy, store, file, ghost>>
  BY DEF DevicePaused
<1>m. PICK m \in DOMAIN DevSeq : m = j.i
  BY <1>0 DEF IsJob, LockPcs
<1>d. d \in Devs /\ d = DevSeq[m]
  BY <1>m, Numbers
<1>w. gate[d].mutex = s /\ s # Nobody
  BY <1>0, ActorsAssumption DEF WaitInv, LockPcs, Savers
<1>g. gate[d].paused \in Nat /\ gate[d].manual \in BOOLEAN /\ (gate[d].paused > 0 \/ gate[d].manual)
  BY <1>0, <1>d, <1>w, GateIs
<1>1. Becomes(s, k)
  BY <1>0 DEF DevicePaused, Loops, Moves, At
<1>2. gate' = [gate EXCEPT ![d] = Gate(gate[d].paused, gate[d].manual, "locked", Nobody)]
  BY <1>0, <1>d DEF DevicePaused, Dev, Locked, GateInv
<1>3. /\ Keeps(s, j, k) /\ SameVcpus(j, k) /\ k.pc \notin LockPcs
      /\ \A n \in DOMAIN DevSeq :
           /\ DevHeld(k, n) <=> DevHeld(j, n)
           /\ DevGranted(k, n) => DevGranted(j, n) \/ n = m
  <2>1. CASE j.pc = "lockWait"
    BY <1>0, <1>m, <2>1, PauseDeviceJob
  <2>2. CASE j.pc = "manualWait"
    BY <1>0, <2>2, ManualPausedJob DEF SameDevices
  <2> QED
    BY <1>0, <2>1, <2>2
<1> HIDE DEF k, j, d
<1>4. DevHolds(m)' = DevHolds(m)
  BY <1>0, <1>m, <1>1, <1>3, DevHolders DEF j
<1>5. Cardinality(DevHolds(m)') <= gate[d].paused
  BY <1>0, <1>m, <1>d, <1>4 DEF DevCountInv
<1>6. /\ GateInv'
      /\ gate'[d].paused = gate[d].paused /\ gate'[d].lock = "locked" /\ gate'[d].mutex = Nobody
      /\ \A e \in Devs \ {d} : gate'[e] = gate[e]
  <2> DEFINE p == gate[d].paused
             b == gate[d].manual
  <2>1. SetsGate(d, p, b, "locked", Nobody) /\ GoodGate(d, p, b, "locked", Nobody)
    BY <1>0, <1>u, <1>g, <1>2 DEF GoodGate, SetsGate
  <2> HIDE DEF p, b
  <2>2. /\ GateInv'
        /\ gate'[d].paused = p /\ gate'[d].lock = "locked" /\ gate'[d].mutex = Nobody
        /\ \A e \in Devs \ {d} : gate'[e] = gate[e]
    BY <1>0, <1>d, <2>1, GateStep
  <2> QED
    BY <2>2 DEF p
<1>7. \A n \in DOMAIN DevSeq \ {m} : /\ DevHeld(k, n) <=> DevHeld(job[s], n)
                                     /\ DevGranted(k, n) => DevGranted(job[s], n)
  BY <1>3 DEF j
<1>8. WaitInv' /\ DevCountInv' /\ LockedInv'
  BY <1>0, <1>m, <1>d, <1>w, <1>1, <1>3, <1>5, <1>6, <1>7, DevChange
<1> QED
  BY <1>u, <1>1, <1>3, <1>6, <1>8, DevOnly DEF j

\* Device.Unpause: a device that somebody else has paused stays so.
LEMMA UnpauseDeviceStep ==
  ASSUME RunInv, NEW s \in Savers, UnpauseDevice(s)
  PROVE  RunInv'
<1> DEFINE j == job[s]
           d == DevSeq[j.i]
           k == LoopedJob(j, Len(DevSeq), "modelUnpause", "vmUnpause")
           p == gate[d].paused - 1
           b == gate[d].manual
           l == IF p = 0 /\ ~b THEN "free" ELSE gate[d].lock
<1>0. /\ JobsInv /\ GateInv /\ WaitInv /\ DevCountInv /\ LockedInv /\ IsJob(s, j)
      /\ j.pc = "modelUnpause" /\ gate[d].mutex = Nobody
  BY DEF RunInv, JobsInv, UnpauseDevice, Dev, At
<1>u. UNCHANGED <<phase, vcpu, vpaused, busy, store, file, ghost>>
  BY DEF UnpauseDevice
<1>m. PICK m \in DOMAIN DevSeq : m = j.i
  BY <1>0 DEF IsJob
<1>d. d \in Devs /\ d = DevSeq[m]
  BY <1>m, Numbers
<1>g. /\ gate[d].paused \in Nat /\ b \in BOOLEAN
      /\ gate[d].lock = IF gate[d].paused > 0 \/ gate[d].manual THEN "locked" ELSE "free"
      /\ gate[d].lock = "locked" => busy[d] = Nobody
  BY <1>0, <1>d, GateIs
<1>1. Becomes(s, k)
  BY <1>0 DEF UnpauseDevice, Loops
<1>2. gate' = [gate EXCEPT ![d] = Gate(p, b, l, Nobody)]
  BY <1>0, <1>d DEF UnpauseDevice, Dev, GateInv
<1>3. /\ Keeps(s, j, k) /\ SameVcpus(j, k) /\ k.pc \notin LockPcs
      /\ \A n \in DOMAIN DevSeq :
           /\ DevHeld(k, n) <=> DevHeld(j, n) /\ n # m
           /\ DevGranted(k, n) => DevGranted(j, n)
      /\ DevHeld(j, m)
  BY <1>0, <1>m, UnpauseDeviceJob
<1> HIDE DEF k, j, d
<1>4. /\ Cardinality(DevHolds(m)) \in Nat /\ Cardinality(DevHolds(m)) > 0
      /\ Cardinality(DevHolds(m)') = Cardinality(DevHolds(m)) - 1
  BY <1>0, <1>m, <1>1, <1>3, DevHolders DEF j
<1>5. Cardinality(DevHolds(m)) <= gate[d].paused
  BY <1>0, <1>m, <1>d DEF DevCountInv
<1>6. p \in Nat /\ Cardinality(DevHolds(m)') <= p /\ gate[d].lock = "locked"
  BY <1>g, <1>4, <1>5
<1>7. /\ GateInv'
      /\ gate'[d].paused = p /\ gate'[d].lock = l /\ gate'[d].mutex = Nobody
      /\ \A e \in Devs \ {d} : gate'[e] = gate[e]
      /\ l # "locked" => p = 0
  <2>1. SetsGate(d, p, b, l, Nobody) /\ GoodGate(d, p, b, l, Nobody)
    BY <1>u, <1>g, <1>2, <1>6 DEF GoodGate, SetsGate
  <2>2. l # "locked" => p = 0
    BY <1>6, <2>1 DEF GoodGate
  <2> HIDE DEF p, b, l
  <2>3. /\ GateInv'
        /\ gate'[d].paused = p /\ gate'[d].lock = l /\ gate'[d].mutex = Nobody
        /\ \A e \in Devs \ {d} : gate'[e] = gate[e]
    BY <1>0, <1>d, <1>2, <2>1, GateStep
  <2> QED
    BY <2>2, <2>3
<1> HIDE DEF p, b, l
<1>8. \A n \in DOMAIN DevSeq \ {m} : /\ DevHeld(k, n) <=> DevHeld(job[s], n)
                                     /\ DevGranted(k, n) => DevGranted(job[s], n)
  BY <1>3 DEF j
<1>9. l # "locked" => \A t \in Savers : ~DevGranted(job'[t], m)
  <2> SUFFICES ASSUME l # "locked", NEW t \in Savers, DevGranted(job'[t], m)
               PROVE  FALSE
    OBVIOUS
  <2>1. t \in DevHolds(m)'
    BY DEF DevHolds, DevGranted
  <2>2. DevHolds(m)' \in SUBSET Savers
    BY DEF DevHolds
  <2>3. Cardinality(DevHolds(m)') > 0 /\ Cardinality(DevHolds(m)') \in Nat
    BY <2>1, <2>2, Joins
  <2> QED
    BY <1>6, <1>7, <2>3
<1>10. WaitInv' /\ DevCountInv' /\ LockedInv'
  BY <1>0, <1>m, <1>d, <1>1, <1>3, <1>6, <1>7, <1>8, <1>9, DevChange
<1> QED
  BY <1>u, <1>1, <1>3, <1>7, <1>10, DevOnly DEF j

\* The Device call: a device that somebody else has paused stays so.
LEMMA DeviceCallStep ==
  ASSUME RunInv, NEW s \in Rpcs, NEW d \in ManualDevs, NEW pause \in BOOLEAN, DeviceCall(s, d, pause)
  PROVE  RunInv'
<1> DEFINE j == job[s]
           p == gate[d].paused
<1>0. /\ JobsInv /\ GateInv /\ WaitInv /\ DevCountInv /\ LockedInv /\ IsJob(s, j) /\ s \in Savers
      /\ j.pc = "idle" /\ gate[d].mutex = Nobody
  BY DEF RunInv, JobsInv, DeviceCall, IdleJob, Job, Savers
<1>u. UNCHANGED <<phase, vcpu, vpaused, busy, store, file, ghost>>
  BY DEF DeviceCall
<1>d. d \in Devs
  BY DevicesAssumption DEF Devs
<1>m. PICK m \in DOMAIN DevSeq : d = DevSeq[m]
  BY <1>d, Numbers
<1>i. (CHOOSE i \in DOMAIN DevSeq : DevSeq[i] = d) = m
  BY <1>m, Numbers
<1>g. /\ p \in Nat /\ gate[d].manual \in BOOLEAN
      /\ gate[d].lock = IF p > 0 \/ gate[d].manual THEN "locked" ELSE "free"
      /\ gate[d].lock = "locked" => busy[d] = Nobody
      /\ gate[d].manual # pause
  BY <1>0, <1>d, GateIs DEF DeviceCall
<1>c. Cardinality(DevHolds(m)) <= p
  BY <1>0, <1>m DEF DevCountInv
<1>h. ASSUME NEW k, Becomes(s, k), Keeps(s, j, k), SameVcpus(j, k), NEW l, NEW x,
             GoodGate(d, p, pause, l, x), SetsGate(d, p, pause, l, x),
             \A n \in DOMAIN DevSeq : /\ DevHeld(k, n) <=> DevHeld(j, n)
                                      /\ DevGranted(k, n) => DevGranted(j, n),
             k.pc \in LockPcs => k.i = m /\ x = s,
             l # "locked" => p = 0
      PROVE  RunInv'
  <2>1. /\ GateInv'
        /\ gate'[d].paused = p /\ gate'[d].lock = l /\ gate'[d].mutex = x
        /\ \A e \in Devs \ {d} : gate'[e] = gate[e]
    <3> HIDE DEF p
    <3> QED
      BY <1>0, <1>d, <1>h, GateStep
  <2> HIDE DEF p
  <2>2. DevHolds(m)' = DevHolds(m) /\ Cardinality(DevHolds(m)) \in Nat
    BY <1>0, <1>h, DevHolders DEF j
  <2>3. l # "locked" => \A t \in Savers : ~DevGranted(job'[t], m)
    <3> SUFFICES ASSUME l # "locked", NEW t \in Savers, DevGranted(job'[t], m)
                 PROVE  FALSE
      OBVIOUS
    <3>1. t \in DevHolds(m)'
      BY DEF DevHolds, DevGranted
    <3>2. DevHolds(m) \in SUBSET Savers
      BY DEF DevHolds
    <3>3. Cardinality(DevHolds(m)) > 0
      BY <2>2, <3>1, <3>2, Joins
    <3> QED
      BY <1>c, <1>g, <1>h, <2>2, <3>3
  <2>4. WaitInv' /\ DevCountInv' /\ LockedInv'
    BY <1>0, <1>m, <1>c, <1>h, <2>1, <2>2, <2>3, DevChange DEF j
  <2> QED
    BY <1>0, <1>u, <1>h, <2>1, <2>4, DevOnly DEF j
<1>1. CASE pause /\ ~(p > 0)
  <2> DEFINE k == Job("device", "manualWait", m, Nil, "nil")
  <2>1. Becomes(s, k)
    BY <1>1, <1>i DEF DeviceCall
  <2>2. SetsGate(d, p, pause, "waiting", s)
    BY <1>0, <1>1, <1>d, <1>u DEF DeviceCall, SetsGate, GateInv
  <2>3. GoodGate(d, p, pause, "waiting", s)
    BY <1>0, <1>1, <1>g, ActorsAssumption DEF GoodGate, Savers
  <2>4. /\ Keeps(s, j, k) /\ SameVcpus(j, k)
        /\ \A n \in DOMAIN DevSeq : (DevHeld(k, n) <=> DevHeld(j, n)) /\ ~DevGranted(k, n)
    BY <1>0, DeviceCallJob
  <2>5. k.i = m
    BY DEF Job
  <2> HIDE DEF k
  <2>6. p = 0
    BY <1>1, <1>g
  <2> HIDE DEF p
  <2> QED
    BY <1>h, <2>1, <2>2, <2>3, <2>4, <2>5, <2>6
<1>2. CASE ~(pause /\ ~(p > 0))
  <2> DEFINE l == IF p > 0 THEN gate[d].lock ELSE "free"
  <2>1. Becomes(s, j)
    BY <1>0, <1>2 DEF DeviceCall, Becomes, JobsInv
  <2>2. SetsGate(d, p, pause, l, Nobody)
    BY <1>0, <1>2, <1>d, <1>u DEF DeviceCall, SetsGate, GateInv
  <2>3. GoodGate(d, p, pause, l, Nobody) /\ (l # "locked" => p = 0)
    BY <1>0, <1>2, <1>g DEF GoodGate
  <2>4. Keeps(s, j, j) /\ SameVcpus(j, j) /\ j.pc \notin LockPcs
    BY <1>0, JobStays DEF LockPcs
  <2> HIDE DEF j, p, l
  <2> QED
    BY <1>h, <2>1, <2>2, <2>3, <2>4
<1> QED
  BY <1>1, <1>2

\* Model.Save: what has been saved of a device is what it holds, also for the
\* savers that did so before; and the devices are those of the cut, or have
\* moved.
LEMMA SaveModelStep ==
  ASSUME RunInv, NEW s \in Savers, SaveModel(s)
  PROVE  RunInv'
<1> DEFINE j == job[s]
           last == s = Main /\ j.i = Len(DevSeq)
<1>d. PICK d : d = DevSeq[j.i]
  OBVIOUS
<1>0. /\ JobsInv /\ StoreInv /\ InfoInv /\ SavedInv /\ CutInv /\ FileInv /\ IsJob(s, j) /\ j.pc = "save"
  BY DEF RunInv, JobsInv, SaveModel, At
<1>u. UNCHANGED <<phase, gates, cpu, kernel, file, late>>
  BY DEF SaveModel
<1>e. CASE Fails(s, "modelUnpause") /\ UNCHANGED <<obj, cut, moved, ticked>>
  <2> DEFINE k == FailedJob(j, "modelUnpause")
  <2>1. Becomes(s, k)
    BY <1>e DEF Fails
  <2>2. Keeps(s, j, k) /\ SameVcpus(j, k) /\ SameDevices(j, k)
    BY <1>0, SaveFails
  <2> HIDE DEF k
  <2> QED
    BY <1>u, <1>e, <2>1, <2>2, JobOnly DEF store, ghost, since
<1>g. CASE /\ obj' = [obj EXCEPT ![d] = Saved(d)]
           /\ Loops(s, Len(DevSeq), "save", "modelUnpause")
           /\ ticked' = [ticked EXCEPT ![s] = @ \ {d}]
           /\ cut' = IF last THEN [taken |-> TRUE, cpu |-> cpu, obj |-> obj', kernel |-> kernel,
                                   late |-> late[s], ticked |-> ticked'[s]] ELSE cut
           /\ moved' = IF last THEN {} ELSE IF cut.taken /\ obj'[d] # obj[d] THEN moved \cup {d} ELSE moved
  <2> DEFINE k == LoopedJob(j, Len(DevSeq), "save", "modelUnpause")
  <2>1. Becomes(s, k)
    BY <1>g DEF Loops
  <2>2. /\ IsJob(s, k) /\ SameVcpus(j, k) /\ SameDevices(j, k)
        /\ HasInfo(k) => HasInfo(j)
        /\ \A n \in DOMAIN DevSeq : HasSaved(k, n) => HasSaved(j, n) \/ n = j.i
        /\ HasCut(k) => HasInfo(j) /\ j.i = Len(DevSeq)
        /\ j.i = Len(DevSeq) /\ HasInfo(j) => \A n \in DOMAIN DevSeq : HasSaved(j, n) \/ n = j.i
        /\ k.info = j.info /\ j.i \in DOMAIN DevSeq
        /\ Encoded(k) = 0 /\ Encoded(j) = 0
    BY <1>0, SaveJob
  <2> HIDE DEF k
  <2>d. d \in Devs /\ KernelDevs \subseteq Devs
    BY <1>d, <2>2, Numbers, DevicesAssumption DEF Devs
  <2>3. /\ obj' = [e \in Devs |-> obj'[e]] /\ obj'[d] = Saved(d)
        /\ \A e \in Devs \ {d} : obj'[e] = obj[e]
    BY <1>0, <1>g, <2>d DEF StoreInv
  <2>4. StoreInv'
    <3>1. \A e \in KernelDevs : IsObject(e, obj'[e])
      <4> SUFFICES ASSUME NEW e \in KernelDevs PROVE IsObject(e, obj'[e])
        OBVIOUS
      <4>1. CASE e = d
        BY <1>0, <2>3, <4>1, ObjectOf DEF StoreInv, Saved
      <4>2. CASE e # d
        BY <1>0, <2>d, <2>3, <4>2 DEF StoreInv
      <4> QED
        BY <4>1, <4>2
    <3> QED
      BY <1>0, <1>u, <2>3, <3>1 DEF StoreInv
  <2>5. /\ d \in KernelDevs => AsSaved(d)'
        /\ \A e \in KernelDevs \ {d} : AsSaved(e)' <=> AsSaved(e)
    BY <1>u, <2>d, <2>3 DEF AsSaved, Saved
  <2>6. /\ ticked' = [t \in Savers |-> ticked'[t]]
        /\ ticked'[s] = ticked[s] \ {d}
        /\ \A t \in Savers \ {s} : ticked'[t] = ticked[t]
    BY <1>0, <1>g DEF SavedInv
  <2>7. ReadsKept
    BY <1>0, <1>u DEF ReadsKept, InfoInv
  <2>8. SavedKept
    <3> SUFFICES ASSUME NEW t \in Savers, NEW e \in KernelDevs, e \notin ticked'[t]
                 PROVE  AsSaved(e)' \/ (e \notin ticked[t] /\ ~AsSaved(e))
      BY <2>6 DEF SavedKept
    <3>1. CASE e = d
      BY <2>5, <3>1
    <3>2. CASE e # d
      <4>1. e \notin ticked[t]
        BY <2>6, <3>2
      <4> QED
        BY <2>5, <3>2, <4>1
    <3> QED
      BY <3>1, <3>2
  <2>9. JobsInv' /\ InfoInv' /\ SavedInv'
    <3>1. SavedKept /\ ReadsKept
      BY <2>7, <2>8
    <3>2. \A n \in DOMAIN DevSeq : HasSaved(k, n) /\ DevSeq[n] \in KernelDevs
                                     => HasSaved(j, n) \/ AsSaved(DevSeq[n])'
      BY <1>d, <2>2, <2>5
    <3> HIDE DEF j
    <3>3. IsJob(s, k) /\ (HasInfo(k) => HasInfo(job[s]) /\ k.info = job[s].info)
      BY <2>2 DEF j
    <3> QED
      BY <1>0, <2>1, <3>1, <3>2, <3>3, ReadFrame DEF j
  <2>10. job'[s] = k /\ \A t \in Savers \ {s} : job'[t] = job[t]
    BY <1>0, <2>1, BecomesIs
  <2>11. CutInv' /\ FileInv'
    <3>1. CASE last
      <4>1. /\ cut'.taken = TRUE /\ cut'.cpu = cpu /\ cut'.obj = obj' /\ cut'.kernel = kernel /\ moved' = {}
            /\ cut'.late = late[s] /\ cut'.ticked = ticked'[s]
        BY <1>g, <3>1
      <4>2. CutInv'
        <5>1. cut'.taken \in BOOLEAN /\ cut'.taken
          BY <4>1
        <5> SUFFICES ASSUME HasCut(job'[Main]) PROVE IsCut'
          BY <5>1 DEF CutInv
        <5>2. HasInfo(j) /\ job'[Main].info = j.info
          BY <2>2, <2>10, <3>1
        <5>3. \A v \in Vcpus : ReadFrom(job'[Main].info[v], cut'.cpu[v], v \in cut'.late)
          BY <1>0, <4>1, <5>2 DEF InfoInv
        <5>4. \A v \in Vcpus : IsCpu(cut'.cpu[v])
          BY <1>0, <4>1 DEF StoreInv
        <5>5. \A e \in KernelDevs : IsKernel(e, cut'.kernel[e])
          BY <1>0, <4>1 DEF StoreInv
        <5>6. \A e \in KernelDevs \ cut'.ticked : cut'.obj[e] = GetKernel(e, cut'.kernel[e])
          <6> SUFFICES ASSUME NEW e \in KernelDevs \ cut'.ticked PROVE AsSaved(e)'
            BY <1>u, <4>1 DEF AsSaved
          <6>1. PICK n \in DOMAIN DevSeq : DevSeq[n] = e
            BY <2>d, Numbers
          <6>2. CASE e = d
            BY <2>5, <6>2
          <6>3. CASE e # d
            <7>1. HasSaved(j, n) /\ e \notin ticked[s]
              BY <1>d, <2>2, <2>6, <3>1, <4>1, <5>2, <6>1, <6>3
            <7> QED
              BY <1>0, <2>5, <6>1, <6>3, <7>1 DEF SavedInv
          <6> QED
            BY <6>2, <6>3
        <5> QED
          BY <4>1, <5>1, <5>3, <5>4, <5>5, <5>6 DEF IsCut
      <4>3. FileInv'
        <5>1. Len(file) = 0 /\ file' = file /\ file = [i \in 1 .. Len(file) |-> file[i]]
          BY <1>0, <1>u, <2>2, <3>1 DEF FileInv
        <5>2. Encoded(job'[Main]) = 0
          BY <2>2, <2>10, <3>1
        <5>3. DOMAIN file = {}
          BY <5>1
        <5> QED
          BY <5>1, <5>2, <5>3 DEF FileInv
      <4> QED
        BY <4>2, <4>3
    <3>2. CASE ~last
      <4>1. cut' = cut /\ moved' = IF cut.taken /\ obj'[d] # obj[d] THEN moved \cup {d} ELSE moved
        BY <1>g, <3>2
      <4>2. /\ HasCut(job'[Main]) => HasCut(job[Main]) /\ job'[Main].info = job[Main].info
            /\ Encoded(job'[Main]) = Encoded(job[Main])
        BY <1>0, <2>1, <2>2, <3>2, MainKeeps
      <4>3. CASE cut.taken
        <5>1. moved \subseteq moved' /\ \A e \in Devs \ moved' : obj'[e] = obj[e]
          BY <2>3, <4>1, <4>3
        <5> QED
          BY <1>0, <1>u, <4>1, <4>2, <5>1, CutFrame
      <4>4. CASE ~cut.taken
        <5>1. ~HasCut(job'[Main])
          BY <1>0, <4>2, <4>4 DEF CutInv, IsCut
        <5>2. CutInv'
          BY <1>0, <4>1, <5>1 DEF CutInv
        <5>3. FileInv'
          BY <1>0, <1>u, <4>1, <4>2, <4>4 DEF FileInv
        <5> QED
          BY <5>2, <5>3
      <4> QED
        BY <4>3, <4>4
    <3> QED
      BY <3>1, <3>2
  <2>12. VcpuCountInv' /\ ParkedInv'
    BY <1>u, <2>1, <2>2, VcpuFrame DEF RunInv, gates
  <2>13. WaitInv' /\ DevCountInv' /\ LockedInv'
    BY <1>u, <2>1, <2>2, DevFrame DEF RunInv, gates
  <2>14. ServeInv' /\ GateInv' /\ phase' = "running"
    BY <1>u DEF RunInv, gates, ServeInv, GateInv
  <2> QED
    BY <2>4, <2>9, <2>11, <2>12, <2>13, <2>14 DEF RunInv
<1> QED
  BY <1>d, <1>e, <1>g, Zenon DEF SaveModel, Dev

\* A step of Reload: vcpus and devices are given what reads the same.
LEMMA ReloadStep ==
  ASSUME RunInv, NEW s \in Savers, NEW k, Becomes(s, k),
         Keeps(s, job[s], k), SameVcpus(job[s], k), SameDevices(job[s], k),
         UNCHANGED <<phase, gates, obj, file, cut, moved>>, StoreInv', ReadsKept, SavedKept
  PROVE  RunInv'
<1>1. JobsInv' /\ InfoInv' /\ SavedInv'
  BY ReadFrame DEF RunInv, Keeps
<1>2. /\ HasCut(job'[Main]) => HasCut(job[Main]) /\ job'[Main].info = job[Main].info
      /\ Encoded(job'[Main]) = Encoded(job[Main])
  BY MainKeeps DEF Keeps, RunInv
<1>3. CutInv' /\ FileInv'
  BY <1>2, CutFrame DEF RunInv
<1>4. VcpuCountInv' /\ ParkedInv'
  BY VcpuFrame DEF RunInv, gates
<1>5. WaitInv' /\ DevCountInv' /\ LockedInv'
  BY DevFrame DEF RunInv, gates
<1>6. ServeInv' /\ GateInv' /\ phase' = "running"
  BY DEF RunInv, gates, ServeInv, GateInv
<1> QED
  BY <1>1, <1>3, <1>4, <1>5, <1>6 DEF RunInv

\* LAPICs that change are noted.
LEMMA LapicsNoted ==
  ASSUME NoteLapics
  PROVE  /\ late' = [t \in Savers |-> late'[t]]
         /\ \A t \in Savers, v \in Vcpus :
              v \notin late'[t] => v \notin late[t] /\ cpu'[v].lapic = cpu[v].lapic
BY DEF NoteLapics

\* Vcpu.Load gives a vcpu what was read from it.
LEMMA LoadVcpuStep ==
  ASSUME RunInv, NEW s \in Savers, LoadVcpu(s)
  PROVE  RunInv'
<1> DEFINE j == job[s]
<1>0. JobsInv /\ StoreInv /\ InfoInv /\ SavedInv /\ IsJob(s, j) /\ j.pc = "loadVcpus"
  BY DEF RunInv, JobsInv, LoadVcpu, At
<1>u. UNCHANGED <<phase, gates, kernel, obj, file, cut, moved, ticked>> /\ NoteLapics
  BY DEF LoadVcpu
<1>n. PICK n \in 1 .. Parts :
        /\ cpu' = [cpu EXCEPT ![j.i] = LoadParts(@, j.info[j.i], n)]
        /\ IF n < Parts THEN Fails(s, "outerUnpause") ELSE Loops(s, Cardinality(Vcpus), "loadVcpus", "loadModel")
  BY DEF LoadVcpu
<1>1. PICK k : Becomes(s, k) /\ Keeps(s, j, k) /\ SameVcpus(j, k) /\ SameDevices(j, k)
  <2> DEFINE k == IF n < Parts THEN FailedJob(j, "outerUnpause")
                  ELSE LoopedJob(j, Cardinality(Vcpus), "loadVcpus", "loadModel")
  <2>1. Becomes(s, k)
    BY <1>n DEF Fails, Loops
  <2>2. k \in {LoopedJob(j, Cardinality(Vcpus), "loadVcpus", "loadModel"), FailedJob(j, "outerUnpause")}
    OBVIOUS
  <2> HIDE DEF k
  <2> QED
    BY <1>0, <2>1, <2>2, LoadVcpuJob
<1>2. j.i \in Vcpus /\ HasInfo(j)
  BY <1>0 DEF IsJob, HasInfo, SavePcs, HeldPcs, OuterPcs
<1>3. PICK l \in Lapics : j.info[j.i] = Info(WithLapic(cpu[j.i], l))
  BY <1>0, <1>2 DEF InfoInv, ReadFrom, Info
<1>4. /\ cpu = [v \in Vcpus |-> cpu[v]] /\ \A v \in Vcpus : IsCpu(cpu[v]) /\ cpu[v].lapic \in Lapics
  BY <1>0 DEF StoreInv
<1>5. /\ cpu' = [v \in Vcpus |-> cpu'[v]]
      /\ cpu'[j.i] = LoadParts(cpu[j.i], Info(WithLapic(cpu[j.i], l)), n)
      /\ \A v \in Vcpus \ {j.i} : cpu'[v] = cpu[v]
  BY <1>n, <1>2, <1>3, <1>4
<1>6. /\ IsCpu(cpu'[j.i]) /\ cpu'[j.i].lapic \in Lapics
      /\ \A m \in Lapics : Info(WithLapic(cpu'[j.i], m)) = Info(WithLapic(cpu[j.i], m))
  BY <1>2, <1>4, <1>5, LoadOwn
<1>7. \A v \in Vcpus : /\ IsCpu(cpu'[v]) /\ cpu'[v].lapic \in Lapics
                       /\ \A m \in Lapics : Info(WithLapic(cpu'[v], m)) = Info(WithLapic(cpu[v], m))
  BY <1>4, <1>5, <1>6
<1>8. StoreInv'
  BY <1>0, <1>u, <1>5, <1>7 DEF StoreInv
<1>9. ReadsKept
  BY <1>u, <1>7, LapicsNoted DEF ReadsKept
<1>10. SavedKept
  <2>1. \A d : AsSaved(d)' <=> AsSaved(d)
    BY <1>u DEF AsSaved
  <2> QED
    BY <1>0, <1>u, <2>1 DEF SavedKept, SavedInv
<1> QED
  BY <1>1, <1>8, <1>9, <1>10, <1>u, ReloadStep

\* Model.Load: a device whose object is what it holds keeps that.
LEMMA LoadModelStep ==
  ASSUME RunInv, NEW s \in Savers, LoadModel(s)
  PROVE  RunInv'
<1> DEFINE j == job[s]
           d == DevSeq[j.i]
<1>0. JobsInv /\ StoreInv /\ InfoInv /\ SavedInv /\ IsJob(s, j) /\ j.pc = "loadModel"
  BY DEF RunInv, JobsInv, LoadModel, At
<1>u. UNCHANGED <<phase, gates, cpu, obj, file, ghost>>
  BY DEF LoadModel
<1>g. UNCHANGED <<cut, moved, late, ticked>>
  BY <1>u DEF ghost, since
<1>1. PICK k \in {LoopedJob(j, Len(DevSeq), "loadModel", "outerUnpause"), FailedJob(j, "outerUnpause")} :
        /\ Becomes(s, k)
        /\ kernel' = kernel \/ (d \in KernelDevs /\ kernel' = [kernel EXCEPT ![d] = Loaded(d)])
  BY DEF LoadModel, Loops, Fails, Dev
<1>2. Keeps(s, j, k) /\ SameVcpus(j, k) /\ SameDevices(j, k)
  BY <1>0, <1>1, LoadModelJob
<1>3. /\ kernel = [e \in KernelDevs |-> kernel[e]]
      /\ \A e \in KernelDevs : IsKernel(e, kernel[e]) /\ IsObject(e, obj[e])
  BY <1>0 DEF StoreInv
<1>4. /\ kernel' = [e \in KernelDevs |-> kernel'[e]]
      /\ \A e \in KernelDevs : kernel'[e] \in {kernel[e], SetKernel(e, kernel[e], obj[e])}
  BY <1>1, <1>3 DEF Loaded
<1>5. \A e \in KernelDevs : IsKernel(e, kernel'[e])
  BY <1>3, <1>4, ObjectLoads
<1>6. \A e \in KernelDevs : AsSaved(e) => AsSaved(e)'
  BY <1>3, <1>4, <1>u, KernelCopied DEF AsSaved
<1>7. StoreInv'
  BY <1>0, <1>u, <1>4, <1>5 DEF StoreInv
<1>8. ReadsKept
  BY <1>0, <1>u, <1>g DEF ReadsKept, InfoInv
<1>9. SavedKept
  BY <1>0, <1>g, <1>6 DEF SavedKept, SavedInv
<1> QED
  BY <1>1, <1>2, <1>7, <1>8, <1>9, <1>u, <1>g, ReloadStep

-----------------------------------------------------------------------------
(* The steps of the machine.                                               *)

\* While somebody has read the vcpus they are parked, and while somebody has
\* saved a device no handler runs.
LEMMA Stopped ==
  ASSUME RunInv, NEW s \in Savers
  PROVE  /\ HasInfo(job[s]) => \A v \in Vcpus : vcpu[v] = "parked"
         /\ (\E n \in DOMAIN DevSeq : HasSaved(job[s], n)) =>
              (\A v \in Vcpus : vcpu[v] = "parked") /\ (\A d \in Devs : busy[d] = Nobody)
<1> DEFINE saved == \E n \in DOMAIN DevSeq : HasSaved(job[s], n)
<1>0. IsJob(s, job[s]) /\ ParkedInv /\ LockedInv /\ GateInv
  BY DEF RunInv, JobsInv
<1>1. HasInfo(job[s]) \/ saved => \A v \in Vcpus : Granted(job[s], v)
  BY DEF HasInfo, HasSaved, Granted, VmHeld, OuterHeld, HeldPcs, SavePcs
<1>2. saved => \A n \in DOMAIN DevSeq : DevGranted(job[s], n)
  BY Numbers DEF HasSaved, DevGranted, DevHeld
<1> HIDE DEF saved
<1>3. saved => \A d \in Devs : busy[d] = Nobody
  <2> SUFFICES ASSUME saved, NEW d \in Devs PROVE busy[d] = Nobody
    OBVIOUS
  <2>1. PICK n \in DOMAIN DevSeq : DevSeq[n] = d
    BY Numbers
  <2>2. gate[d].lock = "locked"
    BY <1>0, <1>2, <2>1 DEF LockedInv
  <2> QED
    BY <1>0, <2>2, GateIs
<1>4. HasInfo(job[s]) \/ saved => \A v \in Vcpus : vcpu[v] = "parked"
  BY <1>0, <1>1 DEF ParkedInv
<1> QED
  BY <1>3, <1>4 DEF saved

\* A vcpu that runs, or waits for a handler, is paused for nobody.
LEMMA NotGranted ==
  ASSUME RunInv, NEW v \in Vcpus, vcpu[v] # "parked" \/ vpaused[v] = 0
  PROVE  \A t \in Savers : ~Granted(job[t], v)
<1> SUFFICES ASSUME NEW t \in Savers, Granted(job[t], v) PROVE FALSE
  OBVIOUS
<1>1. vcpu[v] = "parked"
  BY DEF RunInv, ParkedInv
<1>2. vpaused[v] = 0 /\ Cardinality(VmHolds(v)) + Cardinality(OuterHolds(v)) <= vpaused[v]
  BY <1>1 DEF RunInv, VcpuCountInv
<1>3. VmHolds(v) \in SUBSET Savers /\ OuterHolds(v) \in SUBSET Savers
  BY DEF VmHolds, OuterHolds
<1>4. t \in VmHolds(v) \/ t \in OuterHolds(v)
  BY DEF VmHolds, OuterHolds, Granted
<1>5. Cardinality(VmHolds(v)) \in Nat /\ Cardinality(OuterHolds(v)) \in Nat
  BY <1>3, Joins
<1>6. Cardinality(VmHolds(v)) > 0 \/ Cardinality(OuterHolds(v)) > 0
  BY <1>3, <1>4, Joins
<1> QED
  BY <1>2, <1>5, <1>6

\* What does not depend on the vcpus, the handlers and the data.
LEMMA MachineFrame ==
  ASSUME RunInv, UNCHANGED <<phase, vpaused, gate, job, file, cut>>
  PROVE  phase' = "running" /\ JobsInv' /\ VcpuCountInv' /\ WaitInv' /\ DevCountInv' /\ LockedInv'
<1>1. JobsInv'
  BY DEF RunInv, JobsInv
<1>2. (\A v \in Vcpus : VmHolds(v)' = VmHolds(v) /\ OuterHolds(v)' = OuterHolds(v))
      /\ \A n \in DOMAIN DevSeq : DevHolds(n)' = DevHolds(n)
  BY DEF VmHolds, OuterHolds, DevHolds
<1> QED
  BY <1>1, <1>2 DEF RunInv, VcpuCountInv, WaitInv, DevCountInv, LockedInv

\* The data stay.
LEMMA DataFrame ==
  ASSUME RunInv, UNCHANGED <<store, job, file, ghost>>
  PROVE  StoreInv' /\ InfoInv' /\ SavedInv' /\ CutInv' /\ FileInv'
<1>1. /\ cpu' = cpu /\ kernel' = kernel /\ obj' = obj /\ job' = job /\ file' = file /\ cut' = cut /\ moved' = moved
      /\ late' = late /\ ticked' = ticked
  BY DEF store, ghost, since
<1>2. StoreInv' /\ InfoInv'
  BY <1>1 DEF RunInv, StoreInv, InfoInv
<1>3. SavedInv'
  BY <1>1 DEF RunInv, SavedInv, AsSaved
<1>4. CutInv' /\ FileInv'
  BY <1>1 DEF RunInv, CutInv, IsCut, FileInv
<1> QED
  BY <1>2, <1>3, <1>4

\* The jobs stay, and what they have read and saved stays true.
LEMMA ReadsFrame ==
  ASSUME RunInv, job' = job, ReadsKept, SavedKept
  PROVE  InfoInv' /\ SavedInv'
<1>1. InfoInv'
  <2>0. late' = [t \in Savers |-> late'[t]]
    BY DEF ReadsKept
  <2> SUFFICES ASSUME NEW t \in Savers, NEW v \in Vcpus, HasInfo(job[t])
               PROVE  ReadFrom(job[t].info[v], cpu'[v], v \in late'[t])
    BY <2>0 DEF InfoInv
  <2>1. ReadFrom(job[t].info[v], cpu[v], v \in late[t])
    BY DEF RunInv, InfoInv
  <2> QED
    BY <2>1, ReadStays
<1>2. SavedInv'
  <2>0. ticked' = [t \in Savers |-> ticked'[t]]
    BY DEF SavedKept
  <2> SUFFICES ASSUME NEW t \in Savers, NEW n \in DOMAIN DevSeq, HasSaved(job[t], n),
                      DevSeq[n] \in KernelDevs \ ticked'[t]
               PROVE  AsSaved(DevSeq[n])'
    BY <2>0 DEF SavedInv
  <2>1. AsSaved(DevSeq[n])' \/ (DevSeq[n] \notin ticked[t] /\ ~AsSaved(DevSeq[n]))
    BY DEF SavedKept
  <2> QED
    BY <2>1 DEF RunInv, SavedInv
<1> QED
  BY <1>1, <1>2

\* Interrupts change nothing of the vcpus but the LAPICs.
LEMMA InterruptedIs ==
  ASSUME RunInv, Interrupted, NoteLapics
  PROVE  /\ cpu' = [v \in Vcpus |-> cpu'[v]]
         /\ \A v \in Vcpus : IsCpu(cpu'[v]) /\ cpu'[v].lapic \in Lapics
         /\ ReadsKept
<1>1. PICK l \in [Vcpus -> Lapics] : cpu' = [v \in Vcpus |-> WithLapic(cpu[v], l[v])]
  BY DEF Interrupted
<1>2. ASSUME NEW v \in Vcpus
      PROVE  /\ IsCpu(cpu'[v]) /\ cpu'[v].lapic \in Lapics
             /\ \A m \in Lapics : Info(WithLapic(cpu'[v], m)) = Info(WithLapic(cpu[v], m))
  <2>1. l[v] \in Lapics /\ cpu'[v] = WithLapic(cpu[v], l[v]) /\ IsCpu(cpu[v])
    BY <1>1 DEF RunInv, StoreInv
  <2>2. IsCpu(cpu'[v])
    BY <2>1, LapicOf
  <2> QED
    BY <2>1, <2>2, LapicAgain
<1>3. ReadsKept
  BY <1>2, LapicsNoted DEF ReadsKept
<1> QED
  BY <1>1, <1>2, <1>3

\* The guest runs.
LEMMA GuestStep ==
  ASSUME RunInv, NEW v \in Vcpus, Guest(v)
  PROVE  RunInv'
<1>u. UNCHANGED <<phase, gates, obj, job, file, ghost>> /\ vcpu[v] = "run"
  BY DEF Guest
<1>1. phase' = "running" /\ JobsInv' /\ VcpuCountInv' /\ WaitInv' /\ DevCountInv' /\ LockedInv'
  BY <1>u, MachineFrame DEF gates, ghost
<1>2. ParkedInv' /\ ServeInv' /\ GateInv'
  BY <1>u DEF RunInv, gates, ParkedInv, ServeInv, GateInv
<1>3. InfoInv' /\ SavedInv'
  <2>1. \A t \in Savers : ~HasInfo(job[t]) /\ \A n \in DOMAIN DevSeq : ~HasSaved(job[t], n)
    BY <1>u, Stopped
  <2>2. job' = job /\ late' = late /\ ticked' = ticked
    BY <1>u DEF ghost, since
  <2>3. InfoInv /\ SavedInv
    BY DEF RunInv
  <2> QED
    BY <2>1, <2>2, <2>3 DEF InfoInv, SavedInv
<1>4. CutInv' /\ FileInv'
  BY <1>u, CutFrame DEF RunInv, ghost
<1>5. StoreInv'
  <2>0. StoreInv
    BY DEF RunInv
  <2>1. CASE \E k \in VcpuStates \ {cpu[v]} : cpu' = [cpu EXCEPT ![v] = k] /\ UNCHANGED kernel
    <3>1. PICK k \in VcpuStates : cpu' = [cpu EXCEPT ![v] = k] /\ kernel' = kernel
      BY <2>1
    <3>2. IsCpu(k) /\ k.lapic \in Lapics
      BY StatesAssumption DEF IsCpu, Lapics
    <3> QED
      BY <1>u, <2>0, <3>1, <3>2 DEF StoreInv
  <2>2. CASE kernel' \in KernelStates \ {kernel} /\ UNCHANGED cpu
    <3>1. kernel' = [d \in KernelDevs |-> kernel'[d]] /\ \A d \in KernelDevs : IsKernel(d, kernel'[d])
      BY <2>2, StatesAssumption
    <3> QED
      BY <1>u, <2>0, <2>2, <3>1 DEF StoreInv
  <2> QED
    BY <2>1, <2>2 DEF Guest
<1> QED
  BY <1>1, <1>2, <1>3, <1>4, <1>5 DEF RunInv

\* A vcpu goes from one place to another: an exit, parking and resuming, and
\* the end of its Loop.
LEMMA VcpuMoves ==
  ASSUME RunInv, NEW v \in Vcpus, NEW x \in Devs \cup {"run", "parked", "dead"}, vcpu[v] \in {"run", "parked"},
         x # "parked" => vcpu[v] # "parked" \/ vpaused[v] = 0,
         vcpu' = [vcpu EXCEPT ![v] = x],
         UNCHANGED <<phase, vpaused, gate, busy, store, job, file, ghost>>
  PROVE  RunInv'
<1>1. phase' = "running" /\ JobsInv' /\ VcpuCountInv' /\ WaitInv' /\ DevCountInv' /\ LockedInv'
  BY MachineFrame DEF ghost
<1>2. StoreInv' /\ InfoInv' /\ SavedInv' /\ CutInv' /\ FileInv'
  BY DataFrame
<1>3. GateInv'
  BY DEF RunInv, GateInv
<1>4. ServeInv'
  <2>1. "run" \notin Devs /\ "parked" \notin Devs
    BY DevicesAssumption DEF Devs
  <2> QED
    BY <2>1 DEF RunInv, ServeInv
<1>5. ParkedInv'
  <2>1. x # "parked" => \A t \in Savers : ~Granted(job[t], v)
    BY NotGranted
  <2> QED
    BY <2>1 DEF RunInv, ParkedInv, ServeInv
<1> QED
  BY <1>1, <1>2, <1>3, <1>4, <1>5 DEF RunInv

\* The end of a vcpu's Loop.
LEMMA EndStep ==
  ASSUME RunInv, NEW v \in Vcpus, End(v)
  PROVE  RunInv'
<1>1. vcpu[v] = "run" /\ vcpu' = [vcpu EXCEPT ![v] = "dead"]
      /\ UNCHANGED <<phase, vpaused, gate, busy, store, job, file, ghost>>
  BY DEF End
<1> QED
  BY <1>1, VcpuMoves

\* KVM's timers go on: what they change is noted.
LEMMA TickStep ==
  ASSUME RunInv, Tick
  PROVE  RunInv'
<1>u. /\ UNCHANGED <<phase, gates, obj, job, file, cut, moved>>
      /\ kernel' \in KernelStates /\ Interrupted /\ NoteLapics
      /\ ticked' = [s \in Savers |-> ticked[s] \cup {d \in KernelDevs : kernel'[d] # kernel[d]}]
  BY DEF Tick
<1>0. StoreInv /\ CutInv /\ FileInv
  BY DEF RunInv
<1>1. phase' = "running" /\ JobsInv' /\ VcpuCountInv' /\ WaitInv' /\ DevCountInv' /\ LockedInv'
  BY <1>u, MachineFrame DEF gates
<1>2. ParkedInv' /\ ServeInv' /\ GateInv'
  BY <1>u DEF RunInv, gates, ParkedInv, ServeInv, GateInv
<1>3. /\ cpu' = [v \in Vcpus |-> cpu'[v]]
      /\ \A v \in Vcpus : IsCpu(cpu'[v]) /\ cpu'[v].lapic \in Lapics
      /\ ReadsKept
  BY <1>u, InterruptedIs
<1>4. SavedKept
  <2>1. ticked' = [t \in Savers |-> ticked'[t]]
    BY <1>u
  <2> SUFFICES ASSUME NEW t \in Savers, NEW d \in KernelDevs, d \notin ticked'[t]
               PROVE  AsSaved(d)' \/ (d \notin ticked[t] /\ ~AsSaved(d))
    BY <2>1 DEF SavedKept
  <2>2. d \notin ticked[t] /\ kernel'[d] = kernel[d]
    BY <1>u
  <2> QED
    BY <1>u, <2>2 DEF AsSaved
<1>5. InfoInv' /\ SavedInv'
  BY <1>u, <1>3, <1>4, ReadsFrame
<1>6. StoreInv'
  <2>1. kernel' = [d \in KernelDevs |-> kernel'[d]] /\ \A d \in KernelDevs : IsKernel(d, kernel'[d])
    BY <1>u, StatesAssumption
  <2> QED
    BY <1>0, <1>u, <1>3, <2>1 DEF StoreInv
<1>7. CutInv' /\ FileInv'
  BY <1>0, <1>u, CutFrame
<1> QED
  BY <1>1, <1>2, <1>5, <1>6, <1>7 DEF RunInv

\* An exit.
LEMMA ExitStep ==
  ASSUME RunInv, NEW v \in Vcpus, NEW d \in Devs, Exit(v, d)
  PROVE  RunInv'
<1>1. vcpu[v] = "run" /\ vcpu' = [vcpu EXCEPT ![v] = d]
      /\ UNCHANGED <<phase, vpaused, gate, busy, store, job, file, ghost>>
  BY DEF Exit
<1> QED
  BY <1>1, VcpuMoves

\* A vcpu parks.
LEMMA ParkStep ==
  ASSUME RunInv, NEW v \in Vcpus, Park(v)
  PROVE  RunInv'
<1>1. vcpu[v] = "run" /\ vcpu' = [vcpu EXCEPT ![v] = "parked"]
      /\ UNCHANGED <<phase, vpaused, gate, busy, store, job, file, ghost>>
  BY DEF Park
<1> QED
  BY <1>1, VcpuMoves

\* A vcpu resumes: nobody has it paused.
LEMMA ResumeStep ==
  ASSUME RunInv, NEW v \in Vcpus, Resume(v)
  PROVE  RunInv'
<1>1. vcpu[v] = "parked" /\ vpaused[v] = 0 /\ vcpu' = [vcpu EXCEPT ![v] = "run"]
      /\ UNCHANGED <<phase, vpaused, gate, busy, store, job, file, ghost>>
  BY DEF Resume
<1> QED
  BY <1>1, VcpuMoves

\* A handler acquires its device.
LEMMA AcquireStep ==
  ASSUME RunInv, NEW d \in Devs \ KernelDevs, NEW v \in Vcpus \cup {Main}, AcquireFor(d, v)
  PROVE  RunInv'
<1>u. /\ UNCHANGED <<phase, vcpu, vpaused, gate, store, job, file, ghost>>
      /\ busy' = [busy EXCEPT ![d] = v] /\ gate[d].lock = "free" /\ (v \in Vcpus => vcpu[v] = d)
  BY DEF AcquireFor
<1>1. phase' = "running" /\ JobsInv' /\ VcpuCountInv' /\ WaitInv' /\ DevCountInv' /\ LockedInv'
  BY <1>u, MachineFrame DEF ghost
<1>2. StoreInv' /\ InfoInv' /\ SavedInv' /\ CutInv' /\ FileInv'
  BY <1>u, DataFrame
<1>3. ParkedInv'
  BY <1>u DEF RunInv, ParkedInv
<1>4. ServeInv'
  BY <1>u DEF RunInv, ServeInv
<1>5. GateInv'
  <2>1. \A e \in Devs : gate[e].lock = "locked" => busy'[e] = Nobody
    BY <1>u DEF RunInv, GateInv, ServeInv
  <2> QED
    BY <1>u, <2>1 DEF RunInv, GateInv
<1> QED
  BY <1>1, <1>2, <1>3, <1>4, <1>5 DEF RunInv

\* A handler is done with its device, which has changed.
LEMMA WorkedStep ==
  ASSUME RunInv, NEW d \in Devs, Worked(d),
         vcpu' = IF busy[d] \in Vcpus THEN [vcpu EXCEPT ![busy[d]] = "run"] ELSE vcpu
  PROVE  RunInv'
<1>u. /\ UNCHANGED <<phase, vpaused, gate, job, file, cut, ticked>>
      /\ busy[d] # Nobody /\ busy' = [busy EXCEPT ![d] = Nobody]
      /\ vcpu' = IF busy[d] \in Vcpus THEN [vcpu EXCEPT ![busy[d]] = "run"] ELSE vcpu
      /\ obj' = [obj EXCEPT ![d] = @ + 1]
      /\ kernel' \in KernelStates /\ Interrupted /\ NoteLapics
      /\ moved' = IF ~cut.taken THEN moved ELSE moved \cup {d}
  BY DEF Worked
<1>0. ServeInv /\ ParkedInv /\ StoreInv /\ GateInv /\ CutInv /\ FileInv
  BY DEF RunInv
<1>1. phase' = "running" /\ JobsInv' /\ VcpuCountInv' /\ WaitInv' /\ DevCountInv' /\ LockedInv'
  BY <1>u, MachineFrame
<1>2. d \notin KernelDevs
  BY <1>u, <1>0 DEF ServeInv
<1>3. busy[d] \in Vcpus => vcpu[busy[d]] = d
  BY <1>0 DEF ServeInv
<1>4. "run" \notin Devs /\ "parked" \notin Devs
  BY DevicesAssumption DEF Devs
<1>5. ParkedInv'
  BY <1>u, <1>0, <1>3, <1>4 DEF ParkedInv, ServeInv
<1>6. ServeInv'
  <2>1. vcpu' \in [Vcpus -> Devs \cup {"run", "parked", "dead"}] /\ busy' \in [Devs -> Vcpus \cup {Main, Nobody}]
    BY <1>u, <1>0 DEF ServeInv
  <2>2. \A e \in KernelDevs : busy'[e] = Nobody
    BY <1>u, <1>0, <1>2 DEF ServeInv
  <2>3. ASSUME NEW e \in Devs, busy'[e] \in Vcpus PROVE vcpu'[busy'[e]] = e
    <3>1. e # d
      BY <1>u, <1>0, <2>3, ActorsAssumption DEF ServeInv
    <3>2. busy'[e] = busy[e] /\ vcpu[busy[e]] = e
      BY <1>u, <1>0, <2>3, <3>1 DEF ServeInv
    <3>3. busy[e] # busy[d] \/ busy[d] \notin Vcpus
      BY <1>3, <3>1, <3>2
    <3> QED
      BY <1>u, <1>0, <2>3, <3>2, <3>3 DEF ServeInv
  <2> QED
    BY <2>1, <2>2, <2>3 DEF ServeInv
<1>7. GateInv'
  <2>1. \A e \in Devs : gate[e].lock = "locked" => busy'[e] = Nobody
    BY <1>u, <1>0 DEF GateInv, ServeInv
  <2> QED
    BY <1>u, <1>0, <2>1 DEF GateInv
<1>8. \A t \in Savers, n \in DOMAIN DevSeq : ~HasSaved(job[t], n)
  BY <1>u, Stopped
<1>r. /\ cpu' = [v \in Vcpus |-> cpu'[v]]
      /\ \A v \in Vcpus : IsCpu(cpu'[v]) /\ cpu'[v].lapic \in Lapics
      /\ ReadsKept
  BY <1>u, InterruptedIs
<1>9. SavedInv' /\ InfoInv'
  <2>1. SavedInv'
    BY <1>u, <1>8 DEF RunInv, SavedInv
  <2>2. InfoInv'
    <3>0. late' = [t \in Savers |-> late'[t]] /\ job' = job
      BY <1>u, <1>r DEF ReadsKept
    <3> SUFFICES ASSUME NEW t \in Savers, NEW v \in Vcpus, HasInfo(job[t])
                 PROVE  ReadFrom(job[t].info[v], cpu'[v], v \in late'[t])
      BY <3>0 DEF InfoInv
    <3>1. ReadFrom(job[t].info[v], cpu[v], v \in late[t])
      BY DEF RunInv, InfoInv
    <3> QED
      BY <1>r, <3>1, ReadStays
  <2> QED
    BY <2>1, <2>2
<1>10. obj' = [e \in Devs |-> obj'[e]] /\ \A e \in Devs \ {d} : obj'[e] = obj[e]
  BY <1>u, <1>0 DEF StoreInv
<1>11. StoreInv'
  <2>1. kernel' = [e \in KernelDevs |-> kernel'[e]] /\ \A e \in KernelDevs : IsKernel(e, kernel'[e])
    BY <1>u, StatesAssumption
  <2>2. \A e \in KernelDevs : IsObject(e, obj'[e])
    <3>1. KernelDevs \subseteq Devs \ {d}
      BY <1>2, DevicesAssumption DEF Devs
    <3> QED
      BY <1>0, <1>10, <3>1 DEF StoreInv
  <2> QED
    BY <1>0, <1>r, <1>u, <1>10, <2>1, <2>2 DEF StoreInv
<1>12. CutInv' /\ FileInv'
  <2>1. CASE cut.taken
    <3>1. moved' = moved \cup {d}
      BY <1>u, <2>1
    <3>2. \A e \in Devs \ moved' : obj'[e] = obj[e]
      BY <1>10, <3>1
    <3> QED
      BY <1>0, <1>u, <3>1, <3>2, CutFrame
  <2>2. CASE ~cut.taken
    <3>1. ~HasCut(job[Main])
      BY <1>0, <2>2 DEF CutInv, IsCut
    <3> QED
      BY <1>0, <1>u, <2>2, <3>1 DEF CutInv, FileInv
  <2> QED
    BY <2>1, <2>2
<1> QED
  BY <1>1, <1>5, <1>6, <1>7, <1>9, <1>11, <1>12 DEF RunInv

\* It releases the device, and its vcpu goes on.
LEMMA ReleaseStep ==
  ASSUME RunInv, NEW d \in Devs, Release(d)
  PROVE  RunInv'
BY WorkedStep DEF Release

\* Or, a worker, dies with it.
LEMMA WorkerDiesStep ==
  ASSUME RunInv, NEW d \in Devs, WorkerDies(d)
  PROVE  RunInv'
<1>1. Worked(d) /\ busy[d] \notin Vcpus /\ vcpu' = vcpu
  BY ActorsAssumption DEF WorkerDies
<1> QED
  BY <1>1, WorkedStep

-----------------------------------------------------------------------------
(* The restart.                                                            *)

\* One more object is encoded.
LEMMA EncodeStep ==
  ASSUME RunInv, Encode
  PROVE  RunInv'
<1> DEFINE j == job[Main]
           k == LoopedJob(j, Len(DevSeq), "encode", "exec")
<1> USE Numbers
<1>0. /\ JobsInv /\ InfoInv /\ SavedInv /\ CutInv /\ FileInv /\ IsJob(Main, j) /\ j.pc = "encode" /\ Main \in Savers
      /\ Becomes(Main, k)
  BY SaversFinite DEF RunInv, JobsInv, Encode, At, Loops
<1>u. UNCHANGED <<phase, gates, store, ghost>> /\ file' = Append(file, obj[DevSeq[j.i]])
  BY DEF Encode, Dev
<1>i. j.i \in DOMAIN DevSeq /\ j.i \in Nat /\ j.op = "restart" /\ j.err = "nil"
  BY <1>0 DEF IsJob, SavePcs, HeldPcs, OuterPcs, LockPcs
<1>f. /\ k = [op |-> k.op, pc |-> k.pc, i |-> k.i, info |-> k.info, err |-> k.err]
      /\ k.op = "restart" /\ k.info = j.info /\ k.err = "nil"
      /\ \/ j.i < Len(DevSeq) /\ k.pc = "encode" /\ k.i = j.i + 1
         \/ j.i = Len(DevSeq) /\ k.pc = "exec" /\ k.i = 1
  BY <1>i DEF LoopedJob, MovedJob, Job
<1> HIDE DEF k
<1>1. IsJob(Main, k)
  BY <1>f, <1>i DEF IsJob, SavePcs, HeldPcs, OuterPcs, LockPcs
<1>2. SameVcpus(j, k) /\ SameDevices(j, k)
  BY <1>0, <1>f, <1>i DEF SameVcpus, SameDevices, VmHeld, OuterHeld, Granted, DevHeld, DevGranted, SavePcs, HeldPcs, LockPcs
<1>3. ~HasInfo(k) /\ (\A n : ~HasSaved(k, n)) /\ HasCut(j) /\ Encoded(k) = j.i /\ Encoded(j) = j.i - 1
  BY <1>0, <1>f, <1>i DEF HasInfo, HasSaved, HasCut, Encoded, HeldPcs
<1>4. job'[Main] = k
  BY <1>0, BecomesIs
<1>5. JobsInv' /\ InfoInv' /\ SavedInv'
  <2>1. ReadsKept /\ SavedKept
    BY <1>0, <1>u, StoreKept DEF store, ghost, since
  <2> QED
    BY <1>0, <1>1, <1>3, <2>1, ReadFrame
<1>6. IsCut
  BY <1>0, <1>3 DEF CutInv
<1>7. CutInv'
  BY <1>0, <1>u, <1>4, <1>6, <1>f DEF CutInv, IsCut, store, ghost
<1>8. FileInv'
  <2>1. Len(file) = j.i - 1 /\ file = [n \in 1 .. Len(file) |-> file[n]] /\ Len(file) \in Nat
    BY <1>0, <1>3, <1>i DEF FileInv
  <2>2. /\ Len(file') = j.i /\ file' = [n \in 1 .. j.i |-> file'[n]]
        /\ file'[j.i] = obj[DevSeq[j.i]] /\ \A n \in 1 .. j.i - 1 : file'[n] = file[n]
    <3>1. file \in Seq({file[n] : n \in 1 .. Len(file)})
      BY <2>1
    <3>2. file \in Seq({file[n] : n \in 1 .. Len(file)} \cup {obj[DevSeq[j.i]]})
      BY <2>1
    <3> QED
      BY <1>u, <2>1, <3>2, <1>i
  <2>3. \A n \in 1 .. j.i : DevSeq[n] \notin moved => file'[n] = cut.obj[DevSeq[n]]
    <3> SUFFICES ASSUME NEW n \in 1 .. j.i, DevSeq[n] \notin moved
                 PROVE  file'[n] = cut.obj[DevSeq[n]]
      OBVIOUS
    <3>1. CASE n = j.i
      BY <1>6, <1>i, <2>2, <3>1 DEF IsCut
    <3>2. CASE n # j.i
      <4>1. n \in 1 .. j.i - 1 /\ n \in DOMAIN file
        BY <1>i, <2>1, <3>2
      <4> QED
        BY <1>0, <2>2, <4>1 DEF FileInv
    <3> QED
      BY <3>1, <3>2
  <2>4. cut' = cut /\ moved' = moved
    BY <1>u DEF ghost
  <2>5. DOMAIN file' = 1 .. j.i
    BY <2>2
  <2> QED
    BY <1>3, <1>4, <2>2, <2>3, <2>4, <2>5 DEF FileInv
<1>9. VcpuCountInv' /\ ParkedInv'
  BY <1>0, <1>2, <1>u, VcpuFrame DEF RunInv, gates
<1>10. WaitInv' /\ DevCountInv' /\ LockedInv'
  BY <1>0, <1>2, <1>u, DevFrame DEF RunInv, gates
<1>11. ServeInv' /\ GateInv' /\ StoreInv' /\ phase' = "running"
  BY <1>u DEF RunInv, gates, store, ServeInv, GateInv, StoreInv
<1> QED
  BY <1>5, <1>7, <1>8, <1>9, <1>10, <1>11 DEF RunInv

\* The process goes on without the restart.
LEMMA RestartFailsStep ==
  ASSUME RunInv, RestartFails
  PROVE  RunInv'
<1> DEFINE j == job[Main]
<1> USE Numbers
<1>0. /\ JobsInv /\ InfoInv /\ SavedInv /\ CutInv /\ FileInv /\ IsJob(Main, j) /\ j.pc = "exec" /\ Main \in Savers
      /\ Becomes(Main, EndedJob)
  BY SaversFinite DEF RunInv, JobsInv, RestartFails, At, Moves, MovedJob
<1>u. UNCHANGED <<phase, gates, store, since>> /\ file' = <<>> /\ cut' = NoCut /\ moved' = {}
  BY DEF RestartFails
<1>i. j.op = "restart"
  BY <1>0 DEF IsJob, SavePcs, HeldPcs, OuterPcs, LockPcs
<1>k. PICK k : k = EndedJob
  OBVIOUS
<1>f. /\ k = [op |-> k.op, pc |-> k.pc, i |-> k.i, info |-> k.info, err |-> k.err]
      /\ k.op = "ended" /\ k.pc = "idle" /\ k.i = 1 /\ k.info = Nil /\ k.err = "nil"
  BY <1>k DEF EndedJob, Job
<1>b. Becomes(Main, k)
  BY <1>0, <1>k
<1>1. IsJob(Main, k)
  BY <1>f DEF IsJob, SavePcs, HeldPcs, OuterPcs, LockPcs
<1>2. SameVcpus(j, k) /\ SameDevices(j, k)
  BY <1>0, <1>f, <1>i DEF SameVcpus, SameDevices, VmHeld, OuterHeld, Granted, DevHeld, DevGranted, SavePcs, HeldPcs, LockPcs
<1>3. ~HasInfo(k) /\ (\A n : ~HasSaved(k, n)) /\ ~HasCut(k) /\ Encoded(k) = 0
  BY <1>f DEF HasInfo, HasSaved, HasCut, Encoded, HeldPcs
<1>4. job'[Main] = k
  BY <1>0, <1>b, BecomesIs
<1>5. JobsInv' /\ InfoInv' /\ SavedInv'
  <2>1. ReadsKept /\ SavedKept
    BY <1>0, <1>u, StoreKept DEF store, since
  <2> QED
    BY <1>0, <1>b, <1>1, <1>3, <2>1, ReadFrame
<1>6. CutInv'
  BY <1>u, <1>3, <1>4 DEF CutInv, NoCut
<1>7. FileInv'
  BY <1>u, <1>3, <1>4 DEF FileInv
<1>9. VcpuCountInv' /\ ParkedInv'
  BY <1>0, <1>b, <1>2, <1>u, VcpuFrame DEF RunInv, gates
<1>10. WaitInv' /\ DevCountInv' /\ LockedInv'
  BY <1>0, <1>b, <1>2, <1>u, DevFrame DEF RunInv, gates
<1>11. ServeInv' /\ GateInv' /\ StoreInv' /\ phase' = "running"
  BY <1>u DEF RunInv, gates, store, ServeInv, GateInv, StoreInv
<1> QED
  BY <1>5, <1>6, <1>7, <1>9, <1>10, <1>11 DEF RunInv

\* The new process has the devices of the file.
LEMMA ExecStep ==
  ASSUME RunInv, Exec
  PROVE  NewInv'
<1> DEFINE j == job[Main]
<1>0. /\ JobsInv /\ CutInv /\ FileInv /\ IsJob(Main, j) /\ j.pc = "exec" /\ Main \in Savers
  BY SaversFinite DEF RunInv, JobsInv, Exec, At
<1>u. /\ phase' = "vcpus" /\ vcpu' = [v \in Vcpus |-> "parked"] /\ busy' = [d \in Devs |-> Nobody]
      /\ cpu' = [v \in Vcpus |-> FreshVcpu] /\ kernel' = FreshKernel /\ obj' = [d \in Devs |-> Load(d)]
      /\ job' = [s \in Savers |-> Job("ended", "done", 1, j.info, "nil")] /\ cut' = cut /\ moved' = moved
  BY DEF Exec, ghost
<1>1. HasCut(j) /\ IsCut
  BY <1>0 DEF IsJob, HasCut, CutInv, SavePcs, HeldPcs, OuterPcs, LockPcs
<1>2. \A s \in Savers : job'[s].pc = "done" /\ job'[s].info = j.info
  BY <1>u DEF Job
<1>3. \A d \in Devs \ moved : obj'[d] = cut.obj[d]
  <2> SUFFICES ASSUME NEW d \in Devs \ moved PROVE obj'[d] = cut.obj[d]
    OBVIOUS
  <2>1. PICK n \in DOMAIN DevSeq : DevSeq[n] = d
    BY Numbers
  <2>2. (CHOOSE i \in DOMAIN DevSeq : DevSeq[i] = d) = n
    BY <2>1, Numbers
  <2>3. n \in DOMAIN file
    BY <1>0, <2>1, Numbers DEF FileInv, Encoded
  <2>4. obj'[d] = file[n]
    BY <1>u, <2>2 DEF Load
  <2> QED
    BY <1>0, <2>1, <2>3, <2>4 DEF FileInv
<1>4. IsCut'
  BY <1>0, <1>u, <1>1, <1>2, <1>3 DEF IsCut
<1> QED
  BY <1>u, <1>2, <1>4 DEF NewInv

\* Nothing but main moves in the new process.
LEMMA NewStays ==
  ASSUME NewInv, [Next]_vars, ~CreateVcpus, ~RestoreModel
  PROVE  UNCHANGED vars
<1>1. /\ phase # "running"
      /\ \A v \in Vcpus : vcpu[v] = "parked"
      /\ \A d \in Devs : busy[d] = Nobody
      /\ \A s \in Savers : job[s].pc = "done"
  BY DEF NewInv
<1>2. ~Machine
  BY <1>1 DEF Machine, Guest, End, Park, Tick, Exit, AcquireFor, Worked, Release, WorkerDies
<1>3. \A s \in Savers : ~Save(s)
  BY <1>1 DEF Save, PauseVcpu, VcpuPaused, UnpauseVcpu, VcpuInfo, PauseDevice, DevicePaused, UnpauseDevice,
              SaveModel, LoadVcpu, LoadModel, At
<1>4. ~Encode /\ ~RestartFails /\ ~Exec
  BY <1>1, SaversFinite DEF Encode, RestartFails, Exec, At
<1>5. ~Calls
  BY <1>1 DEF Calls, Start, DeviceCall
<1> QED
  BY <1>2, <1>3, <1>4, <1>5 DEF Next, Restart

\* Each vcpu is loaded with what was read of it.
LEMMA CreateVcpusStep ==
  ASSUME NewInv, CreateVcpus
  PROVE  NewInv'
<1>u. /\ phase = "vcpus" /\ phase' = "load"
      /\ cpu' = [v \in Vcpus |-> LoadParts(cpu[v], job[Main].info[v], Parts)]
      /\ UNCHANGED <<gates, kernel, obj, job, file, ghost>>
  BY DEF CreateVcpus
<1>1. ASSUME NEW v \in Vcpus
      PROVE  \E l \in Lapics : /\ SameVcpu(cpu'[v], WithLapic(cut.cpu[v], l))
                               /\ v \in cut.late \/ l = cut.cpu[v].lapic
  <2>1. cpu[v] = FreshVcpu /\ IsCpu(cut.cpu[v]) /\ ReadFrom(job[Main].info[v], cut.cpu[v], v \in cut.late)
    BY <1>u DEF NewInv, IsCut
  <2>2. PICK l \in Lapics : /\ job[Main].info[v] = Info(WithLapic(cut.cpu[v], l))
                            /\ v \in cut.late \/ l = cut.cpu[v].lapic
    BY <2>1 DEF ReadFrom, Info
  <2>3. IsCpu(FreshVcpu)
    BY StatesAssumption DEF IsCpu
  <2>4. IsCpu(WithLapic(cut.cpu[v], l))
    BY <2>1, LapicOf
  <2>5. cpu'[v] = LoadParts(FreshVcpu, Info(WithLapic(cut.cpu[v], l)), Parts)
    BY <1>u, <2>1, <2>2
  <2>6. SameVcpu(cpu'[v], WithLapic(cut.cpu[v], l))
    BY <2>3, <2>4, <2>5, LoadCopies
  <2> QED
    BY <2>2, <2>6
<1>3. \A v \in Vcpus : Restored(v)'
  BY <1>1, <1>u DEF Restored, ghost
<1>2. IsCut'
  BY <1>u DEF NewInv, IsCut, ghost
<1> QED
  BY <1>u, <1>3, <1>2 DEF NewInv, gates, ghost

\* Each device in the kernel is loaded with its object.
LEMMA RestoreModelStep ==
  ASSUME NewInv, RestoreModel
  PROVE  NewInv'
<1>u. /\ phase = "load" /\ phase' = "restored" /\ kernel' = [d \in KernelDevs |-> Loaded(d)]
      /\ UNCHANGED <<gates, cpu, obj, job, file, ghost>>
  BY DEF RestoreModel
<1>1. \A d \in KernelDevs \ (moved \cup cut.ticked) : kernel'[d] = cut.kernel[d]
  <2> SUFFICES ASSUME NEW d \in KernelDevs \ (moved \cup cut.ticked) PROVE kernel'[d] = cut.kernel[d]
    OBVIOUS
  <2>1. d \in Devs
    BY DevicesAssumption DEF Devs
  <2>2. /\ kernel[d] = FreshKernel[d] /\ obj[d] = GetKernel(d, cut.kernel[d]) /\ IsKernel(d, cut.kernel[d])
    BY <1>u, <2>1 DEF NewInv, IsCut
  <2>3. IsKernel(d, FreshKernel[d])
    BY StatesAssumption
  <2>4. kernel'[d] = SetKernel(d, FreshKernel[d], GetKernel(d, cut.kernel[d]))
    BY <1>u, <2>2 DEF Loaded
  <2> QED
    BY <2>2, <2>3, <2>4, KernelCopied
<1>2. IsCut'
  BY <1>u DEF NewInv, IsCut, ghost
<1>3. \A v \in Vcpus : Restored(v)'
  BY <1>u DEF NewInv, Restored, ghost
<1> QED
  BY <1>u, <1>1, <1>2, <1>3 DEF NewInv, gates, ghost

-----------------------------------------------------------------------------
(* The theorems.                                                           *)

\* The machine as it starts.
LEMMA InitRuns ==
  ASSUME Init
  PROVE  RunInv
<1>u. /\ phase = "running" /\ Started /\ cpu = [v \in Vcpus |-> BootVcpu] /\ kernel = BootKernel
      /\ obj = [d \in Devs |-> IF d \in KernelDevs THEN GetKernel(d, FreshKernel[d]) ELSE 0]
      /\ job = [s \in Savers |-> IdleJob] /\ file = <<>> /\ cut = NoCut /\ moved = {}
      /\ late = [s \in Savers |-> {}] /\ ticked = [s \in Savers |-> {}]
  BY DEF Init
<1>j. PICK k : k = IdleJob
  OBVIOUS
<1>f. /\ k = [op |-> k.op, pc |-> k.pc, i |-> k.i, info |-> k.info, err |-> k.err]
      /\ k.op = "none" /\ k.pc = "idle" /\ k.i = 1 /\ k.info = Nil /\ k.err = "nil"
  BY <1>j DEF IdleJob, Job
<1>k. job = [s \in Savers |-> k]
  BY <1>u, <1>j
<1>1. JobsInv
  BY <1>f, <1>k DEF JobsInv, IsJob, SavePcs, HeldPcs, OuterPcs, LockPcs
<1>2. /\ \A v : ~VmHeld(k, v) /\ ~OuterHeld(k, v) /\ ~Granted(k, v) /\ ~DevHeld(k, v) /\ ~DevGranted(k, v)
      /\ ~HasInfo(k) /\ (\A n : ~HasSaved(k, n)) /\ ~HasCut(k) /\ Encoded(k) = 0 /\ k.pc \notin LockPcs
  BY <1>f DEF VmHeld, OuterHeld, Granted, DevHeld, DevGranted, HasInfo, HasSaved, HasCut, Encoded,
              SavePcs, HeldPcs, LockPcs
<1>3. \A v : VmHolds(v) = {} /\ OuterHolds(v) = {} /\ DevHolds(v) = {}
  BY <1>k, <1>2 DEF VmHolds, OuterHolds, DevHolds
<1>c. \A v : Cardinality(VmHolds(v)) = 0 /\ Cardinality(OuterHolds(v)) = 0 /\ Cardinality(DevHolds(v)) = 0
  <2> TAKE v
  <2>1. VmHolds(v) = {} /\ OuterHolds(v) = {} /\ DevHolds(v) = {}
    BY <1>3
  <2> QED
    BY <2>1, FS_EmptySet
<1>v. vpaused = [v \in Vcpus |-> 0]
  BY <1>u DEF Started
<1>4. VcpuCountInv /\ ParkedInv
  <2>1. vpaused \in [Vcpus -> Nat]
    BY <1>v
  <2>2. ASSUME NEW v \in Vcpus
        PROVE  Cardinality(VmHolds(v)) + Cardinality(OuterHolds(v)) <= vpaused[v]
    <3>1. vpaused[v] = 0 /\ Cardinality(VmHolds(v)) = 0 /\ Cardinality(OuterHolds(v)) = 0
      BY <1>v, <1>c
    <3> QED
      BY <3>1
  <2>3. ParkedInv
    BY <1>k, <1>2 DEF ParkedInv
  <2> QED
    BY <2>1, <2>2, <2>3 DEF VcpuCountInv
<1>5. ServeInv
  <2>1. Nobody \notin Vcpus /\ KernelDevs \subseteq Devs
    BY ActorsAssumption, DevicesAssumption DEF Devs
  <2> QED
    BY <1>u, <2>1 DEF ServeInv, Started
<1>6. FreeGate \in [paused : Nat, manual : BOOLEAN, lock : {"free", "waiting", "locked"},
                    mutex : Savers \cup {Nobody}]
      /\ FreeGate.paused = 0 /\ ~FreeGate.manual /\ FreeGate.lock = "free" /\ FreeGate.mutex = Nobody
  BY DEF FreeGate, Gate
<1>7. gate = [d \in Devs |-> FreeGate]
  BY <1>u DEF Started
<1>8. GateInv
  BY <1>6, <1>7 DEF GateInv
<1>9. WaitInv /\ LockedInv
  BY <1>k, <1>2 DEF WaitInv, LockedInv
<1>10. DevCountInv
  <2> SUFFICES ASSUME NEW n \in DOMAIN DevSeq PROVE Cardinality(DevHolds(n)) <= gate[DevSeq[n]].paused
    BY DEF DevCountInv
  <2>1. DevSeq[n] \in Devs
    BY Numbers
  <2>2. gate[DevSeq[n]] = FreeGate
    BY <1>7, <2>1
  <2>3. gate[DevSeq[n]].paused = 0 /\ Cardinality(DevHolds(n)) = 0
    BY <1>6, <1>c, <2>2
  <2> QED
    BY <2>3
<1>11. StoreInv
  <2>1. IsCpu(BootVcpu) /\ BootVcpu.lapic \in Lapics
    BY StatesAssumption DEF IsCpu, Lapics
  <2>2. /\ BootKernel = [d \in KernelDevs |-> BootKernel[d]]
        /\ \A d \in KernelDevs : IsKernel(d, BootKernel[d]) /\ IsKernel(d, FreshKernel[d])
    BY StatesAssumption
  <2>3. KernelDevs \subseteq Devs
    BY DevicesAssumption DEF Devs
  <2>4. \A d \in KernelDevs : IsObject(d, obj[d])
    BY <1>u, <2>2, <2>3, ObjectOf
  <2> QED
    BY <1>u, <2>1, <2>2, <2>4 DEF StoreInv
<1>12. InfoInv /\ SavedInv
  BY <1>u, <1>k, <1>2 DEF InfoInv, SavedInv
<1>13. job[Main] = k
  BY <1>k, SaversFinite
<1>14. CutInv
  BY <1>u, <1>2, <1>13 DEF CutInv, NoCut
<1>15. FileInv
  BY <1>u, <1>2, <1>13 DEF FileInv
<1> QED
  BY <1>u, <1>1, <1>4, <1>5, <1>8, <1>9, <1>10, <1>11, <1>12, <1>14, <1>15 DEF RunInv

\* A step that changes nothing.
LEMMA RunStutters ==
  ASSUME RunInv, UNCHANGED vars
  PROVE  RunInv'
<1>1. phase' = "running" /\ JobsInv' /\ VcpuCountInv' /\ WaitInv' /\ DevCountInv' /\ LockedInv'
  BY MachineFrame DEF vars, gates, ghost
<1>2. StoreInv' /\ InfoInv' /\ SavedInv' /\ CutInv' /\ FileInv'
  BY DataFrame DEF vars
<1>3. ParkedInv' /\ ServeInv' /\ GateInv'
  BY DEF vars, gates, RunInv, ParkedInv, ServeInv, GateInv
<1> QED
  BY <1>1, <1>2, <1>3 DEF RunInv

\* The same of the new process.
LEMMA NewStutters ==
  ASSUME NewInv, UNCHANGED vars
  PROVE  NewInv'
<1>1. IsCut' /\ \A v \in Vcpus : Restored(v)' <=> Restored(v)
  BY DEF NewInv, IsCut, Restored, vars, gates, store, ghost
<1> QED
  BY <1>1 DEF NewInv, vars, gates, store, ghost

\* Every step of the running process keeps the invariant, or replaces it.
LEMMA RunSteps ==
  ASSUME RunInv, [Next]_vars
  PROVE  IInv'
<1>1. CASE Machine
  <2>1. KernelDevs \subseteq Devs
    BY DevicesAssumption DEF Devs
  <2> QED
    BY <1>1, GuestStep, EndStep, ParkStep, ResumeStep, TickStep, ExitStep, AcquireStep, ReleaseStep,
       WorkerDiesStep DEF Machine, IInv
<1>2. ASSUME NEW s \in Savers, Save(s) PROVE RunInv'
  BY <1>2, PauseVcpuStep, VcpuPausedStep, UnpauseVcpuStep, VcpuInfoStep, PauseDeviceStep, DevicePausedStep,
     UnpauseDeviceStep, SaveModelStep, LoadVcpuStep, LoadModelStep DEF Save
<1>3. CASE Restart
  <2>1. ~CreateVcpus /\ ~RestoreModel
    BY DEF CreateVcpus, RestoreModel, RunInv
  <2> QED
    BY <1>3, <2>1, EncodeStep, RestartFailsStep, ExecStep DEF Restart, IInv
<1>4. CASE Calls
  <2>1. CASE Start(Main, "restart")
    BY <2>1, SaversFinite, StartStep DEF IInv
  <2>2. ASSUME NEW s \in Rpcs, NEW op \in {"state", "reload"}, Start(s, op) PROVE RunInv'
    <3>1. s \in Savers /\ s # Main
      BY ActorsAssumption DEF Savers
    <3> QED
      BY <2>2, <3>1, StartStep
  <2>3. ASSUME NEW s \in Rpcs, NEW d \in ManualDevs, NEW pause \in BOOLEAN, DeviceCall(s, d, pause)
        PROVE  RunInv'
    BY <2>3, DeviceCallStep
  <2> QED
    BY <1>4, <2>1, <2>2, <2>3 DEF Calls, IInv
<1>5. CASE UNCHANGED vars
  BY <1>5, RunStutters DEF IInv
<1> QED
  BY <1>1, <1>2, <1>3, <1>4, <1>5 DEF Next, IInv

\* The invariant is one: of any number of vcpus, of devices in any order, of
\* calls of the control server, with any failures, any steps of the guest, and
\* any interrupts, of paused vcpus too, between them.
THEOREM Invariance == Spec => []IInv
<1>1. Init => IInv
  BY InitRuns DEF IInv
<1>2. IInv /\ [Next]_vars => IInv'
  <2> SUFFICES ASSUME IInv, [Next]_vars PROVE IInv'
    OBVIOUS
  <2>1. CASE RunInv
    BY <2>1, RunSteps
  <2>2. CASE NewInv
    <3>1. CASE CreateVcpus
      BY <2>2, <3>1, CreateVcpusStep DEF IInv
    <3>2. CASE RestoreModel
      BY <2>2, <3>2, RestoreModelStep DEF IInv
    <3>3. CASE ~CreateVcpus /\ ~RestoreModel
      BY <2>2, <3>3, NewStays, NewStutters DEF IInv
    <3> QED
      BY <3>1, <3>2, <3>3
  <2> QED
    BY <2>1, <2>2 DEF IInv
<1> QED
  BY <1>1, <1>2, PTL DEF Spec

\* What SaveState has read and saved is what KVM holds while the vcpus are
\* paused (control/state.go:43), whichever calls save, reload, pause devices
\* and fail at the same time.  But for interrupts: a LAPIC that changed after
\* its vcpu was read, by a device not yet paused, a timer or a reload, and a
\* device in the kernel that went on after it was saved, are not as saved.
THEOREM SavedIsCut == Spec => []SavedIsMachine
<1>1. IInv => SavedIsMachine
  <2>1. CASE RunInv
    <3> SUFFICES ASSUME NEW s \in Savers, job[s].err = "nil"
                 PROVE  /\ job[s].pc \in {"modelPause", "lockWait", "save", "modelUnpause"} =>
                             \A v \in Vcpus : ReadFrom(job[s].info[v], cpu[v], v \in late[s])
                        /\ At(s, "modelUnpause") /\ job[s].i = 1 =>
                             \A d \in KernelDevs \ ticked[s] : obj[d] = GetKernel(d, kernel[d])
      BY DEF SavedIsMachine
    <3>1. job[s].pc \in {"modelPause", "lockWait", "save", "modelUnpause"} => HasInfo(job[s])
      BY DEF HasInfo, HeldPcs
    <3>2. HasInfo(job[s]) => \A v \in Vcpus : ReadFrom(job[s].info[v], cpu[v], v \in late[s])
      BY <2>1 DEF RunInv, InfoInv
    <3>3. ASSUME At(s, "modelUnpause"), job[s].i = 1, NEW d \in KernelDevs \ ticked[s]
          PROVE  obj[d] = GetKernel(d, kernel[d])
      <4>1. d \in Devs
        BY DevicesAssumption DEF Devs
      <4>2. PICK n \in DOMAIN DevSeq : DevSeq[n] = d
        BY <4>1, Numbers
      <4>3. HasSaved(job[s], n)
        BY <3>3 DEF At, HasSaved
      <4> QED
        BY <2>1, <4>2, <4>3 DEF RunInv, SavedInv, AsSaved
    <3> QED
      BY <3>1, <3>2, <3>3
  <2>2. CASE NewInv
    BY <2>2 DEF NewInv, SavedIsMachine, At
  <2> QED
    BY <2>1, <2>2 DEF IInv
<1> QED
  BY <1>1, Invariance, PTL

\* A process that restarts itself has, in KVM and in its devices, the machine
\* it saved, but for the devices that went on before they were encoded
\* (main.go:106), the LAPICs that changed between the reading of the vcpus and
\* the end of Model.Save, and the devices in the kernel that went on within it.
THEOREM MachineKept == Spec => []RestartKeepsMachine
<1>1. IInv => RestartKeepsMachine
  <2>1. CASE RunInv
    BY <2>1 DEF RunInv, RestartKeepsMachine
  <2>2. CASE NewInv
    BY <2>2 DEF NewInv, IsCut, Restored, RestartKeepsMachine
  <2> QED
    BY <2>1, <2>2 DEF IInv
<1> QED
  BY <1>1, Invariance, PTL
=============================================================================
