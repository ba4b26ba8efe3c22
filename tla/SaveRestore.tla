----------------------------- MODULE SaveRestore -----------------------------
(***************************************************************************)
(* Saving, reloading and restarting a whole machine: SaveState, the State, *)
(* Reload and Device calls of the control server (control/state.go,        *)
(* rpc_state.go, rpc_device.go), Vm.Pause and Vm.VcpuInfo                  *)
(* (platform/state.go), Model.Pause, Save, Load and DeviceInfo             *)
(* (machine/model.go), and the re-exec of main.go with what the new        *)
(* process does before its vcpus run.                                      *)
(*                                                                         *)
(* Vcpus and devices are gates here, as VcpuRun and DevicePause show them  *)
(* to be: a vcpu asked to pause parks once its exit has been dealt with, a *)
(* device's run_lock is granted once its handler is done.  Goroutines of   *)
(* the control server and the main goroutine save concurrently.            *)
(***************************************************************************)
EXTENDS VcpuState, FiniteSets

CONSTANTS
  Vcpus,         \* 1 .. n
  DevSeq,        \* the devices in the order of model.devices
  KernelDevs,    \* those KVM emulates: "apic", "pit", "clock"
  ManualDevs,    \* those the control server pauses
  Main, Rpcs,    \* the main goroutine and those of the control server
  VcpuStates, KernelStates, \* states KVM can hold
  FreshVcpu, FreshKernel,   \* what it holds in a new process
  BootVcpu, BootKernel,     \* and once the guest has begun to run
  MsrList,
  InterruptMayFail,         \* may kvm_run_interrupt fail?
  Targets,       \* bound: the vcpus that devices and timers interrupt
  MaxSteps,      \* bound: steps of the guest and of devices
  Nobody

ASSUME VcpusAssumption == IsFiniteSet(Vcpus) /\ Vcpus # {} /\ Vcpus = 1 .. Cardinality(Vcpus)
ASSUME DevicesAssumption ==
  /\ DevSeq \in Seq(ToSet(DevSeq)) /\ DevSeq # <<>> /\ IsInjective(DevSeq)
  /\ KernelDevs \cup ManualDevs \subseteq ToSet(DevSeq)
  /\ KernelDevs \subseteq {"apic", "pit", "clock"} /\ {"run", "parked", "dead"} \cap ToSet(DevSeq) = {}
ASSUME ActorsAssumption ==
  /\ IsFiniteSet(Rpcs) /\ Main \notin Rpcs
  /\ Nobody \notin Rpcs \cup {Main} /\ Main \notin Vcpus /\ Nobody \notin Vcpus
ASSUME StepsAssumption == MaxSteps \in Nat /\ InterruptMayFail \in BOOLEAN

Devs   == ToSet(DevSeq)
Savers == Rpcs \cup {Main}

VARIABLES
  phase,     \* of the process: "running", or what it does after an exec
  vcpu,      \* "run", "parked", "dead", or the device whose handler the vcpu waits for
  vpaused,   \* RunInfo.paused
  gate,      \* of a device: paused, is_paused, run_lock and who waits for it with pause_lock
  busy,      \* of a device: a handler or worker has run_lock
  wedged,    \* the devices whose run_lock a worker has died with
  cpu, kernel, obj,  \* what KVM holds of vcpus and devices, and the devices' objects
  job,       \* what each saver does
  file,      \* the state file
  steps,
  cut,       \* ghost: the machine when main had saved it
  moved,     \* ghost: devices whose object has changed since
  late,      \* ghost: vcpus whose LAPIC has changed since a saver read them
  ticked     \* ghost: devices in the kernel that went on since it saved them

gates == <<vcpu, vpaused, gate, busy, wedged>>
store == <<cpu, kernel, obj>>
since == <<late, ticked>>
ghost == <<cut, moved, since>>
vars  == <<phase, gates, store, job, file, steps, ghost>>

Job(op, pc, i, info, err) == [op |-> op, pc |-> pc, i |-> i, info |-> info, err |-> err]
IdleJob  == Job("none", "idle", 1, Nil, "nil")
EndedJob == Job("ended", "idle", 1, Nil, "nil")

Gate(paused, manual, lock, mutex) ==
  [paused |-> paused, manual |-> manual, lock |-> lock, mutex |-> mutex]
FreeGate == Gate(0, FALSE, "free", Nobody)
Started  ==
  /\ vcpu = [v \in Vcpus |-> "run"]
  /\ vpaused = [v \in Vcpus |-> 0]
  /\ gate = [d \in Devs |-> FreeGate]
  /\ busy = [d \in Devs |-> Nobody]
  /\ wedged = {}

GetKernel(d, k) ==
  CASE d = "apic" -> GetIrqChip(k) [] d = "pit" -> GetPit(k) [] d = "clock" -> GetClock(k)
SetKernel(d, k, state) ==
  CASE d = "apic" -> SetIrqChip(k, state) [] d = "pit" -> SetPit(k, state)
    [] d = "clock" -> SetClock(k, state)

IsKernel(d, k) ==
  CASE d = "apic" -> IsIrqChip(k) [] d = "pit" -> IsPit(k) [] d = "clock" -> IsClock(k)

ASSUME StatesAssumption ==
  /\ MsrList \in Seq(ToSet(MsrList))
  /\ \A k \in VcpuStates \cup {FreshVcpu, BootVcpu} : IsVcpu(k, MsrList, Len(FreshVcpu.xcrs.array))
  /\ \A k \in KernelStates \cup {FreshKernel, BootKernel} :
       k = [d \in KernelDevs |-> k[d]] /\ \A d \in KernelDevs : IsKernel(d, k[d])

\* The states a LAPIC may be in; it changes while its vcpu does not run.
Lapics == {k.lapic : k \in VcpuStates \cup {BootVcpu}}
WithLapic(k, l) == [k EXCEPT !.lapic = l]

NoCut == [taken |-> FALSE]

Init ==
  /\ phase = "running"
  /\ Started
  /\ cpu = [v \in Vcpus |-> BootVcpu]
  /\ kernel = BootKernel
  /\ obj = [d \in Devs |-> IF d \in KernelDevs THEN GetKernel(d, FreshKernel[d]) ELSE 0]
  /\ job = [s \in Savers |-> IdleJob]
  /\ file = <<>>
  /\ steps = 0
  /\ cut = NoCut
  /\ moved = {}
  /\ late = [s \in Savers |-> {}]
  /\ ticked = [s \in Savers |-> {}]

-----------------------------------------------------------------------------
(* The machine.                                                            *)

\* The guest runs: its own state changes, or that of a device in the kernel.
Guest(v) ==
  /\ vcpu[v] = "run" /\ steps < MaxSteps
  /\ steps' = steps + 1
  /\ \/ \E k \in VcpuStates \ {cpu[v]} : cpu' = [cpu EXCEPT ![v] = k] /\ UNCHANGED kernel
     \/ kernel' \in KernelStates \ {kernel} /\ UNCHANGED cpu
  /\ UNCHANGED <<phase, gates, obj, job, file, ghost>>

\* LAPICs that change do so for whoever has read them.
NoteLapics ==
  late' = [s \in Savers |-> late[s] \cup {v \in Vcpus : cpu'[v].lapic # cpu[v].lapic}]
Interrupted ==
  \E l \in [Vcpus -> Lapics] :
    /\ \A v \in Vcpus \ Targets : l[v] = cpu[v].lapic
    /\ cpu' = [v \in Vcpus |-> WithLapic(cpu[v], l[v])]

\* What KVM does by itself, whoever is paused: its timers go on, and interrupt.
Tick ==
  /\ phase = "running" /\ steps < MaxSteps
  /\ steps' = steps + 1
  /\ kernel' \in KernelStates
  /\ Interrupted /\ NoteLapics
  /\ ticked' = [s \in Savers |-> ticked[s] \cup {d \in KernelDevs : kernel'[d] # kernel[d]}]
  /\ UNCHANGED <<phase, gates, obj, job, file, cut, moved>>

\* An exit that the handler of a device has to serve.
Exit(v, d) ==
  /\ vcpu[v] = "run" /\ steps < MaxSteps
  /\ steps' = steps + 1
  /\ vcpu' = [vcpu EXCEPT ![v] = d]
  /\ UNCHANGED <<phase, vpaused, gate, busy, wedged, store, job, file, ghost>>

\* Device.Acquire, by the handler of a vcpu's exit or by a worker.
AcquireFor(d, v) ==
  /\ phase = "running"
  /\ busy[d] = Nobody /\ gate[d].lock = "free"
  /\ v \in Vcpus => vcpu[v] = d
  /\ v = Main => steps < MaxSteps
  /\ busy' = [busy EXCEPT ![d] = v]
  /\ steps' = IF v = Main THEN steps + 1 ELSE steps
  /\ UNCHANGED <<phase, vcpu, vpaused, gate, wedged, store, job, file, ghost>>

\* The device has changed, and perhaps raised interrupts: they go through the
\* interrupt controller to the LAPICs, those of paused vcpus too.
Worked(d) ==
  /\ busy[d] # Nobody
  /\ busy' = [busy EXCEPT ![d] = Nobody]
  /\ obj' = [obj EXCEPT ![d] = @ + 1]
  /\ kernel' \in KernelStates
  /\ Interrupted /\ NoteLapics
  /\ moved' = IF ~cut.taken THEN moved ELSE moved \cup {d}
  /\ UNCHANGED <<phase, vpaused, gate, job, file, steps, cut, ticked>>

Release(d) ==
  /\ Worked(d)
  /\ vcpu' = IF busy[d] \in Vcpus THEN [vcpu EXCEPT ![busy[d]] = "run"] ELSE vcpu
  /\ UNCHANGED wedged

\* A worker that cannot map a buffer returns with run_lock held for reading:
\* handlers still get it, a pause does not.
WorkerDies(d) ==
  /\ busy[d] = Main
  /\ Worked(d)
  /\ wedged' = wedged \cup {d}
  /\ UNCHANGED vcpu

Park(v) ==
  /\ vcpu[v] = "run" /\ vpaused[v] > 0
  /\ vcpu' = [vcpu EXCEPT ![v] = "parked"]
  /\ UNCHANGED <<phase, vpaused, gate, busy, wedged, store, job, file, steps, ghost>>

Resume(v) ==
  /\ vcpu[v] = "parked" /\ vpaused[v] = 0
  /\ vcpu' = [vcpu EXCEPT ![v] = "run"]
  /\ UNCHANGED <<phase, vpaused, gate, busy, wedged, store, job, file, steps, ghost>>

\* Loop returns, with is_running left set.
End(v) ==
  /\ vcpu[v] = "run" /\ steps < MaxSteps
  /\ steps' = steps + 1
  /\ vcpu' = [vcpu EXCEPT ![v] = "dead"]
  /\ UNCHANGED <<phase, vpaused, gate, busy, wedged, store, job, file, ghost>>

-----------------------------------------------------------------------------
(* A saver: Pause and Unpause of all vcpus, and of all devices.            *)

At(s, pc)    == job[s].pc = pc
Becomes(s, j) == job' = [job EXCEPT ![s] = j]

\* A call goes on, fails, or goes on with the next vcpu or device.
MovedJob(j, pc)  == IF pc = "idle" THEN EndedJob ELSE Job(j.op, pc, 1, j.info, j.err)
FailedJob(j, pc) == IF pc = "idle" THEN EndedJob ELSE Job(j.op, pc, 1, Nil, "error")
LoopedJob(j, n, loop, pc) ==
  IF j.i < n THEN Job(j.op, loop, j.i + 1, j.info, j.err) ELSE MovedJob(j, pc)
Moves(s, pc) == Becomes(s, MovedJob(job[s], pc))
Fails(s, pc) == Becomes(s, FailedJob(job[s], pc))
Loops(s, n, loop, pc) == Becomes(s, LoopedJob(job[s], n, loop, pc))
Dev(s) == DevSeq[job[s].i]

\* Where SaveState returns to.
Returned(s) ==
  IF job[s].op = "reload" THEN (IF job[s].err = "nil" THEN "loadVcpus" ELSE "outerUnpause")
  ELSE IF job[s].op = "restart" /\ job[s].err = "nil" THEN "encode" ELSE "idle"

\* A call of the control server has a goroutine of its own and ends with it;
\* main's one attempt to restart is a bound.
Start(s, op) ==
  /\ phase = "running"
  /\ job[s] = IdleJob
  /\ Becomes(s, Job(op, IF op = "reload" THEN "outer" ELSE "vmPause", 1, Nil, "nil"))
  /\ UNCHANGED <<phase, gates, store, file, steps, ghost>>

\* Vcpu.Pause(false) of the next vcpu.  When the vcpu cannot be interrupted
\* the ones before it are unpaused, and its own count stays.
PauseVcpu(s) ==
  LET v == job[s].i
  IN  /\ job[s].pc \in {"outer", "vmPause"}
      /\ \/ /\ vpaused' = [vpaused EXCEPT ![v] = @ + 1]
            /\ Becomes(s, Job(job[s].op, IF At(s, "outer") THEN "outerWait" ELSE "vmWait", v, job[s].info, job[s].err))
         \/ /\ InterruptMayFail /\ vcpu[v] # "parked" /\ vpaused[v] = 0
            /\ vpaused' = [u \in Vcpus |-> IF u = v THEN 1 ELSE IF u < v THEN vpaused[u] - 1 ELSE vpaused[u]]
            /\ Fails(s, IF At(s, "vmPause") /\ job[s].op = "reload" THEN "outerUnpause" ELSE "idle")
      /\ UNCHANGED <<phase, vcpu, gate, busy, wedged, store, file, steps, ghost>>

VcpuPaused(s) ==
  /\ job[s].pc \in {"outerWait", "vmWait"}
  /\ vcpu[job[s].i] = "parked"
  /\ IF At(s, "outerWait") THEN Loops(s, Cardinality(Vcpus), "outer", "vmPause")
     ELSE Loops(s, Cardinality(Vcpus), "vmPause", "vcpuInfo")
  /\ UNCHANGED <<phase, gates, store, file, steps, ghost>>

UnpauseVcpu(s) ==
  /\ job[s].pc \in {"vmUnpause", "outerUnpause"}
  /\ vpaused' = [vpaused EXCEPT ![job[s].i] = @ - 1]
  /\ Loops(s, Cardinality(Vcpus), job[s].pc, IF At(s, "vmUnpause") THEN Returned(s) ELSE "idle")
  /\ UNCHANGED <<phase, vcpu, gate, busy, wedged, store, file, steps, ghost>>

\* Vm.VcpuInfo: the vcpus are read while paused, which any of the calls to
\* KVM may refuse.
VcpuInfo(s) ==
  /\ At(s, "vcpuInfo")
  /\ \/ /\ Becomes(s, Job(job[s].op, "modelPause", 1, [v \in Vcpus |-> NewVcpuInfo(cpu[v], MsrList)], job[s].err))
        /\ late' = [late EXCEPT ![s] = {}]
     \/ Fails(s, "vmUnpause") /\ UNCHANGED late
  /\ UNCHANGED <<phase, gates, store, file, steps, cut, moved, ticked>>

\* Device.Pause(false) of the next device: one that is paused already counts
\* the pause twice (device.go:124).
PauseDevice(s) ==
  LET d == Dev(s)
  IN  /\ At(s, "modelPause")
      /\ gate[d].mutex = Nobody
      /\ IF gate[d].paused > 0 \/ gate[d].manual
         THEN /\ gate' = [gate EXCEPT ![d] = Gate(@.paused + 2, @.manual, @.lock, Nobody)]
              /\ Loops(s, Len(DevSeq), "modelPause", "save")
         ELSE /\ gate' = [gate EXCEPT ![d] = Gate(1, @.manual, "waiting", s)]
              /\ Becomes(s, Job(job[s].op, "lockWait", job[s].i, job[s].info, job[s].err))
      /\ UNCHANGED <<phase, vcpu, vpaused, busy, wedged, store, file, steps, ghost>>

\* Faulty variant: pause_lock is not released.
LockedKept(g) == Gate(g.paused, g.manual, "locked", g.mutex)

\* run_lock is granted, and Pause returns.
Locked(g) == Gate(g.paused, g.manual, "locked", Nobody)

DevicePaused(s) ==
  LET d == Dev(s)
  IN  /\ job[s].pc \in {"lockWait", "manualWait"}
      /\ busy[d] = Nobody /\ d \notin wedged
      /\ gate' = [gate EXCEPT ![d] = Locked(@)]
      /\ IF At(s, "lockWait") THEN Loops(s, Len(DevSeq), "modelPause", "save")
         ELSE Moves(s, "idle")
      /\ UNCHANGED <<phase, vcpu, vpaused, busy, wedged, store, file, steps, ghost>>

UnpauseDevice(s) ==
  LET d == Dev(s)
      n == gate[d].paused - 1
  IN  /\ At(s, "modelUnpause")
      /\ gate[d].mutex = Nobody
      /\ gate' = [gate EXCEPT ![d] =
                   Gate(n, @.manual, IF n = 0 /\ ~@.manual THEN "free" ELSE @.lock, Nobody)]
      /\ Loops(s, Len(DevSeq), "modelUnpause", "vmUnpause")
      /\ UNCHANGED <<phase, vcpu, vpaused, busy, wedged, store, file, steps, ghost>>

\* Faulty variant: the devices in the kernel are not asked.
SavedNot(d) == obj[d]

\* Device.Save.
Saved(d) == IF d \in KernelDevs THEN GetKernel(d, kernel[d]) ELSE obj[d]

\* Model.Save, of the next device; an error leaves it and the rest.  With the
\* last one main has the machine.
SaveModel(s) ==
  LET d    == Dev(s)
      last == s = Main /\ job[s].i = Len(DevSeq)
  IN  /\ At(s, "save")
      /\ \/ /\ obj' = [obj EXCEPT ![d] = Saved(d)]
            /\ Loops(s, Len(DevSeq), "save", "modelUnpause")
            /\ ticked' = [ticked EXCEPT ![s] = @ \ {d}]
            /\ cut' = IF last THEN [taken |-> TRUE, cpu |-> cpu, obj |-> obj', kernel |-> kernel,
                                    late |-> late[s], ticked |-> ticked'[s]] ELSE cut
            /\ moved' = IF last THEN {} ELSE IF cut.taken /\ obj'[d] # obj[d] THEN moved \cup {d} ELSE moved
         \/ Fails(s, "modelUnpause") /\ UNCHANGED <<obj, cut, moved, ticked>>
      /\ UNCHANGED <<phase, gates, cpu, kernel, file, steps, late>>

\* The Device call, on one device.
DeviceCall(s, d, pause) ==
  /\ phase = "running"
  /\ job[s] = IdleJob
  /\ gate[d].mutex = Nobody
  /\ gate[d].manual # pause
  /\ LET held == gate[d].paused > 0
         i    == CHOOSE j \in DOMAIN DevSeq : DevSeq[j] = d
     IN  /\ gate' = [gate EXCEPT ![d] =
                      Gate(@.paused, pause, IF held THEN @.lock ELSE IF pause THEN "waiting" ELSE "free",
                           IF pause /\ ~held THEN s ELSE Nobody)]
         /\ IF pause /\ ~held
            THEN Becomes(s, Job("device", "manualWait", i, Nil, "nil"))
            ELSE UNCHANGED job
  /\ UNCHANGED <<phase, vcpu, vpaused, busy, wedged, store, file, steps, ghost>>

-----------------------------------------------------------------------------
(* Reload.                                                                 *)

\* A vcpu is loaded with what was read from it, an older LAPIC perhaps; an
\* error leaves the rest.
LoadVcpu(s) ==
  LET v == job[s].i
  IN  /\ At(s, "loadVcpus")
      /\ \E n \in 1 .. Parts :
           /\ cpu' = [cpu EXCEPT ![v] = LoadParts(@, job[s].info[v], n)]
           /\ IF n < Parts THEN Fails(s, "outerUnpause")
              ELSE Loops(s, Cardinality(Vcpus), "loadVcpus", "loadModel")
      /\ NoteLapics
      /\ UNCHANGED <<phase, gates, kernel, obj, file, steps, cut, moved, ticked>>

\* Device.Load.
Loaded(d) == SetKernel(d, kernel[d], obj[d])

\* Model.Load, of the next device; an error leaves the rest.  The devices run,
\* only the vcpus are paused.
LoadModel(s) ==
  LET d == Dev(s)
  IN  /\ At(s, "loadModel")
      /\ \/ /\ kernel' = IF d \in KernelDevs THEN [kernel EXCEPT ![d] = Loaded(d)] ELSE kernel
            /\ Loops(s, Len(DevSeq), "loadModel", "outerUnpause")
         \/ Fails(s, "outerUnpause") /\ UNCHANGED kernel
      /\ UNCHANGED <<phase, gates, cpu, obj, file, steps, ghost>>

-----------------------------------------------------------------------------
(* Restart.                                                                *)

\* The state is encoded with the vcpus and devices running again: of a device
\* it holds the object itself, and so what that is by now.
Encode ==
  /\ At(Main, "encode")
  /\ file' = Append(file, obj[Dev(Main)])
  /\ Loops(Main, Len(DevSeq), "encode", "exec")
  /\ UNCHANGED <<phase, gates, store, steps, ghost>>

\* A state without a name cannot be encoded; then, or when exec fails, the
\* process goes on.
RestartFails ==
  /\ At(Main, "exec")
  /\ file' = <<>>
  /\ Moves(Main, "idle")
  /\ cut' = NoCut /\ moved' = {}
  /\ UNCHANGED <<phase, gates, store, steps, since>>

\* DeviceInfo.Load: the device that the driver makes is filled from the data.
Load(d) == file[CHOOSE i \in DOMAIN DevSeq : DevSeq[i] = d]

\* The new process has read the state file: CreateDevices.
Exec ==
  /\ At(Main, "exec")
  /\ \A v \in Vcpus : Marshals(job[Main].info[v])
  /\ phase' = "vcpus"
  /\ vcpu' = [v \in Vcpus |-> "parked"]
  /\ vpaused' = [v \in Vcpus |-> 0]
  /\ gate' = [d \in Devs |-> FreeGate]
  /\ busy' = [d \in Devs |-> Nobody]
  /\ wedged' = {}
  /\ cpu' = [v \in Vcpus |-> FreshVcpu]
  /\ kernel' = FreshKernel
  /\ obj' = [d \in Devs |-> Load(d)]
  /\ job' = [s \in Savers |-> Job("ended", "done", 1, job[Main].info, "nil")]
  /\ UNCHANGED <<file, steps, ghost>>

CreateVcpus ==
  /\ phase = "vcpus"
  /\ cpu' = [v \in Vcpus |-> LoadParts(cpu[v], job[Main].info[v], Parts)]
  /\ phase' = "load"
  /\ UNCHANGED <<gates, kernel, obj, job, file, steps, ghost>>

\* Model.Load, before any vcpu runs.
RestoreModel ==
  /\ phase = "load"
  /\ kernel' = [d \in KernelDevs |-> Loaded(d)]
  /\ phase' = "restored"
  /\ UNCHANGED <<gates, cpu, obj, job, file, steps, ghost>>

-----------------------------------------------------------------------------
Machine ==
  \/ \E v \in Vcpus : Guest(v) \/ End(v) \/ Park(v) \/ (phase = "running" /\ Resume(v))
  \/ Tick
  \/ \E v \in Vcpus, d \in Devs \ KernelDevs : Exit(v, d)
  \/ \E d \in Devs \ KernelDevs, v \in Vcpus \cup {Main} : AcquireFor(d, v)
  \/ \E d \in Devs : Release(d) \/ WorkerDies(d)

Save(s) ==
  PauseVcpu(s) \/ VcpuPaused(s) \/ UnpauseVcpu(s) \/ VcpuInfo(s) \/ PauseDevice(s)
    \/ DevicePaused(s) \/ UnpauseDevice(s) \/ SaveModel(s) \/ LoadVcpu(s) \/ LoadModel(s)

Restart == Encode \/ RestartFails \/ Exec \/ CreateVcpus \/ RestoreModel

Calls ==
  \/ Start(Main, "restart")
  \/ \E s \in Rpcs, op \in {"state", "reload"} : Start(s, op)
  \/ \E s \in Rpcs, d \in ManualDevs, pause \in BOOLEAN : DeviceCall(s, d, pause)

Next == Machine \/ (\E s \in Savers : Save(s)) \/ Restart \/ Calls

Spec == Init /\ [][Next]_vars

\* Goroutines go on, handlers serve what waits for them, and a vcpu that is
\* interrupted parks.
Fairness ==
  /\ \A s \in Savers : WF_vars(Save(s))
  /\ WF_vars(Restart)
  /\ \A v \in Vcpus : WF_vars(Park(v))
  /\ \A d \in Devs \ KernelDevs : WF_vars(Release(d)) /\ \A v \in Vcpus : SF_vars(AcquireFor(d, v))
FairSpec == Spec /\ Fairness

-----------------------------------------------------------------------------
(* Properties.                                                             *)

\* What was read is what a vcpu holds, with the LAPIC it has or, if that may
\* have changed, with another.
ReadFrom(info, k, changed) ==
  \E l \in Lapics : info = NewVcpuInfo(WithLapic(k, l), MsrList) /\ (changed \/ l = k.lapic)

\* From the moment the vcpus have been read until the first is unpaused, what
\* was read is what KVM holds, and when the devices have been saved too, so is
\* what their objects hold, whichever calls of the control server run at the
\* same time (state.go:43 pauses vcpus, then reads them, then pauses devices
\* and reads those).  But for interrupts: devices work on until they are
\* paused and KVM's timers all the time, so a LAPIC may have changed since it
\* was read, and a device in the kernel since it was saved; nothing else may.
SavedIsMachine ==
  \A s \in Savers : job[s].err = "nil" =>
    /\ job[s].pc \in {"modelPause", "lockWait", "save", "modelUnpause"} =>
         \A v \in Vcpus : ReadFrom(job[s].info[v], cpu[v], v \in late[s])
    /\ At(s, "modelUnpause") /\ job[s].i = 1 =>
         \A d \in KernelDevs \ ticked[s] : obj[d] = GetKernel(d, kernel[d])

\* Two states of a vcpu may differ in what KVM does not look at: the details
\* of an exception or interrupt that is not being injected, an error code that
\* is not there, and what is beyond the last of the xcrs.  The interrupt
\* shadow KVM does look at, and it is lost when no interrupt is being injected
\* (kvm_events.go:89).
SameVcpu(k, j) ==
  LET same(a, b, fields) == \A f \in fields : a[f] = b[f]
      x == k.events.exception
      i == k.events.interrupt
  IN  /\ same(k, j, {"regs", "mp", "cpuid", "lapic", "msrs", "fpu", "xsave"})
      /\ same(k.events, j.events, {"nmi", "sipi", "flags"})
      /\ same(x, j.events.exception,
              {"injected"} \cup (IF x.injected THEN {"nr", "has_code"} ELSE {})
                           \cup (IF x.injected /\ x.has_code THEN {"code"} ELSE {}))
      /\ same(i, j.events.interrupt,
              {"injected"} \cup (IF i.injected THEN {"nr", "soft", "shadow"} ELSE {}))
      /\ k.xcrs.nr = j.xcrs.nr /\ same(k.xcrs.array, j.xcrs.array, 1 .. k.xcrs.nr)

\* A restarted process holds the machine that was saved: every vcpu, every
\* device in the kernel, and every device that did not go on between the end
\* of SaveState and the encoding of its object (main.go:106).  A LAPIC that
\* changed between the reading of the vcpus and the cut is restored as it was
\* read, without the interrupt, and a device in the kernel that went on before
\* the last was saved as it was saved.
RestartKeepsMachine ==
  phase = "restored" =>
    /\ \A v \in Vcpus : \E l \in Lapics :
         /\ SameVcpu(cpu[v], WithLapic(cut.cpu[v], l))
         /\ v \in cut.late \/ l = cut.cpu[v].lapic
    /\ \A d \in Devs \ moved : obj[d] = cut.obj[d]
    /\ \A d \in KernelDevs \ (moved \cup cut.ticked) : kernel[d] = cut.kernel[d]

\* Somebody is between Pause(false) and Unpause(false) of the device.
HeldBy(d) ==
  {s \in Savers : \E i \in DOMAIN DevSeq : DevSeq[i] = d /\
     \/ job[s].pc = "modelPause" /\ i < job[s].i
     \/ job[s].pc = "lockWait" /\ i <= job[s].i
     \/ job[s].pc = "save"
     \/ job[s].pc = "modelUnpause" /\ i >= job[s].i}

Unattended(d) == gate[d].manual \/ (gate[d].paused > 0 /\ HeldBy(d) = {})

\* A saver waits for a vcpu that is dead, for one that waits for a device left
\* paused, by hand or by the count of two overlapping saves, or for a run_lock
\* that a worker died with.
Stuck(s) ==
  \/ /\ job[s].pc \in {"outerWait", "vmWait"}
     /\ LET at == vcpu[job[s].i] IN at = "dead" \/ (at \in Devs /\ Unattended(at))
  \/ job[s].pc \in {"lockWait", "manualWait"} /\ Dev(s) \in wedged

\* A call that saves or reloads the machine returns, whatever else is called
\* at the same time and fails, unless from some time on somebody always waits
\* in vain: for a vcpu whose Loop has returned with is_running set
\* (kvm_run.go:142), for one whose exit waits for a device left paused
\* (io.go:139), or for the run_lock of a dead worker (virtio.go:288).
CallsReturn ==
  \A s \in Savers : job[s].pc # "idle" ~>
    (job[s].pc \in {"idle", "done"} \/ [](\E t \in Savers : Stuck(t)))

=============================================================================
