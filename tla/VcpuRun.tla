------------------------------ MODULE VcpuRun ------------------------------
(***************************************************************************)
(* The run / pause protocol of one vcpu: Vcpu.Run, Vcpu.Pause and          *)
(* Vcpu.Unpause (platform/kvm_run.go), the C half below them that enters   *)
(* the guest and interrupts it (platform/kvm_run.c), and the exit loop     *)
(* that calls Run (loop.go).  With it the register cache of the vcpu       *)
(* (platform/kvm_x86.go, platform/x86.go), which the thread flushes before *)
(* it runs and which callers that hold a pause fill and modify.            *)
(*                                                                         *)
(* One thread owns the vcpu; any number of other goroutines (RPC handlers, *)
(* the live-upgrade path, SaveState) pause and unpause it.  RunInfo.lock   *)
(* protects is_running, is_paused and paused; info->lock protects running, *)
(* cancel and the decision to signal.  Each critical section is one        *)
(* action.  Pause takes info->lock inside RunInfo.lock, and nothing takes  *)
(* them the other way round, so the combined section is one action too: no *)
(* other thread can see the half-done pause before info->lock is released. *)
(***************************************************************************)
EXTENDS Naturals, FiniteSets

CONSTANTS
  Callers,           \* goroutines that pause and unpause the vcpu
  ManualOps,         \* may callers use Pause(true) and Unpause(true)?
  VcpuMayEnd,        \* may Loop return (shutdown exit, or an error)?
  InterruptResults   \* what Pause can read as kvm_run_interrupt's result

ASSUME CallersFinite == IsFiniteSet(Callers)
ASSUME ManualOpsType == ManualOps \in BOOLEAN
ASSUME VcpuMayEndType == VcpuMayEnd \in BOOLEAN
ASSUME InterruptResultsType ==
  InterruptResults # {} /\ InterruptResults \subseteq {"ok", "garbage"}

VARIABLES
  vcpu,        \* where the vcpu thread is
  is_running,  \* RunInfo.is_running
  is_paused,   \* RunInfo.is_paused: the manual pause
  paused,      \* RunInfo.paused: the number of internal pauses
  running,     \* kvm_run_info.running
  cancel,      \* kvm_run_info.cancel
  sig,         \* SigVcpuInt is pending for the vcpu thread
  call,        \* what each caller is doing
  regs         \* the register cache, against the registers KVM holds

goVars == <<is_running, is_paused, paused>>
cVars  == <<running, cancel, sig>>
vars   == <<vcpu, goVars, cVars, call, regs>>

(***************************************************************************)
(* The vcpu thread: "flush" before flushAllRegs returns, "check" before    *)
(* RunInfo.lock is taken, "parked" in resume_event.Wait, "woken" between   *)
(* the broadcast and the return of that Wait, "entry" before kvm_run takes *)
(* info->lock, "guest" inside KVM_RUN, the three "leave" states after it   *)
(* returned (interrupted, with an exit, or with an error), "handle" in     *)
(* Loop's exit handling, "dead" once Loop has returned.                    *)
(***************************************************************************)
LeaveStates == {"leave_intr", "leave_exit", "leave_error"}
VcpuStates  == {"flush", "check", "parked", "woken", "entry", "guest",
                "handle", "dead"} \cup LeaveStates

(***************************************************************************)
(* A caller: "idle"; "i_wait" / "m_wait" in pause_event.Wait of an         *)
(* internal / manual Pause, "i_woken" / "m_woken" between the broadcast    *)
(* and the return of that Wait; "i_held" once its Pause(false) returned    *)
(* nil, until its Unpause(false); "i_failed" after a Pause(false) that     *)
(* returned an error with its count still in paused; "m_paused" after a    *)
(* Pause(true) that returned nil or AlreadyPaused, which Vm.Pause takes    *)
(* for success alike, until its next call.                                 *)
(***************************************************************************)
CallStates == {"idle", "i_wait", "i_woken", "i_held", "i_failed",
               "m_wait", "m_woken", "m_paused"}
Ready(c) == call[c] \in {"idle", "m_paused"}

(***************************************************************************)
(* The register cache: "none" if not cached; "fresh" if it agrees with     *)
(* KVM; "dirty" if it has been modified and not written to KVM; "stale"    *)
(* and "dirty_stale" if the guest has run since it was filled.             *)
(***************************************************************************)
RegsStates == {"none", "fresh", "dirty", "stale", "dirty_stale"}
StaleRegs  == {"stale", "dirty_stale"}

\* refreshRegs, refreshSRegs: filled from KVM unless something is cached.
Refreshed == IF regs = "none" THEN "fresh" ELSE regs

\* A register is set in the cache, filled first if need be.
Modified == IF regs \in StaleRegs THEN "dirty_stale" ELSE "dirty"

\* The guest runs, whatever is cached.
Aged == IF regs = "fresh" THEN "stale"
        ELSE IF regs = "dirty" THEN "dirty_stale" ELSE regs

\* The internal pauses that paused counts.
Counted == {c \in Callers : call[c] \in {"i_wait", "i_woken", "i_held", "i_failed"}}

\* Either kind of pause is in force: the loop condition of Run, and the
\* still-paused test of Unpause.
PauseRequested == is_paused \/ paused > 0

-----------------------------------------------------------------------------
Init ==
  /\ vcpu = "flush"
  /\ is_running = FALSE
  /\ is_paused = FALSE
  /\ paused = 0
  /\ running = FALSE
  /\ cancel = FALSE
  /\ sig = FALSE
  /\ call = [c \in Callers |-> "idle"]
  /\ regs \in {"none", "dirty"}  \* restored by Load, or set by LoadLinux

-----------------------------------------------------------------------------
(* The vcpu thread.                                                        *)

\* Faulty variant: modified registers are written, but stay cached.
FlushAllRegsKeepsCache ==
  /\ vcpu = "flush"
  /\ vcpu' = "check"
  /\ regs' = IF regs = "none" THEN "none" ELSE "stale"
  /\ UNCHANGED <<goVars, cVars, call>>

\* flushAllRegs: modified registers are written to KVM, and nothing is cached
\* any more; on an error Run returns it, and Loop ends.
FlushAllRegs ==
  /\ vcpu = "flush"
  /\ \/ vcpu' = "check" /\ regs' = "none"
     \/ VcpuMayEnd /\ vcpu' = "dead" /\ UNCHANGED regs
  /\ UNCHANGED <<goVars, cVars, call>>

\* pause_event.Broadcast: every caller in Wait becomes runnable.
BroadcastPaused ==
  call' = [c \in Callers |->
             IF call[c] = "i_wait" THEN "i_woken"
             ELSE IF call[c] = "m_wait" THEN "m_woken" ELSE call[c]]

\* Run, with a pause in force: not running, tell the callers, wait.
RunPark ==
  /\ vcpu \in {"check", "woken"}
  /\ PauseRequested
  /\ is_running' = FALSE
  /\ BroadcastPaused
  /\ vcpu' = "parked"
  /\ UNCHANGED <<is_paused, paused, cVars, regs>>

\* Faulty variant: Run looks at the manual pause only.
RunGoIgnoringCount ==
  /\ vcpu \in {"check", "woken"}
  /\ ~is_paused
  /\ is_running' = TRUE
  /\ vcpu' = "entry"
  /\ UNCHANGED <<is_paused, paused, cVars, call, regs>>

\* Run, with no pause in force: running, on to kvm_run.
RunGo ==
  /\ vcpu \in {"check", "woken"}
  /\ ~PauseRequested
  /\ is_running' = TRUE
  /\ vcpu' = "entry"
  /\ UNCHANGED <<is_paused, paused, cVars, call, regs>>

\* Faulty variant: the cancel request is not looked at.
KvmRunEnterBlind ==
  /\ vcpu = "entry"
  /\ running' = TRUE
  /\ vcpu' = "guest"
  /\ regs' = Aged
  /\ UNCHANGED <<goVars, cancel, sig, call>>

\* Faulty variant: the cancel request is reported but not consumed.
KvmRunEnterStale ==
  /\ vcpu = "entry"
  /\ IF cancel
     THEN vcpu' = "flush" /\ UNCHANGED <<running, regs>>
     ELSE running' = TRUE /\ vcpu' = "guest" /\ regs' = Aged
  /\ UNCHANGED <<goVars, cancel, sig, call>>

\* kvm_run's first section: a cancel request is consumed and reported as
\* EINTR; otherwise the signal is blocked and the thread is "running".
KvmRunEnter ==
  /\ vcpu = "entry"
  /\ IF cancel
     THEN /\ cancel' = FALSE
          /\ vcpu' = "flush"
          /\ UNCHANGED <<running, regs>>
     ELSE /\ running' = TRUE
          /\ vcpu' = "guest"
          /\ regs' = Aged
          /\ UNCHANGED cancel
  /\ UNCHANGED <<goVars, sig, call>>

\* KVM_RUN returns: interrupted by SigVcpuInt ...
GuestInterrupted ==
  /\ vcpu = "guest"
  /\ sig
  /\ vcpu' = "leave_intr"
  /\ UNCHANGED <<goVars, cVars, call, regs>>

\* ... or on its own: interrupted by some other signal (the mask during
\* KVM_RUN is empty) or EAGAIN, with an exit, or with an error.
GuestReturns ==
  /\ vcpu = "guest"
  /\ \/ vcpu' \in {"leave_intr", "leave_exit"}
     \/ VcpuMayEnd /\ vcpu' = "leave_error"
  /\ UNCHANGED <<goVars, cVars, call, regs>>

\* kvm_run's second section, and the unblocking of the signal, which
\* delivers a pending one to a handler that does nothing.
KvmRunLeave ==
  /\ \/ vcpu = "leave_intr"  /\ vcpu' = "flush"
     \/ vcpu = "leave_exit"  /\ vcpu' = "handle"
     \/ vcpu = "leave_error" /\ vcpu' = "dead"
  /\ running' = FALSE
  /\ cancel' = FALSE
  /\ sig' = FALSE
  /\ UNCHANGED <<goVars, call, regs>>

\* Loop: the tracer may look at the registers, the exit is emulated and the
\* vcpu runs again, or it was a shutdown or an error and Loop returns.
HandleExit ==
  /\ vcpu = "handle"
  /\ regs' \in {regs, Refreshed}
  /\ \/ vcpu' = "flush"
     \/ VcpuMayEnd /\ vcpu' = "dead"
  /\ UNCHANGED <<goVars, cVars, call>>

-----------------------------------------------------------------------------
(* The callers.                                                            *)

SetCall(c, s) == call' = [call EXCEPT ![c] = s]

\* Faulty variant: a vcpu that is not in KVM_RUN is left alone.
KvmRunInterruptOnlyRunning ==
  /\ sig' = (sig \/ running)
  /\ UNCHANGED <<running, cancel>>

\* kvm_run_interrupt: signal a running vcpu, leave a cancel request for one
\* that is not.
KvmRunInterrupt ==
  /\ sig' = (sig \/ running)
  /\ cancel' = (cancel \/ ~running)
  /\ UNCHANGED running

\* Faulty variant: interrupt the vcpu and return without waiting for it.
PauseInternalNoWait(c) ==
  /\ Ready(c)
  /\ paused' = paused + 1
  /\ IF is_running THEN KvmRunInterrupt ELSE UNCHANGED cVars
  /\ SetCall(c, "i_held")
  /\ UNCHANGED <<vcpu, is_running, is_paused, regs>>

\* Faulty variant: a pause that finds the vcpu paused counts itself twice.
PauseInternalCountsTwice(c) ==
  /\ Ready(c)
  /\ IF is_running
     THEN paused' = paused + 1 /\ KvmRunInterrupt /\ SetCall(c, "i_wait")
     ELSE paused' = paused + 2 /\ UNCHANGED cVars /\ SetCall(c, "i_held")
  /\ UNCHANGED <<vcpu, is_running, is_paused, regs>>

\* Pause(false).  The C function has no return statement, so the result the
\* Go code tests is whatever the build leaves in the return register.
PauseInternal(c) ==
  /\ Ready(c)
  /\ paused' = paused + 1
  /\ \/ /\ ~is_running
        /\ SetCall(c, "i_held")
        /\ UNCHANGED cVars
     \/ /\ is_running
        /\ paused' = 1
        /\ KvmRunInterrupt
        /\ \E e \in InterruptResults :
              SetCall(c, IF e = "ok" THEN "i_wait" ELSE "i_failed")
     \/ /\ is_running
        /\ paused' # 1
        /\ SetCall(c, "i_wait")
        /\ UNCHANGED cVars
  /\ UNCHANGED <<vcpu, is_running, is_paused, regs>>

\* Pause(true): AlreadyPaused if the flag is set, without looking at the
\* vcpu; otherwise as above, and it always interrupts.
PauseManual(c) ==
  /\ ManualOps
  /\ Ready(c)
  /\ is_paused' = TRUE
  /\ \/ /\ is_paused \/ ~is_running
        /\ SetCall(c, "m_paused")
        /\ UNCHANGED cVars
     \/ /\ ~is_paused
        /\ is_running
        /\ KvmRunInterrupt
        /\ \E e \in InterruptResults :
              SetCall(c, IF e = "ok" THEN "m_wait" ELSE "idle")
  /\ UNCHANGED <<vcpu, is_running, paused, regs>>

\* pause_event.Wait returns: RunInfo.lock is taken again and Pause returns
\* nil.  The Wait is not in a loop.
PauseReturns(c) ==
  /\ \/ call[c] = "i_woken" /\ SetCall(c, "i_held")
     \/ call[c] = "m_woken" /\ SetCall(c, "m_paused")
  /\ UNCHANGED <<vcpu, goVars, cVars, regs>>

\* Faulty variant: the vcpu is resumed only if it was paused manually.
BroadcastResumeManualOnly ==
  vcpu' = IF vcpu = "parked" /\ is_paused /\ ~PauseRequested' THEN "woken" ELSE vcpu

\* resume_event.Broadcast, if no pause is left.
BroadcastResume ==
  vcpu' = IF vcpu = "parked" /\ ~PauseRequested' THEN "woken" ELSE vcpu

\* Faulty variant: no NotPaused check, and a caller that holds no pause.
UnpauseInternalUnchecked(c) ==
  /\ call[c] \in {"idle", "i_held"}
  /\ paused' = paused - 1
  /\ SetCall(c, "idle")
  /\ UNCHANGED <<is_running, is_paused, cVars, regs>>
  /\ BroadcastResume

\* Unpause(false): the deferred half of a Pause(false) that returned nil, or
\* of one whose error GetRegisters and SetRegisters ignore.  Either way the
\* pause is counted, so the NotPaused return is never taken.
UnpauseInternal(c) ==
  /\ call[c] \in {"i_held", "i_failed"}
  /\ paused > 0
  /\ paused' = paused - 1
  /\ SetCall(c, "idle")
  /\ UNCHANGED <<is_running, is_paused, cVars, regs>>
  /\ BroadcastResume

\* Unpause(true), by any caller; NotPaused if the flag is clear.
UnpauseManual(c) ==
  /\ ManualOps
  /\ Ready(c)
  /\ is_paused
  /\ is_paused' = FALSE
  /\ SetCall(c, "idle")
  /\ UNCHANGED <<is_running, paused, cVars, regs>>
  /\ BroadcastResume

\* A caller between the Pause(false) and the deferred Unpause(false) of
\* GetRegisters or SetRegisters, which ignore an error of the former.
UsesRegisters(c) == call[c] \in {"i_held", "i_failed"}

\* GetRegisters (NewVcpuInfo): what it reads stays cached.  KVM_GET_REGS,
\* needed if nothing is cached, waits for KVM_RUN to return, and may fail.
GetRegisters(c) ==
  /\ UsesRegisters(c)
  /\ regs = "none" => vcpu # "guest"
  /\ regs' \in {regs, Refreshed}
  /\ UNCHANGED <<vcpu, goVars, cVars, call>>

\* SetRegisters (Reload): written through to KVM, again not during KVM_RUN.
\* If a register cannot be set the ones that were stay cached and dirty.
SetRegisters(c) ==
  /\ UsesRegisters(c)
  /\ \/ vcpu # "guest" /\ regs' \in {regs, "none", Modified}
     \/ vcpu = "guest" /\ regs # "none" /\ regs' = Modified
  /\ UNCHANGED <<vcpu, goVars, cVars, call>>

-----------------------------------------------------------------------------
VcpuThread ==
  \/ FlushAllRegs \/ RunPark \/ RunGo \/ KvmRunEnter
  \/ GuestInterrupted \/ GuestReturns \/ KvmRunLeave \/ HandleExit

Caller(c) ==
  \/ PauseInternal(c) \/ PauseManual(c) \/ PauseReturns(c)
  \/ UnpauseInternal(c) \/ UnpauseManual(c)
  \/ GetRegisters(c) \/ SetRegisters(c)

Next == VcpuThread \/ \E c \in Callers : Caller(c)

Spec == Init /\ [][Next]_vars

\* The vcpu thread keeps going, except that a guest need not exit unless it
\* is interrupted; a caller that is runnable inside Pause gets the lock.
\* Nobody has to make a call, or to undo one.
VcpuProgress ==
  \/ FlushAllRegs \/ RunPark \/ RunGo \/ KvmRunEnter
  \/ GuestInterrupted \/ KvmRunLeave \/ HandleExit

FairSpec ==
  Spec /\ WF_vars(VcpuProgress) /\ \A c \in Callers : WF_vars(PauseReturns(c))

-----------------------------------------------------------------------------
(* Properties.                                                             *)

TypeOK ==
  /\ vcpu \in VcpuStates
  /\ is_running \in BOOLEAN
  /\ is_paused \in BOOLEAN
  /\ paused \in Nat
  /\ running \in BOOLEAN
  /\ cancel \in BOOLEAN
  /\ sig \in BOOLEAN
  /\ call \in [Callers -> CallStates]
  /\ regs \in RegsStates

\* The vcpu may touch guest memory or a device: between the end of Run's
\* check and the end of Loop's exit handling.
Executing == vcpu \in {"entry", "guest", "handle"} \cup LeaveStates

\* Once an internal Pause has returned nil and until its Unpause, the vcpu
\* neither is in the guest nor has an exit being emulated, whatever other
\* callers pause and unpause meanwhile, manually or not: this is what
\* SaveState and Reload rely on when they read and write vcpu state
\* (kvm_run.go Pause, "We don't return from this function ... until we are
\* sure that the VCPU is actually paused, and all devices are up-to-date").
HeldMeansStopped == (\E c \in Callers : call[c] = "i_held") => ~Executing

\* While an internal pause is held, what the holder reads from the register
\* cache is not older than the guest's last run (kvm_run.go Run, "we want to
\* ensure that our registers have been flushed ... before we can declare a
\* VCPU as paused"): the state SaveState takes is the state the vcpu is in.
HeldReadsFresh == (\E c \in Callers : call[c] = "i_held") => regs \notin StaleRegs

\* A vcpu asleep in resume_event.Wait always has a pause in force: no
\* Unpause drops the last one without its broadcast reaching the vcpu.
NoLostResume == vcpu = "parked" => PauseRequested

\* While a pause is in force a vcpu on its way into the guest finds the
\* cancel request and one inside it has the signal pending, so "only the
\* first caller need interrupt" never leaves a caller waiting on a guest
\* that nobody told to stop.
InterruptInFlight ==
  PauseRequested => /\ vcpu = "entry" => cancel
                    /\ vcpu = "guest" => sig

\* paused is the number of internal pauses begun and not undone, so nested
\* and overlapping pauses of several callers never resume the vcpu early
\* or leave it paused behind them.
PausedCountsCallers == paused = Cardinality(Counted)

\* The protocol implements the gate: whatever the interleaving of signals,
\* cancel requests, broadcasts and lock acquisitions, the vcpu starts to
\* execute only when no internal pause is held, and Pause(false) returns
\* only while it does not execute.
Gate == INSTANCE PauseGate WITH
          executing <- Executing,
          holders   <- {c \in Callers : call[c] = "i_held"}
ImplementsGate == Gate!GateSpec

\* An internal Pause returns, although the guest would never exit by itself
\* and other callers pause and unpause meanwhile: the vcpu comes to Run's
\* check, unless Loop ends first (then is_running stays set and pause_event
\* is never broadcast again).
InternalPauseReturns ==
  \A c \in Callers : call[c] = "i_wait" ~> (call[c] = "i_held" \/ vcpu = "dead")

\* If from some time on no pause is in force the vcpu gets back into the
\* guest, again after every exit: a cancel request left over from an
\* interrupt that came too late costs one round, not the vcpu.
ResumedVcpuRuns ==
  <>[](~PauseRequested) => ([]<>(vcpu = "guest") \/ <>(vcpu = "dead"))

\* kvm_run.go:139-141 as its comment has it: a Pause, of any of several callers, returns
\* success only when the vcpu is paused.  It does not hold: a manual Pause that finds
\* the flag set returns at once (kvm_run.go:129), and Vm.Pause takes that for success.
PauseReturnsPaused ==
  [][\A c \in Callers :
       (~(call[c] \in {"i_held", "m_paused"}) /\ call'[c] \in {"i_held", "m_paused"})
          => ~is_running']_vars

\* kvm_run.go:154 as its comment has it: a manual Pause waits for the vcpu to notify that
\* it is paused, and returns.  It does not hold: a manual Unpause before the vcpu gets to
\* the check leaves nothing to notify (kvm_run.go:155).
ManualPauseReturns ==
  \A c \in Callers : call[c] = "m_wait" ~> call[c] # "m_wait"

=============================================================================
