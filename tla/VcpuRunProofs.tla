--------------------------- MODULE VcpuRunProofs ---------------------------
(***************************************************************************)
(* Proofs about the vcpu pause protocol, for any finite set of callers and *)
(* with every option of the model: manual operations, a vcpu that may end, *)
(* and either result of kvm_run_interrupt.                                 *)
(***************************************************************************)
EXTENDS VcpuRun, FiniteSetTheorems, TLAPS

\* The flags of the two locks against where the vcpu thread is: is_running is
\* set all the while the vcpu executes and clear while it waits to be
\* resumed; running is set exactly between kvm_run's two sections.
FlagsInv ==
  /\ Executing => is_running
  /\ vcpu \in {"parked", "woken"} => ~is_running
  /\ running <=> vcpu \in {"guest"} \cup LeaveStates

\* A caller whose internal pause has been, or is about to be, granted sees a
\* vcpu that is not running.
GrantedInv == \A c \in Callers : call[c] \in {"i_woken", "i_held"} => ~is_running

\* Cached registers that the guest has outrun are gone again before the vcpu
\* parks: flushAllRegs comes before Run's check.
RegsInv ==
  regs \in StaleRegs =>
    is_running /\ vcpu \in {"guest", "handle", "flush", "dead"} \cup LeaveStates

\* The inductive invariant.  HeldMeansStopped needs GrantedInv, which a vcpu
\* that leaves Run's check would break if a counted pause could be missing
\* from paused: hence PausedCountsCallers.
IInv ==
  /\ TypeOK
  /\ PausedCountsCallers
  /\ FlagsInv
  /\ GrantedInv
  /\ NoLostResume
  /\ InterruptInFlight
  /\ RegsInv

-----------------------------------------------------------------------------
\* The set of counted pauses is finite.
LEMMA CountedFinite ==
  ASSUME TypeOK
  PROVE  IsFiniteSet(Counted) /\ Cardinality(Counted) \in Nat
BY CallersFinite, FS_Subset, FS_CardinalityType DEF Counted

\* If a caller is among them, paused is not 0.
LEMMA CountedPositive ==
  ASSUME TypeOK, PausedCountsCallers, NEW c \in Counted
  PROVE  paused > 0
<1>1. Cardinality(Counted) # 0
  BY CountedFinite, FS_EmptySet
<1> QED
  BY <1>1, CountedFinite DEF PausedCountsCallers

\* Type correctness, one step of the proof per action.
LEMMA TypeStep == TypeOK /\ [Next]_vars => TypeOK'
<1> SUFFICES ASSUME TypeOK, [Next]_vars PROVE TypeOK'
  OBVIOUS
<1> USE DEF TypeOK, VcpuStates, CallStates, LeaveStates, RegsStates
<1>1. CASE FlushAllRegs
  BY <1>1 DEF FlushAllRegs, goVars, cVars
<1>2. CASE RunPark
  BY <1>2 DEF RunPark, BroadcastPaused, cVars
<1>3. CASE RunGo
  BY <1>3 DEF RunGo, cVars
<1>4. CASE KvmRunEnter
  BY <1>4 DEF KvmRunEnter, Aged, goVars
<1>5. CASE GuestInterrupted \/ GuestReturns
  BY <1>5 DEF GuestInterrupted, GuestReturns, goVars, cVars
<1>6. CASE KvmRunLeave
  BY <1>6 DEF KvmRunLeave, goVars
<1>7. CASE HandleExit
  BY <1>7 DEF HandleExit, Refreshed, goVars, cVars
<1>8. ASSUME NEW c \in Callers, PauseInternal(c) PROVE TypeOK'
  BY <1>8 DEF PauseInternal, SetCall, KvmRunInterrupt, cVars
<1>9. ASSUME NEW c \in Callers, PauseManual(c) PROVE TypeOK'
  BY <1>9 DEF PauseManual, SetCall, KvmRunInterrupt, cVars
<1>10. ASSUME NEW c \in Callers, PauseReturns(c) PROVE TypeOK'
  BY <1>10 DEF PauseReturns, SetCall, goVars, cVars
<1>11. ASSUME NEW c \in Callers, UnpauseInternal(c) PROVE TypeOK'
  BY <1>11 DEF UnpauseInternal, SetCall, BroadcastResume, cVars
<1>12. ASSUME NEW c \in Callers, UnpauseManual(c) PROVE TypeOK'
  BY <1>12 DEF UnpauseManual, SetCall, BroadcastResume, cVars
<1>13. ASSUME NEW c \in Callers, GetRegisters(c) \/ SetRegisters(c) PROVE TypeOK'
  BY <1>13 DEF GetRegisters, SetRegisters, Refreshed, Modified, goVars, cVars
<1>14. CASE UNCHANGED vars
  BY <1>14 DEF vars, goVars, cVars
<1> QED
  BY <1>1, <1>2, <1>3, <1>4, <1>5, <1>6, <1>7, <1>8, <1>9, <1>10, <1>11, <1>12, <1>13, <1>14
     DEF Next, VcpuThread, Caller

\* The state of every variable of RunInfo stays in its type.
THEOREM TypeCorrect == Spec => []TypeOK
<1>1. ASSUME Init PROVE TypeOK
  BY <1>1 DEF Init, TypeOK, VcpuStates, CallStates, LeaveStates, RegsStates
<1> QED
  BY <1>1, TypeStep, PTL DEF Spec

-----------------------------------------------------------------------------
\* How a step changes the set of counted pauses, and paused with it.
LEMMA CountStep ==
  ASSUME TypeOK, PausedCountsCallers, [Next]_vars
  PROVE  PausedCountsCallers'
<1> USE DEF PausedCountsCallers
<1>1. ASSUME NEW c \in Callers, c \notin Counted, Counted' = Counted \cup {c},
             paused' = paused + 1
      PROVE  PausedCountsCallers'
  BY <1>1, CountedFinite, FS_AddElement
<1>2. ASSUME NEW c \in Callers, c \in Counted, Counted' = Counted \ {c},
             paused' = paused - 1
      PROVE  PausedCountsCallers'
  BY <1>2, CountedFinite, FS_RemoveElement
<1>3. ASSUME Counted' = Counted, paused' = paused
      PROVE  PausedCountsCallers'
  BY <1>3
<1>4. CASE VcpuThread \/ UNCHANGED vars
  <2>1. paused' = paused
    BY <1>4 DEF VcpuThread, FlushAllRegs, RunPark, RunGo, KvmRunEnter, GuestInterrupted,
                GuestReturns, KvmRunLeave, HandleExit, goVars, vars
  <2>2. CASE call' = call
    BY <2>1, <2>2, <1>3 DEF Counted
  <2>3. CASE RunPark
    <3>1. Counted' = Counted
      BY <2>3 DEF RunPark, BroadcastPaused, Counted, TypeOK, CallStates
    <3> QED
      BY <3>1, <2>1, <1>3
  <2> QED
    BY <1>4, <2>2, <2>3 DEF VcpuThread, FlushAllRegs, RunGo, KvmRunEnter, GuestInterrupted,
                GuestReturns, KvmRunLeave, HandleExit, goVars, vars
<1>5. ASSUME NEW c \in Callers, PauseInternal(c) PROVE PausedCountsCallers'
  <2>1. c \notin Counted
    BY <1>5 DEF PauseInternal, Ready, Counted
  <2>2. \E s \in {"i_held", "i_wait", "i_failed"} : call' = [call EXCEPT ![c] = s]
    BY <1>5 DEF PauseInternal, SetCall
  <2>3. Counted' = Counted \cup {c}
    BY <2>2 DEF Counted, TypeOK
  <2> QED
    BY <1>5, <2>1, <2>3, <1>1 DEF PauseInternal
<1>6. ASSUME NEW c \in Callers, PauseManual(c) PROVE PausedCountsCallers'
  <2>1. \E s \in {"m_paused", "m_wait", "idle"} : call' = [call EXCEPT ![c] = s]
    BY <1>6 DEF PauseManual, SetCall
  <2>2. Counted' = Counted
    BY <1>6, <2>1 DEF PauseManual, Ready, Counted, TypeOK
  <2> QED
    BY <1>6, <2>2, <1>3 DEF PauseManual
<1>7. ASSUME NEW c \in Callers, PauseReturns(c) PROVE PausedCountsCallers'
  <2>1. Counted' = Counted
    BY <1>7 DEF PauseReturns, SetCall, Counted, TypeOK
  <2> QED
    BY <1>7, <2>1, <1>3 DEF PauseReturns, goVars
<1>8. ASSUME NEW c \in Callers, UnpauseInternal(c) PROVE PausedCountsCallers'
  <2>1. c \in Counted
    BY <1>8 DEF UnpauseInternal, Counted
  <2>2. Counted' = Counted \ {c}
    BY <1>8 DEF UnpauseInternal, SetCall, Counted, TypeOK
  <2> QED
    BY <1>8, <2>1, <2>2, <1>2 DEF UnpauseInternal
<1>9. ASSUME NEW c \in Callers, UnpauseManual(c) PROVE PausedCountsCallers'
  <2>1. Counted' = Counted
    BY <1>9 DEF UnpauseManual, SetCall, Ready, Counted, TypeOK
  <2> QED
    BY <1>9, <2>1, <1>3 DEF UnpauseManual
<1>10. ASSUME NEW c \in Callers, GetRegisters(c) \/ SetRegisters(c) PROVE PausedCountsCallers'
  BY <1>10, <1>3 DEF GetRegisters, SetRegisters, goVars, Counted
<1> QED
  BY <1>4, <1>5, <1>6, <1>7, <1>8, <1>9, <1>10 DEF Next, Caller

\* The inductive invariant is preserved, one step of the proof per action.
LEMMA InvStep == IInv /\ [Next]_vars => IInv'
<1> SUFFICES ASSUME IInv, [Next]_vars PROVE IInv'
  OBVIOUS
<1>0. TypeOK' /\ PausedCountsCallers'
  BY TypeStep, CountStep DEF IInv
<1>a. \A c \in Callers : call[c] \in {"i_wait", "i_woken", "i_held"} => paused > 0
  BY CountedPositive DEF IInv, Counted
<1> SUFFICES FlagsInv' /\ GrantedInv' /\ NoLostResume' /\ InterruptInFlight' /\ RegsInv'
  BY <1>0 DEF IInv
<1> USE DEF IInv, TypeOK, FlagsInv, GrantedInv, NoLostResume, InterruptInFlight, RegsInv,
            Executing, PauseRequested, VcpuStates, LeaveStates, CallStates,
            RegsStates, StaleRegs
<1>1. CASE FlushAllRegs
  BY <1>1 DEF FlushAllRegs, goVars, cVars
<1>2. CASE RunPark
  BY <1>2 DEF RunPark, BroadcastPaused, cVars
\* RunGo: no pause is in force, so nobody holds one or is being granted one.
<1>3. CASE RunGo
  BY <1>3, <1>a DEF RunGo, cVars
<1>4. CASE KvmRunEnter
  BY <1>4 DEF KvmRunEnter, Aged, goVars
<1>5. CASE GuestInterrupted \/ GuestReturns
  BY <1>5 DEF GuestInterrupted, GuestReturns, goVars, cVars
<1>6. CASE KvmRunLeave
  BY <1>6 DEF KvmRunLeave, goVars
<1>7. CASE HandleExit
  BY <1>7 DEF HandleExit, Refreshed, goVars, cVars
<1>8. ASSUME NEW c \in Callers, PauseInternal(c)
      PROVE  FlagsInv' /\ GrantedInv' /\ NoLostResume' /\ InterruptInFlight' /\ RegsInv'
  <2>1. UNCHANGED <<vcpu, is_running, is_paused, running, regs>> /\ paused' > 0
    BY <1>8 DEF PauseInternal, KvmRunInterrupt, cVars
  <2>2. FlagsInv' /\ NoLostResume' /\ RegsInv'
    BY <2>1
  <2>3. GrantedInv'
    BY <1>8 DEF PauseInternal, SetCall
  <2>4. InterruptInFlight'
    BY <1>8, <2>1 DEF PauseInternal, KvmRunInterrupt, cVars
  <2> QED
    BY <2>2, <2>3, <2>4
<1>9. ASSUME NEW c \in Callers, PauseManual(c)
      PROVE  FlagsInv' /\ GrantedInv' /\ NoLostResume' /\ InterruptInFlight' /\ RegsInv'
  <2>1. UNCHANGED <<vcpu, is_running, paused, running, regs>> /\ is_paused'
    BY <1>9 DEF PauseManual, KvmRunInterrupt, cVars
  <2>2. FlagsInv' /\ NoLostResume' /\ RegsInv'
    BY <2>1
  <2>3. GrantedInv'
    BY <1>9, <2>1 DEF PauseManual, SetCall
  <2>4. InterruptInFlight'
    BY <1>9, <2>1 DEF PauseManual, KvmRunInterrupt, cVars
  <2> QED
    BY <2>2, <2>3, <2>4
<1>10. ASSUME NEW c \in Callers, PauseReturns(c)
       PROVE  FlagsInv' /\ GrantedInv' /\ NoLostResume' /\ InterruptInFlight' /\ RegsInv'
  BY <1>10 DEF PauseReturns, SetCall, goVars, cVars
<1>11. ASSUME NEW c \in Callers, UnpauseInternal(c)
       PROVE  FlagsInv' /\ GrantedInv' /\ NoLostResume' /\ InterruptInFlight' /\ RegsInv'
  BY <1>11 DEF UnpauseInternal, SetCall, BroadcastResume, cVars
<1>12. ASSUME NEW c \in Callers, UnpauseManual(c)
       PROVE  FlagsInv' /\ GrantedInv' /\ NoLostResume' /\ InterruptInFlight' /\ RegsInv'
  BY <1>12 DEF UnpauseManual, SetCall, BroadcastResume, cVars
<1>13. ASSUME NEW c \in Callers, GetRegisters(c) \/ SetRegisters(c)
       PROVE  FlagsInv' /\ GrantedInv' /\ NoLostResume' /\ InterruptInFlight' /\ RegsInv'
  BY <1>13 DEF GetRegisters, SetRegisters, Refreshed, Modified, goVars, cVars
<1>14. CASE UNCHANGED vars
  BY <1>14 DEF vars, goVars, cVars
<1> QED
  BY <1>1, <1>2, <1>3, <1>4, <1>5, <1>6, <1>7, <1>8, <1>9, <1>10, <1>11, <1>12, <1>13, <1>14
     DEF Next, VcpuThread, Caller

\* The invariant holds in every reachable state.
THEOREM Invariance == Spec => []IInv
<1>1. Init => IInv
  <2> SUFFICES ASSUME Init PROVE IInv
    OBVIOUS
  <2>1. TypeOK
    BY DEF Init, TypeOK, VcpuStates, CallStates, LeaveStates, RegsStates
  <2>2. Counted = {}
    BY DEF Init, Counted
  <2>3. PausedCountsCallers
    BY <2>2, FS_EmptySet DEF Init, PausedCountsCallers
  <2>4. FlagsInv /\ GrantedInv /\ NoLostResume /\ InterruptInFlight /\ RegsInv
    BY DEF Init, FlagsInv, GrantedInv, NoLostResume, InterruptInFlight, RegsInv, Executing,
           PauseRequested, LeaveStates, StaleRegs
  <2> QED
    BY <2>1, <2>3, <2>4 DEF IInv
<1> QED
  BY <1>1, InvStep, PTL DEF Spec

\* An internal Pause that has returned keeps the vcpu out of the guest and out
\* of exit handling until its Unpause.
THEOREM PauseSafety == Spec => []HeldMeansStopped
<1>1. IInv => HeldMeansStopped
  BY DEF IInv, GrantedInv, FlagsInv, HeldMeansStopped
<1> QED
  BY <1>1, Invariance, PTL

\* What the holder of an internal pause reads from the register cache is never
\* older than the guest's last run.
THEOREM RegistersFresh == Spec => []HeldReadsFresh
<1>1. IInv => HeldReadsFresh
  BY DEF IInv, GrantedInv, RegsInv, HeldReadsFresh
<1> QED
  BY <1>1, Invariance, PTL

\* A vcpu asleep in resume_event.Wait always has a pause in force: the
\* broadcast of the last Unpause is never lost (kvm_run.go).
THEOREM ResumeNotLost == Spec => []NoLostResume
<1>1. IInv => NoLostResume
  BY DEF IInv
<1> QED
  BY <1>1, Invariance, PTL

\* While a pause is in force, the vcpu about to enter the guest finds the
\* cancel request, and the one inside has the signal pending, although only
\* the first caller interrupts it (kvm_run.go).
THEOREM InterruptNotLost == Spec => []InterruptInFlight
<1>1. IInv => InterruptInFlight
  BY DEF IInv
<1> QED
  BY <1>1, Invariance, PTL

\* The pause count is the number of internal pauses begun and not undone, for
\* any number of callers.
THEOREM CountExact == Spec => []PausedCountsCallers
<1>1. IInv => PausedCountsCallers
  BY DEF IInv
<1> QED
  BY <1>1, Invariance, PTL

-----------------------------------------------------------------------------
\* A step of the protocol is a step of the gate or leaves it alone.
LEMMA GateStep == IInv /\ [Next]_vars => [Gate!GateNext]_(Gate!gateVars)
<1> SUFFICES ASSUME IInv, [Next]_vars PROVE [Gate!GateNext]_(Gate!gateVars)
  OBVIOUS
<1> DEFINE H == {c \in Callers : call[c] = "i_held"}
<1>a. \A c \in Callers : call[c] \in {"i_wait", "i_woken", "i_held"} => paused > 0
  BY CountedPositive DEF IInv, Counted
<1>b. ASSUME Executing' = Executing, H' = H
      PROVE  [Gate!GateNext]_(Gate!gateVars)
  BY <1>b DEF Gate!gateVars
<1> USE DEF LeaveStates
<1>1. CASE \/ FlushAllRegs \/ RunPark \/ KvmRunEnter \/ GuestInterrupted \/ GuestReturns
           \/ KvmRunLeave \/ HandleExit
  <2>1. H' = H
    BY <1>1 DEF FlushAllRegs, RunPark, KvmRunEnter, GuestInterrupted, GuestReturns,
                KvmRunLeave, HandleExit, BroadcastPaused
  <2>2. CASE Executing' = Executing
    BY <2>1, <2>2, <1>b
  <2>3. CASE Executing /\ ~Executing'
    BY <2>1, <2>3 DEF Gate!GateNext, Gate!Stop
  <2>4. ~(~Executing /\ Executing')
    BY <1>1 DEF Executing, FlushAllRegs, RunPark, KvmRunEnter, GuestInterrupted,
                GuestReturns, KvmRunLeave, HandleExit
  <2> QED
    BY <2>2, <2>3, <2>4 DEF Executing
<1>2. CASE RunGo
  <2>1. H = {} /\ H' = H
    BY <1>2, <1>a DEF RunGo, PauseRequested, IInv, TypeOK
  <2>2. ~Executing /\ Executing'
    BY <1>2 DEF RunGo, Executing
  <2> QED
    BY <2>1, <2>2 DEF Gate!GateNext, Gate!Start
<1>3. ASSUME NEW c \in Callers, Caller(c)
      PROVE  [Gate!GateNext]_(Gate!gateVars)
  <2>1. Executing' = Executing
    BY <1>3 DEF Caller, PauseInternal, PauseManual, PauseReturns, UnpauseInternal,
                UnpauseManual, GetRegisters, SetRegisters, BroadcastResume, Executing
  <2>2. CASE H' = H
    BY <2>1, <2>2, <1>b
  <2>3. CASE c \notin H /\ H' = H \cup {c}
    <3>1. ~is_running
      BY <1>3, <2>3 DEF Caller, PauseInternal, PauseManual, PauseReturns, UnpauseInternal,
                UnpauseManual, GetRegisters, SetRegisters, SetCall, IInv, GrantedInv, TypeOK
    <3>2. ~Executing
      BY <3>1 DEF IInv, FlagsInv
    <3> QED
      BY <2>1, <2>3, <3>2 DEF Gate!GateNext, Gate!Grant
  <2>4. CASE c \in H /\ H' = H \ {c}
    BY <2>1, <2>4 DEF Gate!GateNext, Gate!Release
  <2>5. \E s \in CallStates : call' = [call EXCEPT ![c] = s]
    BY <1>3 DEF Caller, PauseInternal, PauseManual, PauseReturns, UnpauseInternal,
                UnpauseManual, GetRegisters, SetRegisters, SetCall, CallStates, IInv, TypeOK
  <2> QED
    <3>1. H' = H \/ (c \notin H /\ H' = H \cup {c}) \/ (c \in H /\ H' = H \ {c})
      BY <2>5 DEF IInv, TypeOK
    <3> QED
      BY <3>1, <2>2, <2>3, <2>4
<1>4. CASE UNCHANGED vars
  BY <1>4, <1>b DEF vars, Executing
<1> QED
  BY <1>1, <1>2, <1>3, <1>4 DEF Next, VcpuThread

\* The protocol implements the gate: signals, cancel requests, broadcasts and
\* lock acquisitions included, callers see an atomic grant and release.
THEOREM Refinement == Spec => ImplementsGate
<1>1. Init => Gate!GateInit
  BY DEF Init, Gate!GateInit, Executing, LeaveStates
<1> QED
  BY <1>1, GateStep, Invariance, PTL DEF Spec, ImplementsGate, Gate!GateSpec

=============================================================================
