---------------------------- MODULE DevicePause ----------------------------
(***************************************************************************)
(* Pausing a device: BaseDevice.Pause, Unpause, Acquire and Release        *)
(* (machine/device.go), and the goroutines that Acquire holds back, the    *)
(* IoHandlers that serve the I/O exits of the vcpus (machine/io.go,        *)
(* machine/entry.go).                                                      *)
(*                                                                         *)
(* pause_lock is held for all of Pause and Unpause, the wait for run_lock  *)
(* included; run_lock is a sync.RWMutex, whose readers are the handlers at *)
(* work and whose writer is the pause in force.  A writer that waits keeps *)
(* new readers out.                                                        *)
(***************************************************************************)
EXTENDS Naturals, FiniteSets

CONSTANTS
  Callers,    \* goroutines that pause and unpause the device
  Handlers,   \* the IoHandlers of the device
  Vcpus,      \* the vcpus whose exits they serve
  MaxPaused,  \* bound on paused
  NoOne       \* nobody: not a caller, a handler or a vcpu

ASSUME CallersFinite == IsFiniteSet(Callers)
ASSUME MaxPausedType == MaxPaused \in Nat
ASSUME NoOneFresh == NoOne \notin Callers \cup Handlers \cup Vcpus

VARIABLES
  is_paused,   \* BaseDevice.is_paused: the manual pause
  paused,      \* BaseDevice.paused: the internal pause count
  pause_lock,  \* the caller inside Pause that waits for run_lock, or NoOne
  writer,      \* run_lock: "none", a writer "waiting", or write-"locked"
  call,        \* what each caller is doing
  io,          \* where the Run loop of each handler is
  serving,     \* whose request it has pulled
  req          \* the handler each vcpu waits for, or NoOne

pauseVars == <<is_paused, paused, pause_lock, writer>>
ioVars    == <<io, serving, req>>
vars      == <<pauseVars, call, ioVars>>

\* "i_lock", "m_lock": in run_lock.Lock of Pause(false), Pause(true);
\* "i_held": Pause(false) has returned, and Unpause(false) is to come.
CallStates == {"idle", "i_lock", "m_lock", "i_held"}

\* "pulled": before Acquire returns; "acquired": the operation is not yet
\* done; "replied": the vcpu has its result, the run_lock is still held.
IoStates == {"idle", "pulled", "acquired", "replied"}

\* The readers of run_lock.
Active == {h \in Handlers : io[h] \in {"acquired", "replied"}}

\* The pauses that have been granted and not undone.
Holders == {c \in Callers : call[c] = "i_held"}

PauseRequested == is_paused \/ paused > 0

Init ==
  /\ is_paused = FALSE
  /\ paused = 0
  /\ pause_lock = NoOne
  /\ writer = "none"
  /\ call = [c \in Callers |-> "idle"]
  /\ io = [h \in Handlers |-> "idle"]
  /\ serving = [h \in Handlers |-> NoOne]
  /\ req = [v \in Vcpus |-> NoOne]

-----------------------------------------------------------------------------
(* The callers.                                                            *)

SetCall(c, s) == call' = [call EXCEPT ![c] = s]

\* run_lock.Lock is called, with pause_lock held.
LockRun(c, s) ==
  /\ writer' = "waiting"
  /\ pause_lock' = c
  /\ SetCall(c, s)

\* Pause(true); DeviceAlreadyPaused, and nothing done, if the flag is set.
PauseManual(c) ==
  /\ pause_lock = NoOne
  /\ call[c] = "idle"
  /\ ~is_paused
  /\ is_paused' = TRUE
  /\ IF paused > 0
     THEN UNCHANGED <<pause_lock, writer, call>>
     ELSE LockRun(c, "m_lock")
  /\ UNCHANGED <<paused, ioVars>>

\* Pause(false).  A pause that finds the device paused counts itself twice.
PauseInternal(c) ==
  /\ pause_lock = NoOne
  /\ call[c] = "idle"
  /\ paused + 2 <= MaxPaused
  /\ \/ /\ paused > 0 \/ is_paused
        /\ paused' = paused + 2
        /\ SetCall(c, "i_held")
        /\ UNCHANGED <<pause_lock, writer>>
     \/ /\ paused = 0 /\ ~is_paused
        /\ paused' = paused + 1
        /\ LockRun(c, "i_lock")
  /\ UNCHANGED <<is_paused, ioVars>>

\* Faulty variant: run_lock is taken as soon as no handler has a request
\* under way, although one may still be between its reply and Release.
LockedEarly(c) ==
  /\ \/ call[c] = "i_lock" /\ SetCall(c, "i_held")
     \/ call[c] = "m_lock" /\ SetCall(c, "idle")
  /\ \A h \in Handlers : io[h] # "acquired"
  /\ writer' = "locked"
  /\ pause_lock' = NoOne
  /\ UNCHANGED <<is_paused, paused, ioVars>>

\* run_lock.Lock returns once the last reader is gone; so does Pause.
Locked(c) ==
  /\ \/ call[c] = "i_lock" /\ SetCall(c, "i_held")
     \/ call[c] = "m_lock" /\ SetCall(c, "idle")
  /\ Active = {}
  /\ writer' = "locked"
  /\ pause_lock' = NoOne
  /\ UNCHANGED <<is_paused, paused, ioVars>>

\* Faulty variant: only a manual Unpause gets as far as run_lock.Unlock.
UnlockRunManualOnly == writer' = IF PauseRequested' \/ ~is_paused THEN writer ELSE "none"

\* run_lock.Unlock, unless a pause is still in force.
UnlockRun == writer' = IF PauseRequested' THEN writer ELSE "none"

\* Faulty variant: the internal count does not keep run_lock.
UnpauseManualUnlocks(c) ==
  /\ pause_lock = NoOne
  /\ call[c] = "idle"
  /\ is_paused
  /\ is_paused' = FALSE
  /\ writer' = "none"
  /\ UNCHANGED <<paused, pause_lock, call, ioVars>>

\* Unpause(true), by any caller; DeviceNotPaused if the flag is clear.
UnpauseManual(c) ==
  /\ pause_lock = NoOne
  /\ call[c] = "idle"
  /\ is_paused
  /\ is_paused' = FALSE
  /\ UNCHANGED <<paused, pause_lock, call, ioVars>>
  /\ UnlockRun

\* Faulty variant: undoes both counts, whichever way the pause was taken.
UnpauseInternalTwice(c) ==
  /\ pause_lock = NoOne
  /\ call[c] = "i_held"
  /\ paused' = paused - 2
  /\ SetCall(c, "idle")
  /\ UNCHANGED <<is_paused, pause_lock, ioVars>>
  /\ UnlockRun

\* Unpause(false), the deferred half of Model.DeviceInfo's Pause(false).
UnpauseInternal(c) ==
  /\ pause_lock = NoOne
  /\ call[c] = "i_held"
  /\ paused' = paused - 1
  /\ SetCall(c, "idle")
  /\ UNCHANGED <<is_paused, pause_lock, ioVars>>
  /\ UnlockRun

-----------------------------------------------------------------------------
(* The vcpus and the handlers.                                             *)

\* Model.Handle and IoQueue.Submit, up to the send: an exit for a region
\* that belongs to a handler of this device.
Submit(v, h) ==
  /\ req[v] = NoOne
  /\ req' = [req EXCEPT ![v] = h]
  /\ UNCHANGED <<pauseVars, call, io, serving>>

\* IoHandler.Run pulls the request off the unbuffered queue.
Pull(h, v) ==
  /\ io[h] = "idle"
  /\ req[v] = h
  /\ io' = [io EXCEPT ![h] = "pulled"]
  /\ serving' = [serving EXCEPT ![h] = v]
  /\ UNCHANGED <<pauseVars, call, req>>

\* Faulty variant: a handler does not mind a writer that waits.
AcquirePastWriter(h) ==
  /\ io[h] = "pulled"
  /\ writer # "locked"
  /\ io' = [io EXCEPT ![h] = "acquired"]
  /\ UNCHANGED <<pauseVars, call, serving, req>>

\* Acquire: a read lock on run_lock.
Acquire(h) ==
  /\ io[h] = "pulled"
  /\ writer = "none"
  /\ io' = [io EXCEPT ![h] = "acquired"]
  /\ UNCHANGED <<pauseVars, call, serving, req>>

\* The operation is performed and its result sent: the vcpu goes on, while
\* the device is not yet released.
Reply(h) ==
  /\ io[h] = "acquired"
  /\ io' = [io EXCEPT ![h] = "replied"]
  /\ req' = [req EXCEPT ![serving[h]] = NoOne]
  /\ UNCHANGED <<pauseVars, call, serving>>

\* Release, and back to the queue.
Release(h) ==
  /\ io[h] = "replied"
  /\ io' = [io EXCEPT ![h] = "idle"]
  /\ serving' = [serving EXCEPT ![h] = NoOne]
  /\ UNCHANGED <<pauseVars, call, req>>

-----------------------------------------------------------------------------
Caller(c) ==
  \/ PauseManual(c) \/ PauseInternal(c) \/ Locked(c)
  \/ UnpauseManual(c) \/ UnpauseInternal(c)

Handler(h) ==
  \/ Acquire(h) \/ Reply(h) \/ Release(h)
  \/ \E v \in Vcpus : Submit(v, h) \/ Pull(h, v)

Next == (\E c \in Callers : Caller(c)) \/ (\E h \in Handlers : Handler(h))

Spec == Init /\ [][Next]_vars

\* A handler's loop keeps going and pulls from every vcpu in turn (a channel
\* is first come, first served); run_lock lets in the readers that waited
\* before its next writer, so a handler that is infinitely often able to
\* read-lock it does.  A waiting writer gets its turn.  Nobody has to pause,
\* unpause or submit.
FairSpec ==
  /\ Spec
  /\ \A c \in Callers : WF_vars(Locked(c))
  /\ \A h \in Handlers :
       /\ SF_vars(Acquire(h))
       /\ WF_vars(Reply(h))
       /\ WF_vars(Release(h))
       /\ \A v \in Vcpus : SF_vars(Pull(h, v))

-----------------------------------------------------------------------------
(* Properties.                                                             *)

TypeOK ==
  /\ is_paused \in BOOLEAN
  /\ paused \in Nat
  /\ pause_lock \in Callers \cup {NoOne}
  /\ writer \in {"none", "waiting", "locked"}
  /\ call \in [Callers -> CallStates]
  /\ io \in [Handlers -> IoStates]
  /\ serving \in [Handlers -> Vcpus \cup {NoOne}]
  /\ req \in [Vcpus -> Handlers \cup {NoOne}]

\* From the return of an internal Pause to its Unpause no handler is between
\* Acquire and Release, whatever manual pauses come and go meanwhile: what
\* Model.DeviceInfo saves is not being changed ("Acquire our runlock,
\* preventing any execution from continuing").
HeldMeansQuiet == Holders # {} => Active = {} /\ writer = "locked"

\* run_lock is write-locked exactly when a pause is in force (outside a
\* Pause that waits for it): no sequence of pauses and unpauses unlocks a
\* run_lock that is not locked, which the Go runtime makes fatal, and none
\* locks it twice, which would block for ever with pause_lock held.
RunLockFollowsPauses ==
  /\ pause_lock = NoOne => writer = IF PauseRequested THEN "locked" ELSE "none"
  /\ pause_lock # NoOne => writer = "waiting" /\ PauseRequested

\* Pausing a device implements the gate, with the handlers at work as what
\* the gate holds back.
Gate == INSTANCE PauseGate WITH executing <- Active # {}, holders <- Holders
ImplementsGate == Gate!GateSpec

\* A Pause that waits for run_lock gets it although the vcpus submit one
\* request after the other: a waiting writer keeps new readers out.
DevicePauseReturns ==
  \A c \in Callers : call[c] \in {"i_lock", "m_lock"} ~> pause_lock # c

\* Unless the device is paused for good every request is answered, however
\* often it is paused meanwhile.
RequestAnswered ==
  []<>(~PauseRequested) => \A v \in Vcpus : req[v] # NoOne ~> req[v] = NoOne

\* device.go:156-157 as its comment has it: when the last pause is undone run_lock is
\* released and execution continues normally.
ResumedWhenAllUnpaused ==
  (\A c \in Callers : call[c] = "idle") /\ ~is_paused => writer = "none"

=============================================================================
