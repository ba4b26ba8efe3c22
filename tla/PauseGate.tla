----------------------------- MODULE PauseGate -----------------------------
(***************************************************************************)
(* What a pause protocol promises to the code that reads and writes vcpu   *)
(* and device state (SaveState, Reload, NewVcpuInfo, Model.DeviceInfo): a  *)
(* gate that is held by any number of internal pauses.  The paused thing   *)
(* executes only while nobody holds the gate, and the gate is granted only *)
(* while it does not execute.  VcpuRun implements this specification for a *)
(* vcpu, DevicePause for a device.                                         *)
(***************************************************************************)
CONSTANT Callers

VARIABLES
  executing,  \* the vcpu, or some I/O on the device, is under way
  holders     \* the callers whose Pause(false) has returned, not yet undone

gateVars == <<executing, holders>>

GateInit == executing = FALSE /\ holders = {}

\* It begins, or goes on, to execute.
Start ==
  /\ ~executing
  /\ holders = {}
  /\ executing' = TRUE
  /\ UNCHANGED holders

\* It stops: a vcpu exit has been dealt with, the guest was interrupted, or
\* the last I/O on the device is done.
Stop ==
  /\ executing
  /\ executing' = FALSE
  /\ UNCHANGED holders

\* Pause(false) returns nil.
Grant(c) ==
  /\ ~executing
  /\ c \notin holders
  /\ holders' = holders \cup {c}
  /\ UNCHANGED executing

\* Unpause(false).
Release(c) ==
  /\ c \in holders
  /\ holders' = holders \ {c}
  /\ UNCHANGED executing

GateNext == Start \/ Stop \/ \E c \in Callers : Grant(c) \/ Release(c)

GateSpec == GateInit /\ [][GateNext]_gateVars

=============================================================================
