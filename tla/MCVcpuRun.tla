----------------------------- MODULE MCVcpuRun -----------------------------
(* Instances of VcpuRun for TLC. *)
EXTENDS VcpuRun

CONSTANTS c1, c2, c3

TwoCallers   == {c1, c2}
ThreeCallers == {c1, c2, c3}

BothResults == {"ok", "garbage"}
OkOnly      == {"ok"}
=============================================================================
