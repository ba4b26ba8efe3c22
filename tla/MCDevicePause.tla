--------------------------- MODULE MCDevicePause ---------------------------
(* Instances of DevicePause for TLC. *)
EXTENDS DevicePause

CONSTANTS c1, c2, c3, h1, h2, v1, v2

TwoCallers   == {c1, c2}
ThreeCallers == {c1, c2, c3}
TwoHandlers  == {h1, h2}
TwoVcpus     == {v1, v2}
=============================================================================
