---------------------------- MODULE MCIoDispatch ----------------------------
(* An instance of IoDispatch for TLC: the guest writes the notify register *)
(* of a BAR that is at 0.  Where both are, the first device answers; where *)
(* that has moved away the second, and then nobody.                        *)
EXTENDS IoDispatch

MCAccesses == {<<1, "queue">>}
=============================================================================
