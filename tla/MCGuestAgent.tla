---------------------------- MODULE MCGuestAgent ----------------------------
(* An instance of GuestAgent for TLC.                                      *)
EXTENDS GuestAgent

=============================================================================
