---------------------------- MODULE MCMemoryMap ----------------------------
(* An instance of MemoryMap for TLC: pages of two bytes in a space of 16   *)
(* pages.                                                                  *)
EXTENDS MemoryMap

Req(page, pages, type) == [start |-> 2 * page, size |-> 2 * pages, type |-> type]

\* The first page, one after a gap, a hole with room on both sides, regions
\* inside of and beside it, and one that is not aligned.
MCRequests ==
  {Req(0, 1, "reserved"), Req(2, 1, "acpi"), Req(3, 3, "special"),
   Req(4, 1, "acpi"), Req(4, 1, "reserved"), Req(6, 1, "reserved"),
   [start |-> 5, size |-> 2, type |-> "reserved"]}
=============================================================================
