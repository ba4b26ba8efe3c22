---------------------------- MODULE MCPlan9Fids ----------------------------
(* Instances of Plan9Fids for TLC: the root, a directory "a" in it, and an *)
(* entry "ab" of that.                                                     *)
EXTENDS Plan9Fids, TLC

FlatPaths == {"root", "a"}
FlatParent == [p \in FlatPaths |-> "root"]

DeepPaths == {"root", "a", "ab"}
DeepParent == [p \in DeepPaths |-> IF p = "ab" THEN "a" ELSE "root"]

\* Tags and fid numbers are interchangeable.
Symmetry == Permutations(Tags) \cup Permutations(Fids)
=============================================================================
