---------------------------- MODULE MCParameters ----------------------------
(* Instances of Parameters for TLC: two numbers and two flags. *)
EXTENDS Parameters

CONSTANTS p1, p2, c1, c2

(* The definitions treat objects alike, and callers.                       *)
Interchangeable == Permutations({p1, p2}) \cup Permutations({c1, c2})

MCNumbers == <<"windowlog", "chainlog">>
MCFlags == <<"contentsize", "nodictid">>
MCPreset ==
  [l \in Levels |-> [k \in ToSet(MCNumbers \o MCFlags) |->
                       CASE k \in ToSet(MCNumbers) -> 2 + l
                         [] k = "contentsize" -> 1
                         [] k = "nodictid" -> 0]]
MCHighest == [k \in ToSet(MCNumbers) |-> 3]

(* In the bounds, negative, above those of an int, and out of range.       *)
MCOptions ==
  {[windowlog |-> 1, chainlog |-> -1], [chainlog |-> 12, nodictid |-> 1],
   [chainlog |-> 16]}
=============================================================================
