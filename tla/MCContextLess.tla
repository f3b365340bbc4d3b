--------------------------- MODULE MCContextLess ---------------------------
(* Instances of ContextLess for TLC. *)
EXTENDS ContextLess

CONSTANTS s1, s2, s3, none, few, long, huge

(* Texts of two lengths that a string can have, one that is negative as a  *)
(* long and one that a size_t cannot hold.                                 *)
MCSize ==
  [t \in Texts |-> CASE t = none -> 0 [] t = few -> 2 [] t = long -> 9 [] t = huge -> 17]

(* Two frames in a row, one that is cut, and the two long ones. *)
MCImports ==
  {Zipped(few, none, 1, TRUE), Zipped(few, none, 2, FALSE),
   Zipped(long, none, 9, TRUE), Zipped(huge, none, 17, TRUE)}

(* In range and out of it, with sizes that are enough for some texts. *)
MCLimits == {Nil, -1, 1, 3, 16}
=============================================================================
