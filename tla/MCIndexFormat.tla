---------------------------- MODULE MCIndexFormat ---------------------------
(***************************************************************************)
(* The index format on names around every boundary: the mask of the flags  *)
(* (4), a full block of padding with and without extended flags (2 and 10, *)
(* 8 bytes), prefixes of each other, and strips of one to three digits in  *)
(* base 3.                                                                 *)
(***************************************************************************)
EXTENDS IndexFormat

MCNameMask == 4
MCBase == 3
MCMarks == {<<FALSE, FALSE>>, <<TRUE, FALSE>>, <<TRUE, TRUE>>}

Ones(n) == [i \in 1 .. n |-> 1]
MCNames ==
  {Ones(n) : n \in {1, 2, 3, 4, 8, 10}} \cup {Ones(2) \o <<2>>, Ones(9) \o <<2>>, <<2>>}
=============================================================================
