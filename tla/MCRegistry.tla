----------------------------- MODULE MCRegistry -----------------------------
(***************************************************************************)
(* Small instances of Registry, with two bytes in a word: two keys whose   *)
(* words are equal although the keys are not, and values of one word and   *)
(* of two, the second filled up with padding.                              *)
(***************************************************************************)
EXTENDS Registry

CONSTANTS k1, k2, v1, v2, r1

MCContent == [x \in Keys \cup Values |->
  CASE x = k1 -> <<7>> [] x = k2 -> <<7, PadByte>>
    [] x = v1 -> <<1>> [] x = v2 -> <<2, 3, 4>>]
=============================================================================
