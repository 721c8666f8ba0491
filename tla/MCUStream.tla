------------------------------ MODULE MCUStream ------------------------------
(***************************************************************************)
(* Small instances of UStream: three instances, two buffers whose bytes    *)
(* all differ, one concatenation.                                          *)
(***************************************************************************)
EXTENDS UStream, TLC

CONSTANTS i1, i2, i3, b1, b2, m1

MCContent == b1 :> <<"p", "q">> @@ b2 :> <<"x">>
MCBytes == b1 :> <<"p">> @@ b2 :> <<"x">>

MCSymmetry == Permutations(Instances)
=============================================================================
