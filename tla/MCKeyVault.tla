----------------------------- MODULE MCKeyVault -----------------------------
(***************************************************************************)
(* Instances of KeyVault with the keys of the source, and texts of up to   *)
(* MaxLength bytes: one, two and three more than a whole group.            *)
(***************************************************************************)
EXTENDS KeyVault, SequencesExt

CONSTANTS Bytes, MaxLength

MCTexts == SeqOf(Bytes, MaxLength) \ {<< >>}

\* "12345678912345678901" and "h948kfd--fsd{jfh}l2D", with their '\0'.
MCKey ==
  LET keys == << <<49,50,51,52,53,54,55,56,57,49,50,51,52,53,54,55,56,57,48,49,0>>,
                 <<104,57,52,56,107,102,100,45,45,102,115,100,123,106,102,104,125,108,50,68,0>> >>
  IN [algorithm \in 0..1 |-> [i \in 0..20 |-> keys[algorithm + 1][i + 1]]]

MCAlphas == {-8, 127}
MCDeltas == {18, 50}
=============================================================================
