----------------------------- MODULE MCOtaSystem ----------------------------
(* OtaSystem with files of two chunks.                                      *)
EXTENDS OtaSystem, TLC

MCImageSize == [i \in Image |-> 3]
MCSizeValues == {1, 3}

\* Files of different lengths: one fits the first chunk.
MCMixedSize ==
    LET short == CHOOSE i \in Image : TRUE
    IN  [i \in Image |-> IF i = short THEN 1 ELSE 3]

MCSymmetry == Permutations(Image)
=============================================================================
