------------------------------- MODULE MCOtaWs ------------------------------
(* OtaWs on a small flash: two files that take a first chunk with the header *)
(* and a second one, an atoi result of each kind (negative, zero, too small, *)
(* right), one handle that can be lost.                                     *)
EXTENDS OtaWs, TLC

MCImageSize == [i \in Image |-> 3]
MCSizeValues == {-1, 0, 2, 3}
MCSymmetry == Permutations(Image)
=============================================================================
