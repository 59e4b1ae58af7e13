------------------------------ MODULE MCOtaWsEnc ------------------------------
(* OtaWsEnc on a small flash: two firmwares of a block and a half, one in a *)
(* genuine file, the other in a file that was tampered with; the size 0, that *)
(* of the encrypted files, and one too small.                               *)
EXTENDS OtaWsEnc

CONSTANTS A, B, G, T

MCImageSize == [i \in Image |-> 3]
MCPlain == [f \in EncFile |-> IF f = G THEN A ELSE B]
MCSizeValues == {0, 3, 4}
=============================================================================
