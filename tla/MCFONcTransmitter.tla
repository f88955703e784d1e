--------------------------- MODULE MCFONcTransmitter ---------------------------
(* Instances of FONcTransmitter for TLC.                                   *)
EXTENDS FONcTransmitter, TLC

CONSTANTS p1, p2, a, b, c

MCProcs == {p1, p2}
MCNames == {a, b}
ManyNames == {a, b, c}
(* Names are alike: nothing tells one from the other.                      *)
Symmetry == Permutations(ManyNames)
=============================================================================
