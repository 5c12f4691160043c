------------------------------ MODULE MCServer ------------------------------
(* The threads around the frame buffer: constants for TLC.                 *)
EXTENDS FrameServer, TLC

CONSTANTS h1, h2

MCHandlers == {h1, h2}

\* Two matrices of different shape and the same number of pixels; the conversion
\* file is for one of them and larger than the other.
MCSizes == {[x |-> 1, y |-> 2], [x |-> 2, y |-> 1]}
MCJson  == [x |-> 2, y |-> 1]

Symmetry == Permutations(MCHandlers)
=============================================================================
