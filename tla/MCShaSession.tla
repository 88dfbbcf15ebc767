----------------------------- MODULE MCShaSession -----------------------------
EXTENDS ShaSession, TLC

CONSTANTS c1, c2

ContextSet == {c1, c2}
ContextSymmetry == Permutations(ContextSet)

(* On both sides of the small buffer (200 + 56 fills it), of the maximal   *)
(* buffer (2048 twice and 56 fill it) and of a chunk; whole words and not; *)
(* and the first length without room for the 64 bits of length in a block. *)
LengthSet == {3, 56, 200, 2048, 65536}

(* The length of one chunk, and of a chunk and a rest: right or wrong.     *)
TotalSet == {65536, 65539}
=============================================================================
