-------------------------------- MODULE MCBoard -------------------------------
(* Board with one thread, registers of two bytes and short timeouts: a     *)
(* write covers the end of one register and the start of the last, with    *)
(* the byte of the test pattern or another.                                *)
EXTENDS Board, TLC

CONSTANT app

WriteSet == {[at |-> 1, data |-> <<v, v, v>>] : v \in {0, 9}}
=============================================================================
