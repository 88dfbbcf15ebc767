----------------------------- MODULE MCUdcDataEp -----------------------------
(* Instances of UdcDataEp for TLC: pipes are strings, and this is the index  *)
(* of each, as in the endpoint addresses 0x01 .. 0x04 and 0x81 .. 0x84.      *)
EXTENDS UdcDataEp, TLC

MCIdx ==
  [p \in Out \cup In |-> CASE p \in {"out1", "in1"} -> 1
                           [] p \in {"out2", "in2"} -> 2
                           [] p \in {"out3", "in3"} -> 3]

(* The driver never compares or orders buffers. *)
Symmetry == Permutations(Buf)
=============================================================================
