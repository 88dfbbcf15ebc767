----------------------------- MODULE MCSpiEm32 -------------------------------
(* Instances of SpiEm32 for TLC: two threads, the second with one           *)
(* configuration, the first with one or two.                                *)
EXTENDS SpiEm32

MCCfgOf == [t \in Thread |-> {c \in Cfg : CASE c \in {"a", "a2"} -> t = "t1"
                                            [] c \in {"b", "b2"} -> t = "t2"}]

(* A buffer longer than both FIFOs together, which may overrun; two buffers *)
(* against one, in chunks that do not get shorter.                          *)
MCTransfers == {[tx |-> <<5>>, rx |-> <<>>], [tx |-> <<1, 0, 2>>, rx |-> <<3>>]}

(* The same, shorter.                                                       *)
MCShort == {[tx |-> <<2>>, rx |-> <<>>], [tx |-> <<2, 0, 2>>, rx |-> <<4>>]}

(* A chunk of two words and then one of a single word.                      *)
MCShrinking == {[tx |-> <<2, 1>>, rx |-> <<>>]}
=============================================================================
