----------------------------- MODULE PacketPipe ------------------------------
(***************************************************************************)
(* What an OUT endpoint promises to the class driver behind it: every      *)
(* packet the host sends and the device acknowledges reaches the class,    *)
(* once and in order.  How packets are grouped into buffers, who reads     *)
(* them and when is left open.                                             *)
(***************************************************************************)
EXTENDS Naturals, Sequences

CONSTANT Pipe       (* the OUT pipes *)

VARIABLES
  accepted,         (* how many packets the device has acknowledged        *)
  inside,           (* those in the device, oldest first                   *)
  delivered         (* those handed to the class, in order                 *)

vars == <<accepted, inside, delivered>>

Init ==
  /\ accepted = [p \in Pipe |-> 0]
  /\ inside = [p \in Pipe |-> <<>>]
  /\ delivered = [p \in Pipe |-> <<>>]

(* The device acknowledges the next packet. *)
Accept(p) ==
  /\ accepted' = [accepted EXCEPT ![p] = @ + 1]
  /\ inside' = [inside EXCEPT ![p] = Append(@, accepted[p] + 1)]
  /\ UNCHANGED delivered

(* The k oldest packets go to the class, in one transfer. *)
Deliver(p) ==
  \E k \in 1 .. Len(inside[p]) :
    /\ delivered' = [delivered EXCEPT ![p] = @ \o SubSeq(inside[p], 1, k)]
    /\ inside' = [inside EXCEPT ![p] = SubSeq(@, k + 1, Len(@))]
    /\ UNCHANGED accepted

Next == \E p \in Pipe : Accept(p) \/ Deliver(p)

Spec == Init /\ [][Next]_vars
=============================================================================
