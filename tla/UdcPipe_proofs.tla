--------------------------- MODULE UdcPipe_proofs ---------------------------
(***************************************************************************)
(* What UdcDataEp does with packets and buffers, for every set of pipes    *)
(* and buffers and every size: buffers keep room, nothing waits unnoticed, *)
(* masks and FIFOs stay consistent, buffers are conserved, packets keep    *)
(* their order, and every step is one of PacketPipe or a stutter.          *)
(***************************************************************************)
EXTENDS UdcDataEp_proofs, SequenceTheorems

(* A new buffer on the queue of a data endpoint. *)
Puts(p, b) ==
  /\ b \notin owned /\ PutBuf(p, b) /\ owned' = owned \cup {b}
  /\ UNCHANGED <<rx, got, sent, astray>>

(* A new buffer on the queue of endpoint 0, or the end of all that are there. *)
Strays ==
  \/ \E b \in Buf : /\ b \notin owned /\ owned' = owned \cup {b}
                    /\ astray' = astray \cup {b}
  \/ owned' = owned \ astray /\ astray' = {}

(* The steps by what they do to buffers and packets: all others leave them. *)
LEMMA DataSteps ==
  ASSUME TypeInv, [Next]_vars
  PROVE  \/ \E p \in Pipes, b \in Buf : Puts(p, b)
         \/ \E p \in Pipes : Dequeue(p)
         \/ \E p \in Out : queue[p] # <<>> /\ ReadPacket(p) /\ UNCHANGED <<sent, astray>>
         \/ \E p \in In : D2hEnter(p)
         \/ \E p \in Out : HostOut(p)
         \/ UNCHANGED <<queue, rx, got, sent>> /\ (Strays \/ UNCHANGED <<owned, astray>>)
<1> USE DEF thrVars, bufVars, renVars, statVars, irqVars, hwVars, histVars
<1> DEFINE Same == UNCHANGED <<queue, owned, astray, rx, got, sent>>
<1>1. ASSUME EnqueueCtl \/ EnqueueName \/ EnqueueNotify PROVE Same
  BY <1>1 DEF EnqueueCtl, EnqueueName, EnqueueNotify
<1>2. ASSUME NEW p \in Pipes, EnqueueTest(p) \/ SetHalt(p) \/ ClearHalt(p) PROVE Same
  BY <1>2 DEF EnqueueTest, SetHalt, ClearHalt, EpSetHalt
<1>3. ASSUME NEW p \in Pipes, EnableBegin(p) \/ DisableBegin(p) PROVE Same
  BY <1>3 DEF EnableBegin, DisableBegin
<1>4. ASSUME EnableIrq \/ EnableEnd \/ DisableFlag \/ DisableEnd PROVE Same
  BY <1>4 DEF EnableIrq, EnableEnd, DisableFlag, DisableEnd
<1>5. ASSUME NEW p \in Pipes, NEW b \in Buf, Enqueue(p, b) PROVE Puts(p, b)
  BY <1>5 DEF Enqueue, Puts
<1>6. ASSUME MsgGet \/ MsgLock \/ HandleCtl \/ XferInMask \/ XferInClear \/ XferInUnmask
      PROVE Same
  BY <1>6 DEF MsgGet, MsgLock, HandleCtl, XferInMask, XferInClear, XferInUnmask
<1>7. ASSUME NEW p \in Out, H2dEnter(p) PROVE Same
  BY <1>7 DEF H2dEnter
<1>8. ASSUME D2hExit \/ SetupMsgIsr \/ ResetIsr PROVE Same
  BY <1>8 DEF D2hExit, SetupMsgIsr, ResetIsr
<1>9. ASSUME NEW p \in In, HostIn(p) PROVE Same
  BY <1>9 DEF HostIn
<1>10. ASSUME UNCHANGED vars PROVE Same
  BY <1>10 DEF vars
<1>11. ASSUME XferOut
       PROVE  Same \/ \E p \in Out : queue[p] # <<>> /\ ReadPacket(p) /\ UNCHANGED <<sent, astray>>
  BY <1>11 DEF XferOut
<1>12. ASSUME H2dRead
       PROVE  \E p \in Out : queue[p] # <<>> /\ ReadPacket(p) /\ UNCHANGED <<sent, astray>>
  BY <1>12 DEF H2dRead, TypeInv, Control
<1>13. ASSUME NEW b \in Buf, EnqueueMove(b)
       PROVE  \/ \E p \in Pipes : Puts(p, b)
              \/ UNCHANGED <<queue, rx, got, sent>> /\ Strays
  <2>1. NewDst # Ctl => NewDst \in Pipes
    BY NewDstType DEF Pipes
  <2>2. CASE NewDst = Ctl
    BY <1>13, <2>2 DEF EnqueueMove, Strays
  <2>3. CASE NewDst # Ctl
    BY <1>13, <2>1, <2>3 DEF EnqueueMove, Puts
  <2>4. QED
    BY <2>2, <2>3
<1>14. ASSUME DequeueCtl PROVE UNCHANGED <<queue, rx, got, sent>> /\ Strays
  BY <1>14 DEF DequeueCtl, Strays
<1> HIDE DEF Same
<1>15. Same => UNCHANGED <<queue, rx, got, sent>> /\ UNCHANGED <<owned, astray>>
  BY DEF Same
<1>16. QED
  BY <1>1, <1>2, <1>3, <1>4, <1>5, <1>6, <1>7, <1>8, <1>9, <1>10, <1>11, <1>12, <1>13,
     <1>14, <1>15 DEF Next, ApiCall, ApiStep, Handler, Interrupt, Host

(* What ReadPacket does, by its two outcomes. *)
Content(p) == IF rx[p] = <<>> THEN Head(queue[p]).data
              ELSE Append(Head(queue[p]).data, Head(rx[p]).n)

LEMMA ReadPacketCases ==
  ASSUME TypeInv, NEW p \in Out, queue[p] # <<>>, ReadPacket(p)
  PROVE  /\ rx' = [rx EXCEPT ![p] = <<>>]
         /\ Content(p) \in Seq(Nat)
         /\ \/ Complete(p, Content(p))
            \/ \E f \in Entry : /\ f.buf = Head(queue[p]).buf /\ f.left >= MPS
                                /\ f.data = Content(p)
                                /\ UpdateHead(p, f)
<1> DEFINE e == Head(queue[p])
           n == IF rx[p] = <<>> THEN 0 ELSE Lesser(Head(rx[p]).len, e.left)
<1>1. p \in Pipes /\ queue[p] \in Seq(Entry) /\ e \in Entry
  BY DEF TypeInv, TypeOK, Pipes
<1>2. rx[p] # <<>> => Head(rx[p]) \in Packet
  BY DEF TypeInv, TypeOK
<1>3. Content(p) \in Seq(Nat)
  BY <1>1, <1>2 DEF Entry, Packet, Content
<1>4. n \in Nat /\ e.left - n \in Nat
  BY <1>1, <1>2, SizesAssumption DEF Entry, Packet, Lesser
<1>5. CASE e.left - n < MPS
  BY <1>3, <1>5 DEF ReadPacket, Content
<1>6. CASE ~(e.left - n < MPS)
  <2> DEFINE f == [e EXCEPT !.left = @ - n, !.data = Content(p)]
  <2>1. UpdateHead(p, f)
    BY <1>6 DEF ReadPacket, Content
  <2>2. f \in Entry /\ f.buf = e.buf /\ f.left >= MPS /\ f.data = Content(p)
    <3> DEFINE l == e.left - n
    <3>1. l \in Nat /\ l >= MPS /\ f = [e EXCEPT !.left = l, !.data = Content(p)]
      BY <1>4, <1>6, SizesAssumption
    <3> HIDE DEF f, l, e, n
    <3>2. QED
      BY <1>1, <1>3, <3>1 DEF Entry
  <2> HIDE DEF f
  <2>3. QED
    BY <1>3, <2>1, <2>2 DEF ReadPacket
<1>7. QED
  BY <1>5, <1>6

-----------------------------------------------------------------------------
(* RoomForPacket is inductive on top of the types. *)

LEMMA RoomStep == TypeInv /\ RoomForPacket /\ [Next]_vars => RoomForPacket'
<1> SUFFICES ASSUME TypeInv, RoomForPacket, [Next]_vars PROVE RoomForPacket'
  OBVIOUS
<1>0. /\ Out \subseteq Pipes /\ In \cap Out = {}
      /\ queue \in [Pipes -> Seq(Entry)]
  BY PipesAssumption DEF Pipes, TypeInv, TypeOK
<1>1. ASSUME NEW p \in Pipes, NEW b \in Buf, Puts(p, b) PROVE RoomForPacket'
  <2>1. PICK n \in (IF p \in Out THEN RoomSizes ELSE Lengths) :
          queue' = [queue EXCEPT ![p] = Append(@, [buf |-> b, left |-> n, data |-> <<>>])]
    BY <1>1 DEF Puts, PutBuf
  <2>2. CASE p \in Out
    <3> DEFINE f == [buf |-> b, left |-> n, data |-> <<>>]
    <3>1. n \in Nat /\ n >= MPS
      BY <2>2, SizesAssumption
    <3>2. f \in Entry /\ f.left >= MPS
      BY <3>1 DEF Entry
    <3>3. queue[p] \in Seq(Entry)
      BY <1>0
    <3> HIDE DEF f
    <3>4. \A i \in 1 .. Len(Append(queue[p], f)) : Append(queue[p], f)[i].left >= MPS
      BY <2>2, <3>2, <3>3 DEF RoomForPacket
    <3>5. QED
      BY <1>0, <2>1, <3>3, <3>4 DEF RoomForPacket, f
  <2>3. CASE p \notin Out
    BY <1>0, <2>1, <2>3 DEF RoomForPacket
  <2>4. QED
    BY <2>2, <2>3
<1>2. ASSUME NEW p \in Pipes, Dequeue(p) PROVE RoomForPacket'
  BY <1>0, <1>2 DEF Dequeue, RoomForPacket
<1>3. ASSUME NEW p \in Out, queue[p] # <<>>, ReadPacket(p) PROVE RoomForPacket'
  <2>0. queue[p] \in Seq(Entry) /\ Tail(queue[p]) \in Seq(Entry)
    BY <1>0, <1>3
  <2>1. CASE Complete(p, Content(p))
    <3>1. \A i \in 1 .. Len(Tail(queue[p])) : Tail(queue[p])[i].left >= MPS
      BY <1>3, <2>0 DEF RoomForPacket
    <3>2. QED
      BY <1>0, <2>1, <3>1 DEF Complete, RoomForPacket
  <2>2. ASSUME NEW f \in Entry, f.left >= MPS, UpdateHead(p, f) PROVE RoomForPacket'
    <3>1. \A i \in 1 .. Len(<<f>> \o Tail(queue[p])) :
            (<<f>> \o Tail(queue[p]))[i].left >= MPS
      BY <1>3, <2>0, <2>2 DEF RoomForPacket
    <3>2. QED
      BY <1>0, <2>2, <3>1 DEF UpdateHead, RoomForPacket
  <2>3. QED
    BY <1>3, <2>1, <2>2, ReadPacketCases
<1>4. ASSUME NEW p \in In, D2hEnter(p) PROVE RoomForPacket'
  <2>1. \A q \in Out : queue'[q] = queue[q]
    BY <1>0, <1>4 DEF D2hEnter, Complete, UpdateHead, bufVars
  <2>2. QED
    BY <2>1 DEF RoomForPacket
<1>5. ASSUME NEW p \in Out, HostOut(p) PROVE RoomForPacket'
  BY <1>5 DEF HostOut, bufVars, RoomForPacket
<1>6. ASSUME UNCHANGED queue PROVE RoomForPacket'
  BY <1>6 DEF RoomForPacket
<1>7. QED
  BY <1>1, <1>2, <1>3, <1>4, <1>5, <1>6, DataSteps

(* Every buffer in an OUT queue has room for a full packet, so that no      *)
(* packet is cut short by the `len > data_len' of _e967_proc_epx_h2d.       *)
THEOREM PacketsHaveRoom == Spec => []RoomForPacket
<1>1. Init => RoomForPacket
  BY DEF Init, RoomForPacket, Pipes
<1>2. QED
  BY TypeInit, TypeStep, <1>1, RoomStep, PTL DEF Spec

-----------------------------------------------------------------------------
(* NoStrandedPacket is inductive on top of the types.                       *)

LEMMA StrandStep == TypeInv /\ NoStrandedPacket /\ [Next]_vars => NoStrandedPacket'
<1> SUFFICES ASSUME TypeInv, NoStrandedPacket, [Next]_vars PROVE NoStrandedPacket'
  OBVIOUS
<1> USE DEF thrVars, bufVars, renVars, statVars, irqVars, hwVars, histVars
<1>0. /\ Out \subseteq Pipes /\ In \subseteq Pipes /\ In \cap Out = {}
      /\ flag \in [Pipes -> BOOLEAN] /\ sf \in [Pipes -> BOOLEAN]
      /\ stranded \in [Out -> BOOLEAN]
      /\ \A p \in In : p \notin Out
  BY PipesAssumption DEF Pipes, TypeInv, TypeOK
<1>1. ASSUME UNCHANGED <<rx, sf, flag, isr, stranded>> PROVE NoStrandedPacket'
  BY <1>1 DEF NoStrandedPacket
<1>2. ASSUME \/ \E p \in Pipes, b \in Buf : Enqueue(p, b)
             \/ \E p \in Pipes : EnqueueTest(p)
             \/ \E b \in Buf : EnqueueMove(b)
      PROVE  NoStrandedPacket'
  BY <1>1, <1>2 DEF Enqueue, EnqueueTest, EnqueueMove
<1>3. ASSUME NEW p \in Pipes, Dequeue(p) \/ SetHalt(p) \/ ClearHalt(p) \/ DisableBegin(p)
      PROVE  NoStrandedPacket'
  BY <1>1, <1>3 DEF Dequeue, SetHalt, ClearHalt, EpSetHalt, DisableBegin
<1>4. ASSUME \/ EnqueueNotify \/ EnableEnd \/ MsgGet \/ MsgLock \/ HandleCtl \/ XferInMask
             \/ XferInUnmask \/ SetupMsgIsr \/ ResetIsr \/ UNCHANGED vars
             \/ EnqueueCtl \/ DequeueCtl \/ EnqueueName
      PROVE  NoStrandedPacket'
  BY <1>1, <1>4 DEF EnqueueNotify, EnableEnd, MsgGet, MsgLock, HandleCtl, XferInMask,
                    XferInUnmask, SetupMsgIsr, ResetIsr, EnqueueCtl, DequeueCtl,
                    EnqueueName, vars
<1>5. ASSUME NEW p \in Pipes, MarkStranded(p), UNCHANGED <<rx, isr>>,
             \A q \in Pipes : q # p => flag'[q] = flag[q] /\ sf'[q] = sf[q]
      PROVE  NoStrandedPacket'
  BY <1>0, <1>5 DEF MarkStranded, Unnoticed, NoStrandedPacket
<1>6. ASSUME NEW p \in Pipes, EnableBegin(p) PROVE NoStrandedPacket'
  BY <1>0, <1>5, <1>6 DEF EnableBegin
<1>7. ASSUME EnableIrq \/ DisableFlag \/ DisableEnd PROVE NoStrandedPacket'
  <2>1. api.ep \in Pipes
    BY <1>7 DEF EnableIrq, DisableFlag, DisableEnd, TypeInv, Control
  <2>2. QED
    BY <1>0, <1>5, <1>7, <2>1 DEF EnableIrq, DisableFlag, DisableEnd
<1>8. ASSUME NEW p \in Out, rx' = [rx EXCEPT ![p] = <<>>], UNCHANGED <<sf, stranded>>,
             isr' = isr \/ isr.ep = p,
             \A q \in Pipes : q # p => flag'[q] = flag[q]
      PROVE  NoStrandedPacket'
  <2>1. \A q \in Out : rx'[q] # <<>> => q # p /\ rx[q] # <<>>
    BY <1>8 DEF TypeInv, TypeOK
  <2>2. QED
    BY <1>0, <1>8, <2>1 DEF NoStrandedPacket
<1>9. ASSUME XferOut PROVE NoStrandedPacket'
  BY <1>0, <1>1, <1>8, <1>9 DEF XferOut, ReadPacket
<1>10. ASSUME H2dRead PROVE NoStrandedPacket'
  BY <1>8, <1>10 DEF H2dRead, ReadPacket, TypeInv, Control
<1>11. ASSUME XferInClear PROVE NoStrandedPacket'
  BY <1>0, <1>11 DEF XferInClear, NoStrandedPacket, TypeInv, Control
<1>12. ASSUME NEW p \in Out, H2dEnter(p) PROVE NoStrandedPacket'
  <2>1. /\ isr.pc = "none" /\ UNCHANGED <<rx, stranded>>
        /\ sf' = [sf EXCEPT ![p] = FALSE]
        /\ \/ isr' = [pc |-> "h2d", ep |-> p] /\ flag' = flag
           \/ isr' = isr /\ flag' = [flag EXCEPT ![p] = TRUE]
    BY <1>12 DEF H2dEnter
  <2>2. \A q \in Out : q # p => sf'[q] = sf[q] /\ flag'[q] = flag[q]
    BY <1>0, <2>1
  <2>3. flag'[p] \/ (isr'.pc = "h2d" /\ isr'.ep = p)
    BY <1>0, <2>1
  <2>4. QED
    BY <2>1, <2>2, <2>3 DEF NoStrandedPacket
<1>13. ASSUME NEW p \in In, D2hEnter(p) PROVE NoStrandedPacket'
  <2>1. /\ isr.pc = "none" /\ UNCHANGED <<rx, stranded, sf>>
        /\ flag' = flag \/ flag' = [flag EXCEPT ![p] = TRUE]
    BY <1>13 DEF D2hEnter
  <2>2. QED
    BY <1>0, <2>1 DEF NoStrandedPacket
<1>14. ASSUME D2hExit PROVE NoStrandedPacket'
  BY <1>0, <1>14 DEF D2hExit, NoStrandedPacket, TypeInv, Control
<1>15. ASSUME NEW p \in Out, HostOut(p) PROVE NoStrandedPacket'
  <2>1. /\ UNCHANGED <<flag, isr, stranded>> /\ sf' = [sf EXCEPT ![p] = TRUE]
        /\ \A q \in Out : q # p => rx'[q] = rx[q]
    BY <1>15 DEF HostOut, TypeInv, TypeOK
  <2>2. QED
    BY <1>0, <2>1 DEF NoStrandedPacket
<1>16. ASSUME NEW p \in In, HostIn(p) PROVE NoStrandedPacket'
  BY <1>0, <1>16 DEF HostIn, NoStrandedPacket
<1>17. QED
  BY <1>2, <1>3, <1>4, <1>6, <1>7, <1>9, <1>10, <1>11, <1>12, <1>13, <1>14, <1>15, <1>16
     DEF Next, ApiCall, ApiStep, Handler, Interrupt, Host

(* A packet in the FIFO of an OUT pipe always has somebody to read it, its   *)
(* status flag, data_size_out or the handler between the two, unless an      *)
(* enable or disable cleared both: however the handlers, the thread and the  *)
(* API calls interleave.                                                     *)
THEOREM PacketsAreNoticed == Spec => []NoStrandedPacket
<1>1. Init => NoStrandedPacket
  BY DEF Init, NoStrandedPacket
<1>2. QED
  BY TypeInit, TypeStep, <1>1, StrandStep, PTL DEF Spec

-----------------------------------------------------------------------------
(* The mask of an IN pipe.  MaskedMeansWaiting alone is not inductive: the   *)
(* thread holds p's message as soon as it has read it, and clears            *)
(* data_size_in before it opens the mask.  MaskInv says where exactly a mask *)
(* may be closed without data_size_in: between the two writes of             *)
(* _e967_usbd_xfer_in, or in ep_disable.                                     *)

MaskInv ==
  /\ \A p \in In : enabled[p] /\ ~inten[p] =>
       \/ flag[p]
       \/ hand.pc \in {"masked", "cleared"} /\ hand.msg = p
       \/ api.pc \in {"disable", "disabled"} /\ api.ep = p
  /\ api.pc = "enabled" /\ api.ep \in In => inten[api.ep] \/ flag[api.ep]
  /\ HandLocks => api.pc = "idle"

LEMMA MaskStep == TypeInv /\ MaskInv /\ [Next]_vars => MaskInv'
<1> SUFFICES ASSUME TypeInv, MaskInv, [Next]_vars PROVE MaskInv'
  OBVIOUS
<1> USE DEF thrVars, bufVars, renVars, statVars, irqVars, hwVars, histVars
<1>0. /\ Out \subseteq Pipes /\ In \subseteq Pipes /\ \A p \in In : p \notin Out
      /\ flag \in [Pipes -> BOOLEAN] /\ inten \in [Pipes -> BOOLEAN]
      /\ enabled \in [Pipes -> BOOLEAN]
      /\ hand \in [pc : {"get", "lock", "run", "masked", "cleared"},
                   msg : Pipes \cup {Ctl}]
      /\ api \in [pc : {"idle", "moved", "placed", "put",
                        "enable", "enabled", "disable", "disabled"},
                  ep : Pipes \cup {Ctl}, dst : Pipes \cup {Ctl}]
  BY PipesAssumption DEF Pipes, TypeInv, TypeOK
<1>1. ASSUME UNCHANGED <<enabled, inten, flag, hand, api>> PROVE MaskInv'
  BY <1>1 DEF MaskInv, HandLocks
<1>2. ASSUME NEW p \in Pipes, (\E b \in Buf : Enqueue(p, b)) \/ EnqueueTest(p) PROVE MaskInv'
  BY <1>0, <1>2 DEF Enqueue, EnqueueTest, ApiMayStart, MaskInv, HandLocks
<1>3. ASSUME NEW p \in Pipes, Dequeue(p) \/ SetHalt(p) \/ ClearHalt(p) PROVE MaskInv'
  BY <1>1, <1>3 DEF Dequeue, SetHalt, ClearHalt, EpSetHalt
<1>4. ASSUME \/ SetupMsgIsr \/ ResetIsr \/ H2dRead \/ D2hExit \/ UNCHANGED vars
             \/ DequeueCtl
             \/ \E p \in Out : HostOut(p)
             \/ \E p \in In : HostIn(p)
      PROVE  MaskInv'
  BY <1>1, <1>4 DEF SetupMsgIsr, ResetIsr, H2dRead, D2hExit, DequeueCtl, HostOut, HostIn, vars
<1>5. ASSUME NEW p \in Pipes, EnableBegin(p) PROVE MaskInv'
  BY <1>0, <1>5 DEF EnableBegin, ApiMayStart, MaskInv, HandLocks
<1>6. ASSUME NEW p \in Pipes, DisableBegin(p) PROVE MaskInv'
  BY <1>0, <1>6 DEF DisableBegin, ApiMayStart, MaskInv, HandLocks
<1>7. ASSUME EnqueueNotify PROVE MaskInv'
  BY <1>0, <1>7 DEF EnqueueNotify, NoApi, MaskInv, HandLocks
<1>8. ASSUME EnableIrq PROVE MaskInv'
  <2>1. api.ep \in Pipes
    BY <1>8 DEF EnableIrq, TypeInv, Control
  <2>2. QED
    BY <1>0, <1>8, <2>1 DEF EnableIrq, MaskInv, HandLocks
<1>9. ASSUME EnableEnd PROVE MaskInv'
  BY <1>0, <1>9 DEF EnableEnd, NoApi, MaskInv, HandLocks
<1>10. ASSUME DisableFlag PROVE MaskInv'
  <2>1. api.ep \in Pipes
    BY <1>10 DEF DisableFlag, TypeInv, Control
  <2>2. QED
    BY <1>0, <1>10, <2>1 DEF DisableFlag, MaskInv, HandLocks
<1>11. ASSUME DisableEnd PROVE MaskInv'
  <2>1. api.ep \in Pipes
    BY <1>11 DEF DisableEnd, TypeInv, Control
  <2>2. QED
    BY <1>0, <1>11, <2>1 DEF DisableEnd, NoApi, MaskInv, HandLocks
<1>12. ASSUME MsgGet \/ MsgLock \/ HandleCtl PROVE MaskInv'
  BY <1>0, <1>12 DEF MsgGet, MsgLock, HandleCtl, NoMsg, MaskInv, HandLocks
<1>13. ASSUME XferOut PROVE MaskInv'
  <2>1. /\ hand.pc = "run" /\ hand' = NoMsg /\ UNCHANGED <<enabled, inten, api>>
        /\ \A p \in In : flag'[p] = flag[p]
    BY <1>0, <1>13 DEF XferOut
  <2>2. QED
    BY <1>0, <2>1 DEF MaskInv, NoMsg, HandLocks
<1>14. ASSUME XferInMask PROVE MaskInv'
  BY <1>0, <1>14 DEF XferInMask, NoMsg, MaskInv, HandLocks
<1>15. ASSUME XferInClear PROVE MaskInv'
  BY <1>0, <1>15 DEF XferInClear, MaskInv, HandLocks
<1>16. ASSUME XferInUnmask PROVE MaskInv'
  BY <1>0, <1>16 DEF XferInUnmask, NoMsg, MaskInv, HandLocks, TypeInv, Control
<1>17. ASSUME NEW p \in Out, H2dEnter(p) PROVE MaskInv'
  <2>1. /\ UNCHANGED <<enabled, inten, hand, api>>
        /\ flag' = flag \/ flag' = [flag EXCEPT ![p] = TRUE]
    BY <1>17 DEF H2dEnter
  <2>2. QED
    BY <1>0, <2>1 DEF MaskInv, HandLocks
<1>18. ASSUME NEW p \in In, D2hEnter(p) PROVE MaskInv'
  <2>1. /\ UNCHANGED <<enabled, hand, api>>
        /\ \/ UNCHANGED <<flag, inten>>
           \/ /\ flag' = [flag EXCEPT ![p] = TRUE]
              /\ inten' = [inten EXCEPT ![p] = FALSE]
    BY <1>18 DEF D2hEnter
  <2>2. QED
    BY <1>0, <2>1 DEF MaskInv, HandLocks
<1>19. ASSUME EnqueueCtl PROVE MaskInv'
  BY <1>0, <1>19 DEF EnqueueCtl, ApiMayStart, MaskInv, HandLocks
<1>20. ASSUME EnqueueName \/ \E b \in Buf : EnqueueMove(b) PROVE MaskInv'
  <2>1. /\ api.pc \in {"moved", "placed"} /\ UNCHANGED <<enabled, inten, flag, hand>>
        /\ api'.pc \in {"placed", "put"}
    BY <1>0, <1>20 DEF EnqueueName, EnqueueMove
  <2>2. QED
    BY <1>0, <2>1 DEF MaskInv, HandLocks
<1>21. QED
  BY <1>2, <1>3, <1>4, <1>5, <1>6, <1>7, <1>8, <1>9, <1>10, <1>11, <1>12, <1>13, <1>14,
     <1>15, <1>16, <1>17, <1>18, <1>19, <1>20 DEF Next, ApiCall, ApiStep, Handler, Interrupt, Host

(* The interrupt mask of an IN pipe and its data_size_in, which the IN       *)
(* interrupt, the driver thread and ep_enable / ep_disable write without a   *)
(* common lock, never drift apart.                                           *)
THEOREM MasksAreReopened == Spec => []MaskedMeansWaiting
<1>1. Init => MaskInv
  BY DEF Init, MaskInv, NoApi, NoMsg, HandLocks, Pipes
<1>2. MaskInv => MaskedMeansWaiting
  BY DEF MaskInv, MaskedMeansWaiting
<1>3. QED
  BY TypeInit, TypeStep, <1>1, <1>2, MaskStep, PTL DEF Spec

-----------------------------------------------------------------------------
(* The FIFO of an IN pipe.  It is loaded while its status flag is set and    *)
(* the flag is cleared after the load: between the two the handler itself is *)
(* in the way, and afterwards only an IN token that finds the FIFO empty     *)
(* raises the flag again.                                                    *)

FifoInv ==
  \A p \in In : /\ Len(tx[p]) <= 1
                /\ tx[p] # <<>> => ~sf[p] \/ (isr.pc = "d2h" /\ isr.ep = p)

LEMMA FifoStep == TypeInv /\ FifoInv /\ [Next]_vars => FifoInv'
<1> SUFFICES ASSUME TypeInv, FifoInv, [Next]_vars PROVE FifoInv'
  OBVIOUS
<1> USE DEF thrVars, bufVars, renVars, statVars, irqVars, hwVars, histVars
<1>0. /\ Out \subseteq Pipes /\ In \subseteq Pipes
      /\ \A p \in In : p \notin Out /\ tx[p] \in Seq(0 .. MPS)
      /\ sf \in [Pipes -> BOOLEAN] /\ tx \in [In -> Seq(0 .. MPS)]
  BY PipesAssumption DEF Pipes, TypeInv, TypeOK
<1>1. ASSUME UNCHANGED <<tx, isr>>, \A p \in In : sf'[p] => sf[p] PROVE FifoInv'
  BY <1>1 DEF FifoInv
<1>2. ASSUME NEW p \in Pipes, (\E b \in Buf : Enqueue(p, b)) \/ EnqueueTest(p) PROVE FifoInv'
  BY <1>1, <1>2 DEF Enqueue, EnqueueTest
<1>3. ASSUME NEW p \in Pipes,
             \/ Dequeue(p) \/ SetHalt(p) \/ ClearHalt(p) \/ EnableBegin(p)
             \/ DisableBegin(p)
      PROVE  FifoInv'
  BY <1>1, <1>3 DEF Dequeue, SetHalt, ClearHalt, EpSetHalt, EnableBegin, DisableBegin
<1>4. ASSUME \/ EnqueueNotify \/ EnableEnd \/ DisableFlag
             \/ MsgGet \/ MsgLock \/ HandleCtl \/ XferOut \/ XferInMask \/ XferInClear
             \/ XferInUnmask \/ SetupMsgIsr \/ ResetIsr \/ UNCHANGED vars
             \/ EnqueueCtl \/ DequeueCtl \/ EnqueueName \/ \E b \in Buf : EnqueueMove(b)
      PROVE  FifoInv'
  BY <1>1, <1>4
     DEF EnqueueNotify, EnableEnd, DisableFlag, MsgGet, MsgLock, HandleCtl, XferOut,
         XferInMask, XferInClear, XferInUnmask, SetupMsgIsr, ResetIsr, EnqueueCtl,
         DequeueCtl, EnqueueName, EnqueueMove, vars
<1>5. ASSUME EnableIrq \/ DisableEnd PROVE FifoInv'
  BY <1>0, <1>1, <1>5 DEF EnableIrq, DisableEnd
<1>6. ASSUME NEW p \in Out, H2dEnter(p) PROVE FifoInv'
  <2>1. /\ isr.pc = "none" /\ UNCHANGED tx
        /\ \A q \in In : sf'[q] = sf[q]
    BY <1>0, <1>6 DEF H2dEnter
  <2>2. QED
    BY <2>1 DEF FifoInv
<1>7. ASSUME H2dRead PROVE FifoInv'
  BY <1>7 DEF H2dRead, FifoInv
<1>8. ASSUME NEW p \in In, D2hEnter(p) PROVE FifoInv'
  <2>1. /\ isr.pc = "none" /\ sf[p] /\ isr' = [pc |-> "d2h", ep |-> p] /\ UNCHANGED sf
        /\ \/ UNCHANGED tx
           \/ \E n \in 0 .. MPS : tx' = [tx EXCEPT ![p] = Append(@, n)]
    <3>1. queue[p] # <<>> => Lesser(Head(queue[p]).left, MPS) \in 0 .. MPS
      <4>1. queue[p] # <<>> => Head(queue[p]) \in Entry
        BY <1>0 DEF TypeInv, TypeOK
      <4>2. QED
        BY <4>1, SizesAssumption DEF Entry, Lesser
    <3>2. QED
      BY <1>8, <3>1 DEF D2hEnter, Served
  <2>2. tx[p] = <<>>
    BY <2>1 DEF FifoInv
  <2>3. \A q \in In : q # p => tx'[q] = tx[q]
    BY <1>0, <2>1
  <2>4. Len(tx'[p]) <= 1
    <3>1. ASSUME NEW n \in 0 .. MPS, tx' = [tx EXCEPT ![p] = Append(@, n)]
          PROVE  Len(tx'[p]) <= 1
      <4>1. tx'[p] = Append(tx[p], n) /\ Len(tx[p]) = 0
        BY <1>0, <2>2, <3>1
      <4>2. QED
        BY <1>0, <4>1, AppendProperties
    <3>2. QED
      BY <2>1, <2>2, <3>1
  <2>5. QED
    BY <2>1, <2>3, <2>4 DEF FifoInv
<1>9. ASSUME D2hExit PROVE FifoInv'
  BY <1>0, <1>9 DEF D2hExit, FifoInv, TypeInv, Control
<1>10. ASSUME NEW p \in Out, HostOut(p) PROVE FifoInv'
  BY <1>0, <1>1, <1>10 DEF HostOut
<1>11. ASSUME NEW p \in In, HostIn(p) PROVE FifoInv'
  <2>1. CASE tx[p] # <<>>
    <3>1. /\ UNCHANGED <<sf, isr>> /\ \A q \in In : q # p => tx'[q] = tx[q]
          /\ tx'[p] = Tail(tx[p])
      BY <1>0, <1>11, <2>1 DEF HostIn
    <3>2. Len(tx[p]) = 1
      <4>1. Len(tx[p]) \in Nat /\ Len(tx[p]) <= 1
        BY <1>0 DEF FifoInv
      <4>2. Len(tx[p]) # 0
        BY <1>0, <2>1
      <4>3. \A n \in Nat : n <= 1 /\ n # 0 => n = 1
        OBVIOUS
      <4>4. QED
        BY <4>1, <4>2, <4>3, Zenon
    <3>3. tx'[p] = <<>>
      BY <1>0, <3>1, <3>2
    <3>4. QED
      BY <3>1, <3>3 DEF FifoInv
  <2>2. CASE tx[p] = <<>>
    BY <1>0, <1>11, <2>2 DEF HostIn, FifoInv
  <2>3. QED
    BY <2>1, <2>2
<1>12. QED
  BY <1>2, <1>3, <1>4, <1>5, <1>6, <1>7, <1>8, <1>9, <1>10, <1>11
     DEF Next, ApiCall, ApiStep, Handler, Interrupt, Host

(* The IN interrupt never loads a FIFO that the host has not emptied, for    *)
(* any packet size and any timing of the host's IN tokens.                   *)
THEOREM FifosAreNotOverrun == Spec => []FifoNotOverrun
<1>1. Init => FifoInv
  BY DEF Init, FifoInv
<1>2. FifoInv => FifoNotOverrun
  BY DEF FifoInv, FifoNotOverrun
<1>3. QED
  BY TypeInit, TypeStep, <1>1, <1>2, FifoStep, PTL DEF Spec

-----------------------------------------------------------------------------
(* Buffers.  Those on the queues of the data endpoints are kept by every     *)
(* step: a queue only changes by a new buffer at its end, by the loss or an  *)
(* update of its first one, or by losing all of them.  Those on the queue of *)
(* endpoint 0 come and go as one set; that a reset is needed for one to get  *)
(* there is CutInv.                                                          *)

InData == owned \ astray

Kept ==
  /\ InData = UNION {Held(p) : p \in Pipes}
  /\ \A p, q \in Pipes :
       \A i \in 1 .. Len(queue[p]), j \in 1 .. Len(queue[q]) :
         queue[p][i].buf = queue[q][j].buf => p = q /\ i = j

CutInv ==
  /\ api.pc = "moved" => outNum # 0 \/ cut
  /\ astray # {} => cut

LEMMA ConservedAs ==
  BufferConserved <=> Kept /\ astray \subseteq owned /\ (astray # {} => cut)
<1> DEFINE U == UNION {Held(p) : p \in Pipes}
<1>1. (\A p \in Pipes : astray \cap Held(p) = {}) <=> astray \cap U = {}
  OBVIOUS
<1> HIDE DEF U
<1>2. (owned = astray \cup U /\ astray \cap U = {}) <=> (InData = U /\ astray \subseteq owned)
  BY DEF InData
<1>3. QED
  BY <1>1, <1>2 DEF BufferConserved, Kept, U

Place(b) == \E p \in Pipes : \E i \in 1 .. Len(queue[p]) : b = queue[p][i].buf

LEMMA OwnedAreHeld == InData = UNION {Held(p) : p \in Pipes} <=> \A b : b \in InData <=> Place(b)
<1>1. \A b : b \in UNION {Held(p) : p \in Pipes} <=> Place(b)
  BY DEF Place, Held
<1>2. QED
  BY <1>1

LEMMA BufferPlaces == Kept => \A b : b \in InData <=> Place(b)
BY OwnedAreHeld DEF Kept

LEMMA ConservedNext ==
  ASSUME \A b : b \in InData' <=> Place(b)',
         \A p, q \in Pipes :
           \A i \in 1 .. Len(queue'[p]), j \in 1 .. Len(queue'[q]) :
             queue'[p][i].buf = queue'[q][j].buf => p = q /\ i = j
  PROVE  Kept'
<1>1. \A b : b \in UNION {Held(p)' : p \in Pipes} <=> Place(b)'
  BY DEF Place, Held
<1>2. InData' = UNION {Held(p)' : p \in Pipes}
  BY <1>1
<1>3. QED
  BY <1>2 DEF Kept

LEMMA AppendConserves ==
  ASSUME TypeInv, Kept, NEW t \in Pipes, NEW f \in Entry, f.buf \notin InData,
         queue' = [queue EXCEPT ![t] = Append(@, f)], InData' = InData \cup {f.buf}
  PROVE  Kept'
<1> DEFINE L == Len(queue[t])
<1>1. queue \in [Pipes -> Seq(Entry)] /\ queue[t] \in Seq(Entry) /\ L \in Nat
  BY DEF TypeInv, TypeOK
<1>2. /\ Len(queue'[t]) = L + 1
      /\ \A i \in 1 .. L : queue'[t][i] = queue[t][i]
      /\ queue'[t][L + 1] = f
      /\ \A q \in Pipes : q # t => queue'[q] = queue[q]
  BY <1>1
<1>3. \A b : b \in InData <=> Place(b)
  BY BufferPlaces
<1>4. \A q \in Pipes : \A i \in 1 .. Len(queue[q]) : queue[q][i].buf # f.buf
  BY <1>3 DEF Place
<1>5. ASSUME NEW b PROVE b \in InData' <=> Place(b)'
  <2>1. Place(b) => Place(b)'
    BY <1>1, <1>2 DEF Place
  <2>2. b = f.buf => Place(b)'
    BY <1>1, <1>2 DEF Place
  <2>3. ASSUME Place(b)', b # f.buf PROVE Place(b)
    <3>1. PICK p \in Pipes : \E i \in 1 .. Len(queue'[p]) : b = queue'[p][i].buf
      BY <2>3 DEF Place
    <3>2. PICK i \in 1 .. Len(queue'[p]) : b = queue'[p][i].buf
      BY <3>1
    <3>3. i \in 1 .. Len(queue[p]) /\ b = queue[p][i].buf
      BY <1>1, <1>2, <2>3, <3>2
    <3>4. QED
      BY <3>3 DEF Place
  <2>4. QED
    BY <1>3, <2>1, <2>2, <2>3
<1>6. ASSUME NEW p \in Pipes, NEW q \in Pipes,
             NEW i \in 1 .. Len(queue'[p]), NEW j \in 1 .. Len(queue'[q]),
             queue'[p][i].buf = queue'[q][j].buf
      PROVE  p = q /\ i = j
  <2>1. \A q1 \in Pipes : \A k \in 1 .. Len(queue'[q1]) :
          \/ k \in 1 .. Len(queue[q1]) /\ queue'[q1][k] = queue[q1][k]
          \/ q1 = t /\ k = L + 1 /\ queue'[q1][k] = f
    <3>1. ASSUME NEW q1 \in Pipes, NEW k \in 1 .. Len(queue'[q1]), q1 = t, k # L + 1
          PROVE  k \in 1 .. Len(queue[q1])
      BY <1>1, <1>2, <3>1
    <3>2. QED
      BY <1>1, <1>2, <3>1
  <2>2. QED
    BY <1>4, <1>6, <2>1 DEF Kept
<1>7. QED
  BY <1>5, <1>6, ConservedNext

LEMMA CompleteConserves ==
  ASSUME TypeInv, Kept, NEW t \in Pipes, queue[t] # <<>>,
         queue' = [queue EXCEPT ![t] = Tail(@)],
         InData' = InData \ {Head(queue[t]).buf}
  PROVE  Kept'
<1> DEFINE L == Len(queue[t])
           Shift(q) == IF q = t THEN 1 ELSE 0
<1>1. /\ queue \in [Pipes -> Seq(Entry)] /\ queue[t] \in Seq(Entry)
      /\ \A q \in Pipes : Len(queue[q]) \in Nat
      /\ L \in Nat /\ L # 0
  BY DEF TypeInv, TypeOK
<1>2. /\ Head(queue[t]) = queue[t][1]
      /\ Len(queue'[t]) = L - 1
      /\ \A i \in 1 .. L - 1 : queue'[t][i] = queue[t][i + 1]
      /\ \A q \in Pipes : q # t => queue'[q] = queue[q]
  BY <1>1
<1>3. \A b : b \in InData <=> Place(b)
  BY BufferPlaces
<1>4. \A q \in Pipes : \A i \in 1 .. Len(queue'[q]) :
         /\ i + Shift(q) \in 1 .. Len(queue[q])
         /\ queue'[q][i] = queue[q][i + Shift(q)]
         /\ q = t => i + Shift(q) # 1
  BY <1>1, <1>2
<1>5. ASSUME NEW b PROVE b \in InData' <=> Place(b)'
  <2>1. ASSUME Place(b), b # queue[t][1].buf PROVE Place(b)'
    <3>1. PICK p \in Pipes : \E i \in 1 .. Len(queue[p]) : b = queue[p][i].buf
      BY <2>1 DEF Place
    <3>2. PICK i \in 1 .. Len(queue[p]) : b = queue[p][i].buf
      BY <3>1
    <3>3. i - Shift(p) \in 1 .. Len(queue'[p]) /\ b = queue'[p][i - Shift(p)].buf
      BY <1>1, <1>2, <2>1, <3>2
    <3>4. QED
      BY <3>3 DEF Place
  <2>2. ASSUME Place(b)' PROVE Place(b) /\ b # queue[t][1].buf
    <3>1. PICK p \in Pipes : \E i \in 1 .. Len(queue'[p]) : b = queue'[p][i].buf
      BY <2>2 DEF Place
    <3>2. PICK i \in 1 .. Len(queue'[p]) : b = queue'[p][i].buf
      BY <3>1
    <3> DEFINE k == i + Shift(p)
    <3>3. k \in 1 .. Len(queue[p]) /\ b = queue[p][k].buf /\ (p = t => k # 1)
      BY <1>4, <3>2
    <3> HIDE DEF k
    <3>4. b # queue[t][1].buf
      BY <1>1, <3>3 DEF Kept
    <3>5. QED
      BY <3>3, <3>4 DEF Place
  <2>3. QED
    BY <1>2, <1>3, <2>1, <2>2
<1>6. ASSUME NEW p \in Pipes, NEW q \in Pipes,
             NEW i \in 1 .. Len(queue'[p]), NEW j \in 1 .. Len(queue'[q]),
             queue'[p][i].buf = queue'[q][j].buf
      PROVE  p = q /\ i = j
  <2>1. p = q /\ i + Shift(p) = j + Shift(q)
    <3> DEFINE k == i + Shift(p)
               l == j + Shift(q)
    <3>1. /\ k \in 1 .. Len(queue[p]) /\ l \in 1 .. Len(queue[q])
          /\ queue[p][k].buf = queue[q][l].buf
      BY <1>4, <1>6
    <3> HIDE DEF k, l
    <3>2. p = q /\ k = l
      BY <3>1 DEF Kept
    <3>3. QED
      BY <3>2 DEF k, l
  <2>2. QED
    BY <2>1
<1>7. QED
  BY <1>5, <1>6, ConservedNext

LEMMA UpdateConserves ==
  ASSUME TypeInv, Kept, NEW t \in Pipes, queue[t] # <<>>, NEW f \in Entry,
         f.buf = Head(queue[t]).buf, UpdateHead(t, f), InData' = InData
  PROVE  Kept'
<1>1. queue \in [Pipes -> Seq(Entry)] /\ queue[t] \in Seq(Entry)
  BY DEF TypeInv, TypeOK
<1>2. /\ queue'[t] = <<f>> \o Tail(queue[t])
      /\ \A q \in Pipes : q # t => queue'[q] = queue[q]
      /\ InData' = InData
  BY <1>1 DEF UpdateHead
<1>3. /\ Len(queue'[t]) = Len(queue[t])
      /\ \A i \in 1 .. Len(queue[t]) : queue'[t][i].buf = queue[t][i].buf
  BY <1>1, <1>2
<1>4. \A q \in Pipes : /\ Len(queue'[q]) = Len(queue[q])
                       /\ \A i \in 1 .. Len(queue[q]) : queue'[q][i].buf = queue[q][i].buf
  BY <1>2, <1>3
<1>5. \A b : Place(b)' <=> Place(b)
  BY <1>4 DEF Place
<1>6. QED
  BY <1>2, <1>4, <1>5, BufferPlaces, ConservedNext DEF Kept

LEMMA ClearConserves ==
  ASSUME TypeInv, Kept, NEW t \in Pipes,
         queue' = [queue EXCEPT ![t] = <<>>], InData' = InData \ Held(t)
  PROVE  Kept'
<1>1. queue'[t] = <<>> /\ \A q \in Pipes : q # t => queue'[q] = queue[q]
  BY DEF TypeInv, TypeOK
<1>2. \A q \in Pipes : \A i \in 1 .. Len(queue'[q]) :
         q # t /\ i \in 1 .. Len(queue[q]) /\ queue'[q][i] = queue[q][i]
  BY <1>1
<1>3. ASSUME NEW b PROVE b \in InData' <=> Place(b)'
  <2>1. Place(b) /\ b \notin Held(t) => Place(b)'
    BY <1>1 DEF Place, Held
  <2>2. Place(b)' => Place(b) /\ b \notin Held(t)
    BY <1>2 DEF Place, Held, Kept
  <2>3. QED
    BY <2>1, <2>2, BufferPlaces
<1>4. QED
  BY <1>2, <1>3, ConservedNext DEF Kept

(* What the IN interrupt does to its queue. *)
LEMMA D2hEnterCases ==
  ASSUME TypeInv, NEW p \in In, D2hEnter(p)
  PROVE  /\ UNCHANGED <<got, rx, sent, astray>>
         /\ \/ UNCHANGED <<queue, owned>>
            \/ queue[p] # <<>> /\ Complete(p, <<>>)
            \/ /\ queue[p] # <<>>
               /\ \E f \in Entry : f.buf = Head(queue[p]).buf /\ UpdateHead(p, f)
<1>0. p \in Pipes /\ p \notin Out
  BY PipesAssumption DEF Pipes
<1>1. UNCHANGED <<rx, sent, astray>>
  BY DEF D2hEnter, bufVars, statVars, renVars
<1>2. CASE flag[p] \/ queue[p] = <<>>
  BY <1>1, <1>2 DEF D2hEnter, bufVars
<1>3. CASE ~flag[p] /\ queue[p] # <<>>
  <2> DEFINE e == Head(queue[p])
             m == Lesser(e.left, MPS)
             f == [e EXCEPT !.left = @ - m]
  <2>1. e \in Entry
    BY <1>0, <1>3 DEF TypeInv, TypeOK
  <2>2. m \in Nat /\ e.left - m \in Nat
    BY <2>1, SizesAssumption DEF Entry, Lesser
  <2>3. f \in Entry /\ f.buf = e.buf
    BY <2>1, <2>2 DEF Entry
  <2>4. IF e.left = m THEN Complete(p, <<>>) ELSE UpdateHead(p, f)
    BY <1>3 DEF D2hEnter
  <2> HIDE DEF e, m, f
  <2>5. got' = got
    BY <1>0, <2>4 DEF Complete, UpdateHead
  <2>6. QED
    BY <1>1, <1>3, <2>3, <2>4, <2>5 DEF e
<1>4. QED
  BY <1>2, <1>3 DEF TypeInv, TypeOK

LEMMA ConserveStep ==
  ASSUME TypeInv, Kept, astray \subseteq owned, [Next]_vars
  PROVE  Kept' /\ (astray \subseteq owned)'
<1>0. Out \subseteq Pipes /\ In \subseteq Pipes
  BY DEF Pipes
<1> DEFINE Good == Kept' /\ (astray \subseteq owned)'
<1>1. ASSUME NEW p \in Pipes, NEW b \in Buf, Puts(p, b) PROVE Good
  <2>1. PICK n \in Nat :
          queue' = [queue EXCEPT ![p] =
                      Append(@, [buf |-> b, left |-> n, data |-> <<>>])]
    BY <1>1, SizesAssumption DEF Puts, PutBuf
  <2> DEFINE f == [buf |-> b, left |-> n, data |-> <<>>]
  <2>2. f \in Entry /\ f.buf = b
    BY DEF Entry
  <2>3. /\ b \notin owned /\ owned' = owned \cup {b} /\ astray' = astray
    BY <1>1 DEF Puts
  <2>4. b \notin InData /\ InData' = InData \cup {b}
    BY <2>3 DEF InData
  <2>5. Kept'
    BY <2>1, <2>2, <2>4, AppendConserves
  <2>6. QED
    BY <2>3, <2>5
<1>2. ASSUME NEW p \in Pipes, Dequeue(p) PROVE Good
  <2>1. /\ queue' = [queue EXCEPT ![p] = <<>>] /\ owned' = owned \ Held(p)
        /\ astray' = astray
    BY <1>2 DEF Dequeue, statVars, renVars
  <2>2. InData' = InData \ Held(p)
    BY <2>1 DEF InData
  <2>3. Held(p) \cap astray = {}
    BY DEF Kept, InData
  <2>4. Kept'
    BY <2>1, <2>2, ClearConserves
  <2>5. QED
    BY <2>1, <2>3, <2>4
<1>3. ASSUME NEW p \in Pipes, queue[p] # <<>>, UNCHANGED astray,
             \/ \E c \in Seq(Nat) : Complete(p, c)
             \/ \E f \in Entry : f.buf = Head(queue[p]).buf /\ UpdateHead(p, f)
      PROVE  Good
  <2>1. ASSUME NEW c \in Seq(Nat), Complete(p, c) PROVE Good
    <3> DEFINE h == Head(queue[p]).buf
    <3>1. queue' = [queue EXCEPT ![p] = Tail(@)] /\ owned' = owned \ {h}
      BY <2>1 DEF Complete
    <3>2. h \in InData
      <4>1. queue[p] \in Seq(Entry)
        BY DEF TypeInv, TypeOK
      <4>2. 1 \in 1 .. Len(queue[p]) /\ h = queue[p][1].buf
        BY <1>3, <4>1
      <4> HIDE DEF h
      <4>3. h \in Held(p)
        BY <4>2 DEF Held
      <4>4. QED
        BY <4>3 DEF Kept
    <3>3. InData' = InData \ {h}
      BY <1>3, <3>1 DEF InData
    <3>4. Kept'
      BY <1>3, <3>1, <3>3, CompleteConserves
    <3> HIDE DEF h
    <3>5. QED
      BY <1>3, <3>1, <3>2, <3>4 DEF InData
  <2>2. ASSUME NEW f \in Entry, f.buf = Head(queue[p]).buf, UpdateHead(p, f) PROVE Good
    <3>1. InData' = InData /\ owned' = owned
      BY <1>3, <2>2 DEF UpdateHead, InData
    <3>2. Kept'
      BY <1>3, <2>2, <3>1, UpdateConserves
    <3>3. QED
      BY <1>3, <3>1, <3>2
  <2>3. QED
    BY <1>3, <2>1, <2>2
<1>4. ASSUME NEW p \in Out, queue[p] # <<>>, ReadPacket(p), UNCHANGED astray PROVE Good
  <2> HIDE DEF Good
  <2>1. QED
    BY <1>0, <1>3, <1>4, ReadPacketCases
<1>5. ASSUME UNCHANGED <<queue, owned, astray>> PROVE Good
  BY <1>5 DEF Kept, InData, Held
<1>6. ASSUME NEW p \in In, D2hEnter(p) PROVE Good
  <2> HIDE DEF Good
  <2>1. <<>> \in Seq(Nat)
    OBVIOUS
  <2>2. QED
    BY <1>0, <1>3, <1>5, <1>6, <2>1, D2hEnterCases
<1>7. ASSUME NEW p \in Out, HostOut(p) PROVE Good
  BY <1>5, <1>7 DEF HostOut, bufVars, statVars, renVars
<1>8. ASSUME UNCHANGED queue, Strays PROVE Good
  <2>1. InData' = InData /\ (astray \subseteq owned)'
    BY <1>8 DEF Strays, InData
  <2>2. Kept'
    BY <1>8, <2>1 DEF Kept, Held
  <2>3. QED
    BY <2>1, <2>2
<1> HIDE DEF Good
<1>9. Good
  BY <1>1, <1>2, <1>4, <1>5, <1>6, <1>7, <1>8, DataSteps
<1>10. QED
  BY <1>9 DEF Good

LEMMA CutStep == TypeInv /\ CutInv /\ [Next]_vars => CutInv'
<1> SUFFICES ASSUME TypeInv, CutInv, [Next]_vars PROVE CutInv'
  OBVIOUS
<1> USE DEF thrVars, bufVars, renVars, statVars, irqVars, hwVars, histVars
<1>1. ASSUME api' = api \/ api'.pc # "moved", UNCHANGED <<outNum, astray, cut>> PROVE CutInv'
  BY <1>1 DEF CutInv
<1>2. ASSUME NEW p \in Pipes, NEW b \in Buf, Enqueue(p, b) PROVE CutInv'
  BY <1>1, <1>2 DEF Enqueue
<1>3. ASSUME NEW p \in Pipes, EnqueueTest(p) PROVE CutInv'
  BY <1>3 DEF EnqueueTest, Renamed, CutInv
<1>4. ASSUME NEW b \in Buf, EnqueueMove(b) PROVE CutInv'
  <2>1. /\ api.pc = "moved" /\ api'.pc = "placed" /\ UNCHANGED <<outNum, cut>>
        /\ NewDst # Ctl => UNCHANGED astray
    BY <1>4 DEF EnqueueMove, TypeInv, TypeOK
  <2>2. NewDst = Ctl => outNum = 0
    BY PipesAssumption DEF NewDst, TypeInv, Control, Pipes
  <2>3. QED
    BY <2>1, <2>2 DEF CutInv
<1>5. ASSUME EnqueueName PROVE CutInv'
  BY <1>1, <1>5 DEF EnqueueName, TypeInv, TypeOK
<1>6. ASSUME EnqueueNotify PROVE CutInv'
  BY <1>1, <1>6 DEF EnqueueNotify, NoApi
<1>7. ASSUME EnqueueCtl PROVE CutInv'
  BY <1>7 DEF EnqueueCtl, CutInv
<1>8. ASSUME DequeueCtl PROVE CutInv'
  BY <1>8 DEF DequeueCtl, CutInv
<1>9. ASSUME ResetIsr PROVE CutInv'
  BY <1>9 DEF ResetIsr, CutInv
<1>10. ASSUME NEW p \in Pipes, Dequeue(p) \/ SetHalt(p) \/ ClearHalt(p) PROVE CutInv'
  BY <1>1, <1>10 DEF Dequeue, SetHalt, ClearHalt, EpSetHalt
<1>11. ASSUME NEW p \in Pipes, EnableBegin(p) \/ DisableBegin(p) PROVE CutInv'
  BY <1>1, <1>11 DEF EnableBegin, DisableBegin
<1>12. ASSUME EnableIrq \/ EnableEnd \/ DisableFlag \/ DisableEnd PROVE CutInv'
  BY <1>1, <1>12 DEF EnableIrq, EnableEnd, DisableFlag, DisableEnd, NoApi, TypeInv, TypeOK
<1>13. ASSUME \/ MsgGet \/ MsgLock \/ HandleCtl \/ XferOut \/ XferInMask \/ XferInClear
              \/ XferInUnmask
       PROVE  CutInv'
  BY <1>1, <1>13 DEF MsgGet, MsgLock, HandleCtl, XferOut, XferInMask, XferInClear,
                     XferInUnmask
<1>14. ASSUME \/ \E p \in Out : H2dEnter(p) \/ HostOut(p)
              \/ \E p \in In : D2hEnter(p) \/ HostIn(p)
              \/ H2dRead \/ D2hExit \/ SetupMsgIsr \/ UNCHANGED vars
       PROVE  CutInv'
  BY <1>1, <1>14 DEF H2dEnter, HostOut, D2hEnter, HostIn, H2dRead, D2hExit, SetupMsgIsr,
                     vars
<1>15. QED
  BY <1>2, <1>3, <1>4, <1>5, <1>6, <1>7, <1>8, <1>9, <1>10, <1>11, <1>12, <1>13, <1>14
     DEF Next, ApiCall, ApiStep, Handler, Interrupt, Host

(* Every buffer the driver accepted and has not completed is in exactly one  *)
(* place of one queue: across ep_enqueue, the move to endpoint 3, completion *)
(* by the thread or by an interrupt, and ep_dequeue, for any pipes and any   *)
(* buffers.  It is the queue of a data endpoint, or, after a bus reset       *)
(* between the test of ep_out_num and the first read of ep_out_num_new and   *)
(* only then, possibly the queue of endpoint 0.                              *)
THEOREM BuffersAreConserved == Spec => []BufferConserved
<1>1. Init => Kept /\ astray \subseteq owned /\ CutInv
  BY DEF Init, Kept, InData, Held, CutInv, NoApi
<1>2. TypeInv /\ (Kept /\ astray \subseteq owned) /\ [Next]_vars
        => (Kept /\ astray \subseteq owned)'
  BY ConserveStep
<1>3. Kept /\ astray \subseteq owned /\ CutInv => BufferConserved
  BY ConservedAs DEF CutInv
<1>4. QED
  BY TypeInit, TypeStep, <1>1, <1>2, CutStep, <1>3, PTL DEF Spec

-----------------------------------------------------------------------------
(* Packets.  Only the first buffer of an OUT queue holds packets: the others *)
(* are as the class queued them.  With that, each step either leaves what is *)
(* inside the device, or adds the packet the host just sent at its end, or   *)
(* hands its oldest part to the class.                                       *)

Fresh ==
  \A p \in Out : \A i \in 1 .. Len(queue[p]) : i # 1 => queue[p][i].data = <<>>

Inside(p) == Partial(p) \o InFifo(p)

LEMMA InsideType ==
  ASSUME TypeInv, NEW p \in Out
  PROVE  /\ Partial(p) \in Seq(Nat) /\ InFifo(p) \in Seq(Nat) /\ Inside(p) \in Seq(Nat)
         /\ got[p] \in Seq(Nat) /\ sent[p] \in Nat
<1>1. p \in Pipes /\ queue[p] \in Seq(Entry) /\ rx[p] \in Seq(Packet)
  BY DEF TypeInv, TypeOK, Pipes
<1>2. queue[p] # <<>> => Head(queue[p]) \in Entry
  BY <1>1
<1>3. Partial(p) \in Seq(Nat)
  BY <1>2 DEF Partial, Entry
<1>4. rx[p] # <<>> => Head(rx[p]) \in Packet
  BY <1>1
<1>5. InFifo(p) \in Seq(Nat)
  BY <1>4 DEF InFifo, Packet
<1>6. Inside(p) \in Seq(Nat)
  BY <1>3, <1>5 DEF Inside
<1>7. got[p] \in Seq(Nat) /\ sent[p] \in Nat
  BY SizesAssumption DEF TypeInv, TypeOK
<1>8. QED
  BY <1>3, <1>5, <1>6, <1>7

LEMMA ContentIsInside ==
  ASSUME TypeInv, NEW p \in Out, queue[p] # <<>>
  PROVE  Content(p) = Inside(p)
<1>1. Partial(p) \in Seq(Nat) /\ Partial(p) = Head(queue[p]).data
  BY InsideType DEF Partial
<1>2. CASE rx[p] = <<>>
  BY <1>1, <1>2, ConcatEmptySeq DEF Content, Inside, InFifo
<1>3. CASE rx[p] # <<>>
  <2>1. Head(rx[p]) \in Packet /\ Head(rx[p]).n \in Nat
    <3>1. Head(rx[p]) \in Packet
      BY <1>3 DEF TypeInv, TypeOK
    <3>2. QED
      BY <3>1 DEF Packet
  <2>2. QED
    BY <1>1, <1>3, <2>1, AppendIsConcat DEF Content, Inside, InFifo
<1>4. QED
  BY <1>2, <1>3

LEMMA FreshStep == TypeInv /\ Fresh /\ [Next]_vars => Fresh'
<1> SUFFICES ASSUME TypeInv, Fresh, [Next]_vars PROVE Fresh'
  OBVIOUS
<1>0. /\ Out \subseteq Pipes /\ \A p \in In : p \notin Out
      /\ queue \in [Pipes -> Seq(Entry)]
  BY PipesAssumption DEF Pipes, TypeInv, TypeOK
<1>1. ASSUME NEW t \in Pipes, NEW b \in Buf, Puts(t, b) PROVE Fresh'
  <2>1. PICK f \in Entry : f.data = <<>> /\ queue' = [queue EXCEPT ![t] = Append(@, f)]
    <3>1. PICK n \in Nat :
            queue' = [queue EXCEPT ![t] =
                        Append(@, [buf |-> b, left |-> n, data |-> <<>>])]
      BY <1>1, SizesAssumption DEF Puts, PutBuf
    <3>2. [buf |-> b, left |-> n, data |-> <<>>] \in Entry
      BY DEF Entry
    <3>3. QED
      BY <3>1, <3>2
  <2>3. \A i \in 1 .. Len(queue'[t]) :
          i # Len(queue[t]) + 1 => i \in 1 .. Len(queue[t]) /\ queue'[t][i] = queue[t][i]
    BY <1>0, <2>1
  <2>4. queue'[t][Len(queue[t]) + 1] = f
    BY <1>0, <2>1
  <2>5. \A q \in Pipes : q # t => queue'[q] = queue[q]
    BY <1>0, <2>1
  <2>6. QED
    BY <1>0, <2>1, <2>3, <2>4, <2>5 DEF Fresh
<1>2. ASSUME NEW p \in Pipes, Dequeue(p) PROVE Fresh'
  BY <1>0, <1>2 DEF Dequeue, Fresh
<1>3. ASSUME NEW p \in Out, queue[p] # <<>>, ReadPacket(p) PROVE Fresh'
  <2>0. queue[p] \in Seq(Entry) /\ p \in Pipes
    BY <1>0
  <2>1. CASE Complete(p, Content(p))
    <3>1. \A i \in 1 .. Len(Tail(queue[p])) : Tail(queue[p])[i].data = <<>>
      BY <1>3, <2>0 DEF Fresh
    <3>2. QED
      BY <1>0, <2>1, <3>1 DEF Complete, Fresh
  <2>2. ASSUME NEW f \in Entry, UpdateHead(p, f) PROVE Fresh'
    <3>1. \A i \in 1 .. Len(<<f>> \o Tail(queue[p])) :
            i # 1 => (<<f>> \o Tail(queue[p]))[i].data = <<>>
      BY <1>3, <2>0 DEF Fresh
    <3>2. QED
      BY <1>0, <2>2, <3>1 DEF UpdateHead, Fresh
  <2>3. QED
    BY <1>3, <2>1, <2>2, ReadPacketCases
<1>4. ASSUME NEW p \in In, D2hEnter(p) PROVE Fresh'
  <2>1. \A q \in Out : queue'[q] = queue[q]
    BY <1>0, <1>4 DEF D2hEnter, Complete, UpdateHead, bufVars
  <2>2. QED
    BY <2>1 DEF Fresh
<1>5. ASSUME UNCHANGED queue PROVE Fresh'
  BY <1>5 DEF Fresh
<1>6. ASSUME NEW p \in Out, HostOut(p) PROVE Fresh'
  BY <1>5, <1>6 DEF HostOut, bufVars
<1>7. QED
  BY <1>1, <1>2, <1>3, <1>4, <1>5, <1>6, DataSteps

(* The effect of a step on the packets, by whether it leaves them, accepts   *)
(* one or delivers some.                                                     *)
Stays(p)    == Inside(p)' = Inside(p) /\ got'[p] = got[p] /\ sent'[p] = sent[p]
Accepts(p)  == /\ sent' = [sent EXCEPT ![p] = @ + 1] /\ UNCHANGED got
               /\ Inside(p)' = Append(Inside(p), sent[p] + 1)
Delivers(p) == /\ UNCHANGED sent
               /\ \E m, r \in Seq(Nat) : /\ Inside(p) = m \o r /\ Inside(p)' = r
                                         /\ got' = [got EXCEPT ![p] = @ \o m]

LEMMA ReadPacketEffect ==
  ASSUME TypeInv, Fresh, NEW p \in Out, queue[p] # <<>>, ReadPacket(p), UNCHANGED sent
  PROVE  (Stays(p) /\ UNCHANGED got) \/ Delivers(p)
<1>1. p \in Pipes /\ queue \in [Pipes -> Seq(Entry)] /\ queue[p] \in Seq(Entry)
      /\ rx \in [Out -> Seq(Packet)]
  BY DEF TypeInv, TypeOK, Pipes
<1>2. InFifo(p)' = <<>>
  BY <1>1, ReadPacketCases DEF InFifo
<1>3. Content(p) = Inside(p) /\ Content(p) \in Seq(Nat)
  BY ContentIsInside, InsideType
<1>4. CASE Complete(p, Content(p))
  <2>1. queue'[p] = Tail(queue[p]) /\ got' = [got EXCEPT ![p] = @ \o Content(p)]
    BY <1>1, <1>4 DEF Complete
  <2>2. Partial(p)' = <<>>
    <3>1. CASE Tail(queue[p]) = <<>>
      BY <2>1, <3>1 DEF Partial
    <3>2. CASE Tail(queue[p]) # <<>>
      <4>1. 2 \in 1 .. Len(queue[p]) /\ Head(Tail(queue[p])) = queue[p][2]
        BY <1>1, <3>2
      <4>2. QED
        BY <2>1, <3>2, <4>1 DEF Fresh, Partial
    <3>3. QED
      BY <3>1, <3>2
  <2>3. Inside(p)' = <<>>
    BY <1>2, <2>2 DEF Inside
  <2>4. Inside(p) = Content(p) \o <<>> /\ <<>> \in Seq(Nat)
    BY <1>3, ConcatEmptySeq
  <2>5. QED
    BY <1>3, <2>1, <2>3, <2>4 DEF Delivers
<1>5. ASSUME NEW f \in Entry, f.data = Content(p), UpdateHead(p, f)
      PROVE  Stays(p) /\ UNCHANGED got
  <2>1. queue'[p] = <<f>> \o Tail(queue[p]) /\ UNCHANGED got
    BY <1>1, <1>5 DEF UpdateHead
  <2>2. queue'[p] # <<>> /\ Head(queue'[p]) = f
    BY <1>1, <2>1
  <2>3. Inside(p)' = Content(p) \o <<>>
    BY <1>2, <1>5, <2>2 DEF Inside, Partial
  <2>4. QED
    BY <1>3, <2>1, <2>3, ConcatEmptySeq DEF Stays
<1>6. QED
  BY <1>4, <1>5, ReadPacketCases

LEMMA DequeueEffect ==
  ASSUME TypeInv, NEW p \in Out, queue[p] # <<>>, Dequeue(p)
  PROVE  Delivers(p)
<1>1. p \in Pipes /\ queue \in [Pipes -> Seq(Entry)]
  BY DEF TypeInv, TypeOK, Pipes
<1>2. /\ queue'[p] = <<>> /\ UNCHANGED <<rx, sent>>
      /\ got' = [got EXCEPT ![p] = @ \o Partial(p)]
  BY <1>1 DEF Dequeue, Partial, hwVars
<1>3. Partial(p)' = <<>> /\ InFifo(p)' = InFifo(p)
  BY <1>2 DEF Partial, InFifo
<1>4. Inside(p)' = InFifo(p)
  BY <1>3, InsideType, ConcatEmptySeq DEF Inside
<1>5. QED
  BY <1>2, <1>4, InsideType DEF Delivers, Inside

LEMMA HostOutEffect ==
  ASSUME TypeInv, NEW p \in Out, HostOut(p)
  PROVE  Accepts(p)
<1>1. /\ rx[p] = <<>> /\ UNCHANGED <<queue, got>> /\ sent' = [sent EXCEPT ![p] = @ + 1]
      /\ \E l \in 0 .. MPS : rx'[p] = <<[n |-> sent[p] + 1, len |-> l]>>
  BY DEF HostOut, bufVars, TypeInv, TypeOK
<1>2. InFifo(p) = <<>> /\ InFifo(p)' = <<sent[p] + 1>> /\ Partial(p)' = Partial(p)
  BY <1>1 DEF InFifo, Partial
<1>3. Inside(p)' = Partial(p) \o <<sent[p] + 1>> /\ Inside(p) = Partial(p)
  BY <1>2, InsideType, ConcatEmptySeq DEF Inside
<1>4. sent[p] + 1 \in Nat
  BY InsideType
<1>5. QED
  BY <1>1, <1>3, <1>4, InsideType, AppendIsConcat DEF Accepts

(* Appending a buffer leaves the first one. *)
LEMMA EnqueueEffect ==
  ASSUME TypeInv, NEW p \in Pipes, NEW b \in Buf, Puts(p, b), NEW q \in Out
  PROVE  Stays(q)
<1>1. q \in Pipes /\ queue \in [Pipes -> Seq(Entry)] /\ queue[q] \in Seq(Entry)
  BY DEF TypeInv, TypeOK, Pipes
<1>2. UNCHANGED <<rx, got, sent>>
  BY DEF Puts
<1>3. PICK n \in Nat :
        queue' = [queue EXCEPT ![p] =
                    Append(@, [buf |-> b, left |-> n, data |-> <<>>])]
  BY SizesAssumption DEF Puts, PutBuf
<1> DEFINE f == [buf |-> b, left |-> n, data |-> <<>>]
<1>4. f \in Entry /\ f.data = <<>>
  BY DEF Entry
<1>5. queue'[q] = queue[q] \/ queue'[q] = Append(queue[q], f)
  BY <1>1, <1>3
<1> HIDE DEF f
<1>6. Partial(q)' = Partial(q)
  <2>1. CASE queue'[q] = queue[q]
    BY <2>1 DEF Partial
  <2>2. CASE queue'[q] = Append(queue[q], f)
    <3>1. queue'[q] # <<>> /\ Head(queue'[q]) = IF queue[q] = <<>> THEN f ELSE Head(queue[q])
      BY <1>1, <1>4, <2>2, AppendProperties, HeadTailAppend
    <3>2. QED
      BY <1>4, <3>1 DEF Partial
  <2>3. QED
    BY <1>5, <2>1, <2>2
<1>7. QED
  BY <1>2, <1>6 DEF Stays, Inside, InFifo

LEMMA PacketEffect ==
  ASSUME TypeInv, Fresh, [Next]_vars
  PROVE  \/ \A q \in Out : Stays(q)
         \/ \E p \in Out : /\ Accepts(p) \/ Delivers(p)
                           /\ \A q \in Out : q # p => Inside(q)' = Inside(q)
<1>0. /\ Out \subseteq Pipes /\ In \subseteq Pipes /\ \A p \in In : p \notin Out
      /\ queue \in [Pipes -> Seq(Entry)] /\ rx \in [Out -> Seq(Packet)]
  BY PipesAssumption DEF Pipes, TypeInv, TypeOK
<1>1. ASSUME NEW p \in Out, \A q \in Out : q # p => queue'[q] = queue[q] /\ rx'[q] = rx[q],
             Accepts(p) \/ Delivers(p) \/ (Stays(p) /\ UNCHANGED <<got, sent>>)
      PROVE  \/ \A q \in Out : Stays(q)
             \/ \E r \in Out : /\ Accepts(r) \/ Delivers(r)
                               /\ \A q \in Out : q # r => Inside(q)' = Inside(q)
  <2>1. \A q \in Out : q # p => Inside(q)' = Inside(q)
    BY <1>1 DEF Inside, Partial, InFifo
  <2>2. QED
    BY <1>1, <2>1 DEF Stays
<1>2. ASSUME NEW p \in Pipes, NEW b \in Buf, Puts(p, b) PROVE \A q \in Out : Stays(q)
  BY <1>2, EnqueueEffect
<1>3. ASSUME NEW p \in Pipes, p \notin Out, Dequeue(p) PROVE \A q \in Out : Stays(q)
  BY <1>0, <1>3 DEF Dequeue, Stays, Inside, Partial, InFifo, hwVars
<1>4. ASSUME NEW p \in In, D2hEnter(p) PROVE \A q \in Out : Stays(q)
  <2>1. \A q \in Out : queue'[q] = queue[q]
    BY <1>0, <1>4 DEF D2hEnter, Complete, UpdateHead, bufVars
  <2>2. QED
    BY <1>4, <2>1, D2hEnterCases DEF Stays, Inside, Partial, InFifo
<1>5. ASSUME UNCHANGED <<queue, rx, got, sent>> PROVE \A q \in Out : Stays(q)
  BY <1>5 DEF Stays, Inside, Partial, InFifo
<1>6. ASSUME NEW p \in Out, Dequeue(p)
      PROVE  Delivers(p) /\ \A q \in Out : q # p => queue'[q] = queue[q] /\ rx'[q] = rx[q]
  BY <1>0, <1>6, DequeueEffect DEF Dequeue, hwVars
<1>7. ASSUME NEW p \in Out, HostOut(p)
      PROVE  Accepts(p) /\ \A q \in Out : q # p => queue'[q] = queue[q] /\ rx'[q] = rx[q]
  BY <1>0, <1>7, HostOutEffect DEF HostOut, bufVars
<1>8. ASSUME NEW p \in Out, queue[p] # <<>>, ReadPacket(p), UNCHANGED sent
      PROVE  /\ Delivers(p) \/ (Stays(p) /\ UNCHANGED <<got, sent>>)
             /\ \A q \in Out : q # p => queue'[q] = queue[q] /\ rx'[q] = rx[q]
  <2>1. \A q \in Out : q # p => queue'[q] = queue[q] /\ rx'[q] = rx[q]
    BY <1>0, <1>8, ReadPacketQueue, ReadPacketCases
  <2>2. QED
    BY <1>8, <2>1, ReadPacketEffect
<1>9. QED
  BY <1>0, <1>1, <1>2, <1>3, <1>4, <1>5, <1>6, <1>7, <1>8, DataSteps

LEMMA Regroup ==
  \A s, t, u \in Seq(Nat) : (s \o t) \o u = s \o (t \o u)
BY ConcatAssociative

Numbers(n) == [i \in 1 .. n |-> i]
Ordered    == \A p \in Out : got[p] \o Inside(p) = Numbers(sent[p])

LEMMA NextNumber ==
  ASSUME NEW n \in Nat
  PROVE  /\ Numbers(n) \in Seq(Nat)
         /\ Append(Numbers(n), n + 1) = Numbers(n + 1)
<1>1. \A k \in Nat : Numbers(k) \in Seq(Nat) /\ Len(Numbers(k)) = k
  BY DEF Numbers
<1>2. \A i \in 1 .. n + 1 : Append(Numbers(n), n + 1)[i] = Numbers(n + 1)[i]
  <2>1. /\ \A i \in 1 .. n : Append(Numbers(n), n + 1)[i] = i
        /\ Append(Numbers(n), n + 1)[n + 1] = n + 1
    <3>1. \A i \in 1 .. n : Numbers(n)[i] = i
      BY DEF Numbers
    <3> HIDE DEF Numbers
    <3>2. QED
      BY <1>1, <3>1, AppendProperties
  <2>2. QED
    BY <2>1 DEF Numbers
<1> HIDE DEF Numbers
<1>3. /\ Append(Numbers(n), n + 1) \in Seq(Nat)
      /\ Len(Append(Numbers(n), n + 1)) = n + 1
  BY <1>1, AppendProperties
<1>4. QED
  BY <1>1, <1>2, <1>3, SeqEqual

LEMMA OrderStep == TypeInv /\ Fresh /\ Ordered /\ [Next]_vars => Ordered'
<1> SUFFICES ASSUME TypeInv, Fresh, Ordered, [Next]_vars PROVE Ordered'
  OBVIOUS
<1>0. got \in [Out -> Seq(Nat)] /\ sent \in [Out -> 0 .. MaxPkt]
  BY DEF TypeInv, TypeOK
<1>1. ASSUME \A q \in Out : Stays(q) PROVE Ordered'
  BY <1>1 DEF Stays, Ordered
<1>2. ASSUME NEW p \in Out, Accepts(p) \/ Delivers(p),
             \A q \in Out : q # p => Inside(q)' = Inside(q)
      PROVE  Ordered'
  <2>1. \A q \in Out : q # p => got'[q] = got[q] /\ sent'[q] = sent[q]
    BY <1>0, <1>2 DEF Accepts, Delivers
  <2>2. CASE Accepts(p)
    <3>1. /\ sent[p] \in Nat /\ sent'[p] = sent[p] + 1 /\ got'[p] = got[p]
          /\ Inside(p)' = Append(Inside(p), sent[p] + 1)
      BY <1>0, <2>2, InsideType DEF Accepts
    <3>2. got[p] \o Append(Inside(p), sent[p] + 1) = Append(got[p] \o Inside(p), sent[p] + 1)
      <4>1. /\ <<sent[p] + 1>> \in Seq(Nat) /\ sent[p] + 1 \in Nat
            /\ got[p] \in Seq(Nat) /\ Inside(p) \in Seq(Nat)
            /\ got[p] \o Inside(p) \in Seq(Nat)
        BY <3>1, InsideType, ConcatProperties
      <4>2. Append(Inside(p), sent[p] + 1) = Inside(p) \o <<sent[p] + 1>>
        BY <4>1, AppendIsConcat
      <4>3. Append(got[p] \o Inside(p), sent[p] + 1)
              = (got[p] \o Inside(p)) \o <<sent[p] + 1>>
        BY <4>1, AppendIsConcat
      <4>4. (got[p] \o Inside(p)) \o <<sent[p] + 1>>
              = got[p] \o (Inside(p) \o <<sent[p] + 1>>)
        BY <4>1, Regroup, Zenon
      <4>5. QED
        BY <4>2, <4>3, <4>4
    <3>3. got'[p] \o Inside(p)' = Numbers(sent'[p])
      BY <3>1, <3>2, NextNumber DEF Ordered
    <3>4. QED
      BY <1>2, <2>1, <3>3 DEF Ordered
  <2>3. CASE Delivers(p)
    <3>1. PICK m \in Seq(Nat), r \in Seq(Nat) :
            /\ Inside(p) = m \o r /\ Inside(p)' = r
            /\ got' = [got EXCEPT ![p] = @ \o m]
      BY <2>3 DEF Delivers
    <3>2. got'[p] = got[p] \o m /\ got[p] \in Seq(Nat) /\ sent' = sent
      BY <1>0, <2>3, <3>1 DEF Delivers
    <3>3. (got[p] \o m) \o r = got[p] \o (m \o r)
      BY <3>1, <3>2, Regroup, Zenon
    <3>4. got'[p] \o Inside(p)' = Numbers(sent'[p])
      BY <3>1, <3>2, <3>3 DEF Ordered
    <3>5. QED
      BY <1>2, <2>1, <3>4 DEF Ordered
  <2>4. QED
    BY <1>2, <2>2, <2>3
<1>3. QED
  BY <1>1, <1>2, PacketEffect

LEMMA PacketInit == Init => Fresh /\ Ordered
<1> SUFFICES ASSUME Init PROVE Fresh /\ Ordered
  OBVIOUS
<1>1. /\ Fresh
      /\ \A p \in Out : Partial(p) = <<>> /\ InFifo(p) = <<>> /\ got[p] = <<>> /\ sent[p] = 0
  BY DEF Init, Fresh, Partial, InFifo, Pipes
<1>2. Numbers(0) = <<>>
  <2>1. Numbers(0) \in Seq(Nat) /\ Len(Numbers(0)) = 0
    BY DEF Numbers
  <2>2. QED
    BY <2>1, EmptySeq
<1>3. <<>> \o <<>> = <<>>
  BY ConcatEmptySeq
<1>4. QED
  BY <1>1, <1>2, <1>3 DEF Ordered, Inside

(* No OUT packet the controller acknowledged is lost, duplicated or          *)
(* reordered: what the class got, what the first buffer holds and what is in *)
(* the FIFO are together what the host sent, for any pipes, packets, buffers *)
(* and sizes, across completion, dequeue and the move to endpoint 3.         *)
THEOREM PacketsKeepOrder == Spec => []OutInOrder
<1>1. TypeInv /\ Ordered => OutInOrder
  <2> SUFFICES ASSUME TypeInv, Ordered, NEW p \in Out
               PROVE  got[p] \o Partial(p) \o InFifo(p) = [i \in 1 .. sent[p] |-> i]
    BY DEF OutInOrder
  <2>1. (got[p] \o Partial(p)) \o InFifo(p) = got[p] \o Inside(p)
    BY InsideType, Regroup, Zenon DEF Inside
  <2>2. QED
    BY <2>1 DEF Ordered, Numbers
<1>2. QED
  BY TypeInit, TypeStep, PacketInit, FreshStep, OrderStep, <1>1, PTL DEF Spec

-----------------------------------------------------------------------------
(* The refinement.  A step that accepts is PacketPipe's Accept, one that     *)
(* delivers some packet its Deliver, and all others leave its variables.     *)

LEMMA PipeInit == Init => Pipe!Init
<1> SUFFICES ASSUME Init PROVE Pipe!Init
  OBVIOUS
<1>1. \A p \in Out : Partial(p) = <<>> /\ InFifo(p) = <<>>
  BY DEF Init, Partial, InFifo, Pipes
<1>2. <<>> \o <<>> = <<>>
  BY ConcatEmptySeq
<1>3. [p \in Out |-> Partial(p) \o InFifo(p)] = [p \in Out |-> <<>>]
  BY <1>1, <1>2
<1>4. QED
  BY <1>3 DEF Init, Pipe!Init

LEMMA SplitAt ==
  ASSUME NEW m \in Seq(Nat), NEW r \in Seq(Nat), m # <<>>
  PROVE  /\ Len(m) \in 1 .. Len(m \o r)
         /\ SubSeq(m \o r, 1, Len(m)) = m
         /\ SubSeq(m \o r, Len(m) + 1, Len(m \o r)) = r
<1>1. /\ Len(m) \in Nat /\ Len(r) \in Nat /\ Len(m) # 0
      /\ m \o r \in Seq(Nat) /\ Len(m \o r) = Len(m) + Len(r)
      /\ \A i \in 1 .. Len(m) + Len(r) :
           (m \o r)[i] = IF i <= Len(m) THEN m[i] ELSE r[i - Len(m)]
  BY EmptySeq, ConcatProperties
<1>2. /\ SubSeq(m \o r, 1, Len(m)) \in Seq(Nat)
      /\ Len(SubSeq(m \o r, 1, Len(m))) = Len(m)
      /\ \A i \in 1 .. Len(m) : SubSeq(m \o r, 1, Len(m))[i] = m[i]
  BY <1>1
<1>3. /\ SubSeq(m \o r, Len(m) + 1, Len(m \o r)) \in Seq(Nat)
      /\ Len(SubSeq(m \o r, Len(m) + 1, Len(m \o r))) = Len(r)
      /\ \A i \in 1 .. Len(r) : SubSeq(m \o r, Len(m) + 1, Len(m \o r))[i] = r[i]
  BY <1>1
<1>4. QED
  BY <1>1, <1>2, <1>3, SeqEqual

LEMMA PipeStep ==
  ASSUME TypeInv, TypeInv', Fresh, [Next]_vars
  PROVE  [Pipe!Next]_(Pipe!vars)
<1> DEFINE I == [p \in Out |-> Partial(p) \o InFifo(p)]
<1>0. /\ got \in [Out -> Seq(Nat)] /\ sent \in [Out -> 0 .. MaxPkt]
      /\ got' \in [Out -> Seq(Nat)] /\ sent' \in [Out -> 0 .. MaxPkt]
  BY DEF TypeInv, TypeOK
<1>1. /\ I = [p \in Out |-> Inside(p)] /\ I' = [p \in Out |-> Inside(p)']
  BY DEF Inside
<1>2. ASSUME \A q \in Out : Stays(q) PROVE UNCHANGED Pipe!vars
  <2>1. got' = got /\ sent' = sent
    BY <1>0, <1>2 DEF Stays
  <2>2. \A q \in Out : Inside(q)' = Inside(q)
    BY <1>2 DEF Stays
  <2>3. [q \in Out |-> Inside(q)'] = [q \in Out |-> Inside(q)]
    BY <2>2
  <2>4. I' = I
    BY <1>1, <2>3
  <2>5. QED
    BY <2>1, <2>4 DEF Pipe!vars
<1>3. ASSUME NEW p \in Out, Accepts(p), \A q \in Out : q # p => Inside(q)' = Inside(q)
      PROVE  Pipe!Next
  <2>1. I' = [I EXCEPT ![p] = Append(@, sent[p] + 1)]
    BY <1>1, <1>3 DEF Accepts
  <2>2. Pipe!Accept(p)
    BY <1>3, <2>1 DEF Accepts, Pipe!Accept
  <2>3. QED
    BY <2>2 DEF Pipe!Next
<1>4. ASSUME NEW p \in Out, Delivers(p), \A q \in Out : q # p => Inside(q)' = Inside(q)
      PROVE  Pipe!Next \/ UNCHANGED Pipe!vars
  <2>1. PICK m \in Seq(Nat), r \in Seq(Nat) :
          /\ Inside(p) = m \o r /\ Inside(p)' = r
          /\ got' = [got EXCEPT ![p] = @ \o m]
    BY <1>4 DEF Delivers
  <2>2. I[p] = m \o r /\ I' = [I EXCEPT ![p] = r] /\ sent' = sent
    BY <1>1, <1>4, <2>1 DEF Delivers
  <2>3. CASE m = <<>>
    <3>1. I' = I
      BY <1>1, <2>2, <2>3, ConcatEmptySeq
    <3>2. got' = got
      BY <1>0, <2>1, <2>3, ConcatEmptySeq
    <3>3. QED
      BY <2>2, <3>1, <3>2 DEF Pipe!vars
  <2>4. CASE m # <<>>
    <3>1. /\ Len(m) \in 1 .. Len(I[p])
          /\ got' = [got EXCEPT ![p] = @ \o SubSeq(I[p], 1, Len(m))]
          /\ I' = [I EXCEPT ![p] = SubSeq(@, Len(m) + 1, Len(@))]
      BY <1>1, <2>1, <2>2, <2>4, SplitAt
    <3>2. Pipe!Deliver(p)
      BY <2>2, <3>1 DEF Pipe!Deliver
    <3>3. QED
      BY <3>2 DEF Pipe!Next
  <2>5. QED
    BY <2>3, <2>4
<1>5. QED
  BY <1>2, <1>3, <1>4, PacketEffect

(* The OUT half of the driver implements the pipe that PacketPipe promises   *)
(* to the class: every step accepts the next packet, hands the oldest ones   *)
(* to the class, or shows it nothing.                                        *)
THEOREM DriverIsAPipe == Spec => ImplementsPipe
<1>1. Spec => []TypeInv /\ []Fresh /\ [][Next]_vars
  BY TypeInit, TypeStep, PacketInit, FreshStep, PTL DEF Spec
<1>2. TypeInv /\ TypeInv' /\ Fresh /\ [Next]_vars => [Pipe!Next]_(Pipe!vars)
  BY PipeStep
<1>3. Spec => Pipe!Init
  BY PipeInit DEF Spec
<1>4. QED
  BY <1>1, <1>2, <1>3, PTL DEF ImplementsPipe, Pipe!Spec
=============================================================================
