-------------------------- MODULE UdcDataEp_proofs --------------------------
(***************************************************************************)
(* Proofs about UdcDataEp, for every set of pipes and buffers and every    *)
(* size.  Control is what the program counters imply; with TypeOK it is    *)
(* inductive, and the invariants below are proved on top of it.            *)
(***************************************************************************)
EXTENDS UdcDataEp, TLAPS

Control ==
  /\ outNum # 0 => \E q \in Out : Idx[q] = NewOutNum
  /\ isr.pc = "h2d" => isr.ep \in Out /\ queue[isr.ep] # <<>>
  /\ isr.pc = "d2h" => isr.ep \in In
  /\ api.pc \notin {"idle", "put"} => api.ep \in Pipes
  /\ hand.pc = "get" => hand.msg = Ctl
  /\ hand.pc \in {"masked", "cleared"} => hand.msg \in In

TypeInv == TypeOK /\ Control

LEMMA ReadPacketType ==
  ASSUME TypeInv, NEW p \in Out, queue[p] # <<>>, ReadPacket(p)
  PROVE  /\ queue' \in [Pipes -> Seq(Entry)]
         /\ owned' \subseteq Buf
         /\ rx' \in [Out -> Seq(Packet)]
         /\ got' \in [Out -> Seq(Nat)]
<1> DEFINE e == Head(queue[p])
           n == IF rx[p] = <<>> THEN 0 ELSE Lesser(Head(rx[p]).len, e.left)
           content == IF rx[p] = <<>> THEN e.data ELSE Append(e.data, Head(rx[p]).n)
<1>1. p \in Pipes /\ queue[p] \in Seq(Entry)
  BY DEF TypeInv, TypeOK, Pipes
<1>2. e \in Entry /\ Tail(queue[p]) \in Seq(Entry)
  BY <1>1
<1>3. rx[p] # <<>> => Head(rx[p]) \in Packet
  BY DEF TypeInv, TypeOK
<1>4. content \in Seq(Nat)
  BY <1>2, <1>3 DEF Entry, Packet
<1>5. n \in Nat /\ e.left - n \in Nat
  BY <1>2, <1>3, SizesAssumption DEF Entry, Packet, Lesser
<1>6. rx' \in [Out -> Seq(Packet)]
  BY DEF ReadPacket, TypeInv, TypeOK
<1>7. CASE e.left - n < MPS
  <2>1. Complete(p, content)
    BY <1>7 DEF ReadPacket
  <2> HIDE DEF e, n, content
  <2>2. queue' \in [Pipes -> Seq(Entry)] /\ owned' \subseteq Buf
    BY <2>1, <1>1, <1>2 DEF Complete, TypeInv, TypeOK
  <2>3. got[p] \o content \in Seq(Nat)
    BY <1>4 DEF TypeInv, TypeOK
  <2>4. got' \in [Out -> Seq(Nat)]
    BY <2>1, <2>3 DEF Complete, TypeInv, TypeOK
  <2>5. QED
    BY <2>2, <2>4, <1>6
<1>8. CASE ~(e.left - n < MPS)
  <2> DEFINE f == [e EXCEPT !.left = @ - n, !.data = content]
  <2>1. UpdateHead(p, f)
    BY <1>8 DEF ReadPacket
  <2>2. f \in Entry
    BY <1>2, <1>4, <1>5 DEF Entry
  <2>3. <<f>> \o Tail(queue[p]) \in Seq(Entry)
    BY <2>2, <1>2
  <2>4. QED
    BY <2>1, <2>3, <1>1, <1>6 DEF UpdateHead, TypeInv, TypeOK
<1>9. QED
  BY <1>7, <1>8

(* A moved buffer goes to a data endpoint, OUT as it was, or to endpoint 0.  *)
LEMMA NewDstType ==
  ASSUME TypeInv
  PROVE  NewDst = Ctl \/ NewDst \in Out
BY DEF NewDst, TypeInv, Control

(* Putting a buffer keeps the queues well typed. *)
LEMMA PutType ==
  ASSUME TypeInv, NEW p \in Pipes, NEW b \in Buf, PutBuf(p, b)
  PROVE  queue' \in [Pipes -> Seq(Entry)]
<1>1. PICK n \in Nat :
        queue' = [queue EXCEPT ![p] = Append(@, [buf |-> b, left |-> n, data |-> <<>>])]
  BY SizesAssumption DEF PutBuf
<1> DEFINE e == [buf |-> b, left |-> n, data |-> <<>>]
<1>2. e \in Entry
  BY DEF Entry
<1>3. Append(queue[p], e) \in Seq(Entry)
  BY <1>2 DEF TypeInv, TypeOK
<1>4. QED
  BY <1>1, <1>3 DEF TypeInv, TypeOK

LEMMA SendMsgType ==
  ASSUME TypeInv, NEW p \in Pipes \cup {Ctl}, SendMsg(p)
  PROVE  /\ msgq' \in Seq(Pipes \cup {Ctl}) /\ Len(msgq') <= MsgQSize
         /\ missed' \in [Pipes -> {"no", "purged", "halted", "reset"}]
<1>1. CASE Len(msgq) < MsgQSize
  <2>1. /\ msgq' = Append(msgq, p)
        /\ missed' = [q \in Pipes |-> IF q = p THEN "no" ELSE missed[q]]
    BY <1>1 DEF SendMsg, Mark
  <2>2. Len(msgq') = Len(msgq) + 1 /\ msgq' \in Seq(Pipes \cup {Ctl})
    BY <2>1 DEF TypeInv, TypeOK
  <2>3. QED
    BY <2>1, <2>2, <1>1, SizesAssumption DEF TypeInv, TypeOK
<1>2. CASE ~(Len(msgq) < MsgQSize)
  BY <1>2, SizesAssumption DEF SendMsg, TypeInv, TypeOK
<1>3. QED
  BY <1>1, <1>2

LEMMA TypeInit == Init => TypeInv
<1> SUFFICES ASSUME Init PROVE TypeInv
  OBVIOUS
<1>a. 0 \in 0 .. MaxPkt /\ 0 <= MsgQSize
  BY SizesAssumption
<1>b. /\ msgq \in Seq(Pipes \cup {Ctl}) /\ Len(msgq) <= MsgQSize
      /\ queue \in [Pipes -> Seq(Entry)]
      /\ rx \in [Out -> Seq(Packet)] /\ tx \in [In -> Seq(0 .. MPS)]
      /\ got \in [Out -> Seq(Nat)]
  BY <1>a DEF Init
<1>1. TypeOK
  BY <1>a, <1>b DEF Init, TypeOK, NoApi, NoMsg, NoIsr
<1>2. Control
  BY DEF Init, Control, NoApi, NoMsg, NoIsr
<1>3. QED
  BY <1>1, <1>2 DEF TypeInv

LEMMA TypeStep == TypeInv /\ [Next]_vars => TypeInv'
<1> SUFFICES ASSUME TypeInv, [Next]_vars PROVE TypeInv'
  OBVIOUS
<1> USE DEF thrVars, bufVars, renVars, statVars, irqVars, hwVars, histVars
<1>1. ASSUME NEW p \in Pipes, NEW b \in Buf, Enqueue(p, b) PROVE TypeInv'
  <2>1. queue' \in [Pipes -> Seq(Entry)]
    BY <1>1, PutType DEF Enqueue
  <2>2. TypeOK'
    BY <1>1, <2>1 DEF Enqueue, TypeInv, TypeOK
  <2>3. Control'
    BY <1>1 DEF Enqueue, TypeInv, Control, ApiMayStart, ThreadRuns
  <2>4. QED
    BY <2>2, <2>3 DEF TypeInv
<1>2. ASSUME EnqueueNotify PROVE TypeInv'
  <2>1. api.dst \in Pipes \cup {Ctl}
    BY DEF TypeInv, TypeOK
  <2>2. /\ msgq' \in Seq(Pipes \cup {Ctl}) /\ Len(msgq') <= MsgQSize
        /\ missed' \in [Pipes -> {"no", "purged", "halted", "reset"}]
    BY <1>2, <2>1, SendMsgType DEF EnqueueNotify, Mark, TypeInv, TypeOK
  <2>3. TypeOK'
    BY <1>2, <2>2 DEF EnqueueNotify, NoApi, TypeInv, TypeOK
  <2>4. QED
    BY <1>2, <2>3 DEF EnqueueNotify, NoApi, TypeInv, Control
<1>30. ASSUME NEW p \in Pipes, EnqueueTest(p) PROVE TypeInv'
  <2>1. TypeOK'
    BY <1>30 DEF EnqueueTest, TypeInv, TypeOK
  <2>2. Control'
    BY <1>30 DEF EnqueueTest, TypeInv, Control, ApiMayStart, ThreadRuns
  <2>3. QED
    BY <2>1, <2>2 DEF TypeInv
<1>31. ASSUME NEW b \in Buf, EnqueueMove(b) PROVE TypeInv'
  <2>1. NewDst \in Pipes \cup {Ctl} /\ (NewDst # Ctl => NewDst \in Pipes)
    BY NewDstType DEF Pipes
  <2>2. queue' \in [Pipes -> Seq(Entry)] /\ astray' \subseteq Buf
    BY <1>31, <2>1, PutType DEF EnqueueMove, TypeInv, TypeOK
  <2>3. /\ api' = [api EXCEPT !.pc = "placed", !.dst = NewDst]
        /\ api.pc = "moved" /\ isr.pc = "none"
        /\ owned' = owned \cup {b}
        /\ UNCHANGED <<msgq, hand, isr, enabled, halted, outNum, cut, irqVars, hwVars, histVars>>
    BY <1>31 DEF EnqueueMove, ThreadRuns
  <2>4. TypeOK'
    BY <2>1, <2>2, <2>3 DEF TypeInv, TypeOK
  <2>5. Control'
    BY <2>3 DEF TypeInv, TypeOK, Control
  <2>6. QED
    BY <2>4, <2>5 DEF TypeInv
<1>32. ASSUME EnqueueName PROVE TypeInv'
  <2>1. NewDst \in Pipes \cup {Ctl}
    BY NewDstType DEF Pipes
  <2>2. TypeOK'
    BY <1>32, <2>1 DEF EnqueueName, TypeInv, TypeOK
  <2>3. Control'
    BY <1>32 DEF EnqueueName, TypeInv, TypeOK, Control
  <2>4. QED
    BY <2>2, <2>3 DEF TypeInv
<1>33. ASSUME EnqueueCtl PROVE TypeInv'
  <2>1. outNum' \in {0} \cup Indexes
    BY <1>33, PipesAssumption DEF EnqueueCtl, Pipes, TypeInv, TypeOK
  <2>2. TypeOK'
    BY <1>33, <2>1 DEF EnqueueCtl, TypeInv, TypeOK
  <2>3. Control'
    BY <1>33 DEF EnqueueCtl, TypeInv, Control, ApiMayStart, ThreadRuns
  <2>4. QED
    BY <2>2, <2>3 DEF TypeInv
<1>34. ASSUME DequeueCtl PROVE TypeInv'
  <2>1. TypeOK'
    BY <1>34 DEF DequeueCtl, TypeInv, TypeOK
  <2>2. Control'
    BY <1>34 DEF DequeueCtl, TypeInv, Control, ApiMayStart, ThreadRuns
  <2>3. QED
    BY <2>1, <2>2 DEF TypeInv
<1>3. ASSUME NEW p \in Pipes, Dequeue(p) PROVE TypeInv'
  <2>1. queue[p] \in Seq(Entry) /\ Head(queue[p]) \in Entry
    BY <1>3 DEF Dequeue, TypeInv, TypeOK
  <2>2. p \in Out => got[p] \o Head(queue[p]).data \in Seq(Nat)
    BY <2>1 DEF TypeInv, TypeOK, Entry
  <2>3. got' \in [Out -> Seq(Nat)]
    BY <1>3, <2>2 DEF Dequeue, TypeInv, TypeOK
  <2>4. queue' \in [Pipes -> Seq(Entry)]
    BY <1>3 DEF Dequeue, TypeInv, TypeOK
  <2>5. TypeOK'
    BY <1>3, <2>3, <2>4 DEF Dequeue, TypeInv, TypeOK
  <2>6. Control'
    BY <1>3 DEF Dequeue, TypeInv, Control, ApiMayStart, ThreadRuns
  <2>7. QED
    BY <2>5, <2>6 DEF TypeInv
<1>4. ASSUME NEW p \in Pipes, SetHalt(p) PROVE TypeInv'
  <2>1. TypeOK'
    BY <1>4 DEF SetHalt, EpSetHalt, ApiMayStart, ThreadRuns, TypeInv, TypeOK
  <2>2. Control'
    BY <1>4 DEF SetHalt, EpSetHalt, ApiMayStart, ThreadRuns, TypeInv, Control
  <2>3. QED
    BY <2>1, <2>2 DEF TypeInv
<1>5. ASSUME NEW p \in Pipes, ClearHalt(p) PROVE TypeInv'
  <2>1. TypeOK'
    BY <1>5 DEF ClearHalt, EpSetHalt, ApiMayStart, ThreadRuns, TypeInv, TypeOK
  <2>2. Control'
    BY <1>5 DEF ClearHalt, EpSetHalt, ApiMayStart, ThreadRuns, TypeInv, Control
  <2>3. QED
    BY <2>1, <2>2 DEF TypeInv
<1>6. ASSUME NEW p \in Pipes, EnableBegin(p) PROVE TypeInv'
  <2>1. TypeOK'
    BY <1>6 DEF EnableBegin, MarkStranded, Unnoticed, ApiMayStart, ThreadRuns, TypeInv, TypeOK
  <2>2. Control'
    BY <1>6 DEF EnableBegin, MarkStranded, Unnoticed, ApiMayStart, ThreadRuns, TypeInv, Control
  <2>3. QED
    BY <2>1, <2>2 DEF TypeInv
<1>7. ASSUME NEW p \in Pipes, DisableBegin(p) PROVE TypeInv'
  <2>1. TypeOK'
    BY <1>7 DEF DisableBegin, ApiMayStart, ThreadRuns, TypeInv, TypeOK
  <2>2. Control'
    BY <1>7 DEF DisableBegin, ApiMayStart, ThreadRuns, TypeInv, Control
  <2>3. QED
    BY <2>1, <2>2 DEF TypeInv
<1>8. ASSUME EnableIrq PROVE TypeInv'
  <2>1. TypeOK'
    BY <1>8 DEF EnableIrq, MarkStranded, Unnoticed, ThreadRuns, TypeInv, TypeOK
  <2>2. Control'
    BY <1>8 DEF EnableIrq, MarkStranded, Unnoticed, ThreadRuns, TypeInv, Control
  <2>3. QED
    BY <2>1, <2>2 DEF TypeInv
<1>9. ASSUME EnableEnd PROVE TypeInv'
  <2>1. TypeOK'
    BY <1>9 DEF EnableEnd, NoApi, ThreadRuns, TypeInv, TypeOK
  <2>2. Control'
    BY <1>9 DEF EnableEnd, NoApi, ThreadRuns, TypeInv, Control
  <2>3. QED
    BY <2>1, <2>2 DEF TypeInv
<1>10. ASSUME DisableFlag PROVE TypeInv'
  <2>1. TypeOK'
    BY <1>10 DEF DisableFlag, MarkStranded, Unnoticed, ThreadRuns, TypeInv, TypeOK
  <2>2. Control'
    BY <1>10 DEF DisableFlag, MarkStranded, Unnoticed, ThreadRuns, TypeInv, Control
  <2>3. QED
    BY <2>1, <2>2 DEF TypeInv
<1>11. ASSUME DisableEnd PROVE TypeInv'
  <2>1. TypeOK'
    BY <1>11 DEF DisableEnd, NoApi, MarkStranded, Unnoticed, ThreadRuns, TypeInv, TypeOK
  <2>2. Control'
    BY <1>11 DEF DisableEnd, NoApi, MarkStranded, Unnoticed, ThreadRuns, TypeInv, Control
  <2>3. QED
    BY <2>1, <2>2 DEF TypeInv
<1>13. ASSUME MsgGet PROVE TypeInv'
  <2>0. /\ Head(msgq) \in Pipes \cup {Ctl}
        /\ Tail(msgq) \in Seq(Pipes \cup {Ctl}) /\ Len(Tail(msgq)) <= MsgQSize
    BY <1>13, SizesAssumption DEF MsgGet, TypeInv, TypeOK
  <2>1. TypeOK'
    BY <1>13, <2>0 DEF MsgGet, TypeInv, TypeOK
  <2>2. Control'
    BY <1>13 DEF MsgGet, ThreadRuns, TypeInv, Control
  <2>3. QED
    BY <2>1, <2>2 DEF TypeInv
<1>14. ASSUME MsgLock PROVE TypeInv'
  <2>1. TypeOK'
    BY <1>14 DEF MsgLock, ThreadRuns, TypeInv, TypeOK
  <2>2. Control'
    BY <1>14 DEF MsgLock, ThreadRuns, TypeInv, Control
  <2>3. QED
    BY <2>1, <2>2 DEF TypeInv
<1>15. ASSUME HandleCtl PROVE TypeInv'
  <2>1. TypeOK'
    BY <1>15 DEF HandleCtl, NoMsg, ThreadRuns, TypeInv, TypeOK
  <2>2. Control'
    BY <1>15 DEF HandleCtl, NoMsg, ThreadRuns, TypeInv, Control
  <2>3. QED
    BY <2>1, <2>2 DEF TypeInv
<1>16. ASSUME XferOut PROVE TypeInv'
  <2>1. hand.msg \in Pipes
    BY <1>16 DEF XferOut, Pipes
  <2>2. /\ queue' \in [Pipes -> Seq(Entry)] /\ owned' \subseteq Buf
        /\ rx' \in [Out -> Seq(Packet)] /\ got' \in [Out -> Seq(Nat)]
        /\ flag' \in [Pipes -> BOOLEAN]
    BY <1>16, <2>1, ReadPacketType DEF XferOut, TypeInv, TypeOK
  <2>3. TypeOK'
    BY <1>16, <2>2 DEF XferOut, NoMsg, TypeInv, TypeOK
  <2>4. Control'
    BY <1>16 DEF XferOut, NoMsg, TypeInv, Control, ThreadRuns
  <2>5. QED
    BY <2>3, <2>4 DEF TypeInv
<1>17. ASSUME XferInMask PROVE TypeInv'
  <2>0. hand.msg \in In /\ isr.pc = "none"
    BY <1>17 DEF XferInMask, ThreadRuns
  <2>a. \/ /\ inten' = [inten EXCEPT ![hand.msg] = FALSE]
           /\ hand' = [hand EXCEPT !.pc = "masked"]
        \/ hand' = NoMsg /\ inten' = inten
    BY <1>17 DEF XferInMask
  <2>b. UNCHANGED <<msgq, api, isr, bufVars, statVars, flag, sf, hwVars, histVars>>
    BY <1>17 DEF XferInMask
  <2>c. inten' \in [Pipes -> BOOLEAN]
    BY <2>a DEF TypeInv, TypeOK
  <2>d. /\ hand' \in [pc : {"get", "lock", "run", "masked", "cleared"},
                      msg : Pipes \cup {Ctl}]
        /\ hand'.pc \in {"masked", "get"}
        /\ hand'.pc = "masked" => hand'.msg \in In
        /\ hand'.pc = "get" => hand'.msg = Ctl
    <3>1. hand \in [pc : {"get", "lock", "run", "masked", "cleared"},
                    msg : Pipes \cup {Ctl}]
      BY DEF TypeInv, TypeOK
    <3>2. CASE hand' = NoMsg
      BY <3>2 DEF NoMsg
    <3>3. CASE hand' = [hand EXCEPT !.pc = "masked"]
      BY <3>1, <3>3, <2>0
    <3>4. QED
      BY <3>2, <3>3, <2>a
  <2>1. TypeOK'
    BY <2>b, <2>c, <2>d DEF TypeInv, TypeOK
  <2>2. Control'
    BY <2>0, <2>b, <2>d DEF TypeInv, Control
  <2>3. QED
    BY <2>1, <2>2 DEF TypeInv
<1>18. ASSUME XferInClear PROVE TypeInv'
  <2>1. TypeOK'
    BY <1>18 DEF XferInClear, ThreadRuns, TypeInv, TypeOK
  <2>2. Control'
    BY <1>18 DEF XferInClear, ThreadRuns, TypeInv, Control
  <2>3. QED
    BY <2>1, <2>2 DEF TypeInv
<1>19. ASSUME XferInUnmask PROVE TypeInv'
  <2>1. TypeOK'
    BY <1>19 DEF XferInUnmask, NoMsg, ThreadRuns, TypeInv, TypeOK
  <2>2. Control'
    BY <1>19 DEF XferInUnmask, NoMsg, ThreadRuns, TypeInv, Control
  <2>3. QED
    BY <2>1, <2>2 DEF TypeInv
<1>20. ASSUME NEW p \in Out, H2dEnter(p) PROVE TypeInv'
  <2>0. /\ sf' = [sf EXCEPT ![p] = FALSE]
        /\ \/ isr' = [pc |-> "h2d", ep |-> p] /\ flag' = flag
           \/ isr' = isr /\ flag' = [flag EXCEPT ![p] = TRUE]
        /\ UNCHANGED <<msgq, hand, api, bufVars, statVars, inten, hwVars, histVars>>
    BY <1>20 DEF H2dEnter
  <2>a. p \in Pipes
    BY DEF Pipes
  <2>b. /\ isr' \in [pc : {"none", "h2d", "d2h"}, ep : Pipes \cup {Ctl}]
        /\ flag' \in [Pipes -> BOOLEAN] /\ sf' \in [Pipes -> BOOLEAN]
    <3>1. sf' \in [Pipes -> BOOLEAN]
      BY <2>0 DEF TypeInv, TypeOK
    <3>2. flag' \in [Pipes -> BOOLEAN]
      BY <2>0 DEF TypeInv, TypeOK
    <3>3. [pc |-> "h2d", ep |-> p] \in [pc : {"none", "h2d", "d2h"},
                                         ep : Pipes \cup {Ctl}]
      BY <2>a
    <3>4. QED
      BY <2>0, <3>1, <3>2, <3>3 DEF TypeInv, TypeOK
  <2>1. TypeOK'
    BY <2>0, <2>b DEF TypeInv, TypeOK
  <2>2. Control'
    BY <1>20 DEF H2dEnter, Pipes, TypeInv, Control
  <2>3. QED
    BY <2>1, <2>2 DEF TypeInv
<1>21. ASSUME H2dRead PROVE TypeInv'
  <2>1. isr.ep \in Out /\ queue[isr.ep] # <<>>
    BY <1>21 DEF H2dRead, TypeInv, Control
  <2>2. /\ queue' \in [Pipes -> Seq(Entry)] /\ owned' \subseteq Buf
        /\ rx' \in [Out -> Seq(Packet)] /\ got' \in [Out -> Seq(Nat)]
    BY <1>21, <2>1, ReadPacketType DEF H2dRead
  <2>3. TypeOK'
    BY <1>21, <2>2 DEF H2dRead, NoIsr, TypeInv, TypeOK
  <2>4. Control'
    BY <1>21 DEF H2dRead, NoIsr, TypeInv, Control
  <2>5. QED
    BY <2>3, <2>4 DEF TypeInv
<1>22. ASSUME NEW p \in In, D2hEnter(p) PROVE TypeInv'
  <2>1. p \in Pipes /\ p \notin Out
    BY PipesAssumption DEF Pipes
  <2>2. CASE flag[p] \/ queue[p] = <<>>
    <3>1. TypeOK'
      BY <1>22, <2>1, <2>2 DEF D2hEnter, TypeInv, TypeOK
    <3>2. Control'
      BY <1>22, <2>2 DEF D2hEnter, TypeInv, Control
    <3>3. QED
      BY <3>1, <3>2 DEF TypeInv
  <2>3. CASE ~flag[p] /\ queue[p] # <<>>
    <3> DEFINE e == Head(queue[p])
               m == Lesser(e.left, MPS)
    <3>1. e \in Entry /\ Tail(queue[p]) \in Seq(Entry) /\ queue[p] \in Seq(Entry)
      BY <2>1, <2>3 DEF TypeInv, TypeOK
    <3>2. m \in 0 .. MPS /\ e.left - m \in Nat
      BY <3>1, SizesAssumption DEF Entry, Lesser
    <3>3. tx' = [tx EXCEPT ![p] = Append(@, m)]
      BY <1>22, <2>3 DEF D2hEnter
    <3>4. tx' \in [In -> Seq(0 .. MPS)]
      BY <3>2, <3>3 DEF TypeInv, TypeOK
    <3>5. queue' \in [Pipes -> Seq(Entry)] /\ owned' \subseteq Buf /\ got' = got
      <4>1. CASE e.left = m
        <5>1. Complete(p, <<>>)
          BY <1>22, <2>3, <4>1 DEF D2hEnter
        <5>2. QED
          BY <5>1, <3>1, <2>1 DEF Complete, TypeInv, TypeOK
      <4>2. CASE e.left # m
        <5> DEFINE f == [e EXCEPT !.left = @ - m]
        <5>1. UpdateHead(p, f)
          BY <1>22, <2>3, <4>2 DEF D2hEnter
        <5>2. f \in Entry
          BY <3>1, <3>2 DEF Entry
        <5>3. <<f>> \o Tail(queue[p]) \in Seq(Entry)
          BY <5>2, <3>1
        <5>4. QED
          BY <5>1, <5>3, <2>1 DEF UpdateHead, TypeInv, TypeOK
      <4>3. QED
        BY <4>1, <4>2
    <3> HIDE DEF e, m
    <3>6. /\ isr' = [pc |-> "d2h", ep |-> p]
          /\ UNCHANGED <<flag, inten, msgq, hand, api, statVars, sf, epEn,
                         stall, rx, sent, missed, stranded>>
      BY <1>22, <2>3 DEF D2hEnter
    <3>7. TypeOK'
      BY <2>1, <3>4, <3>5, <3>6 DEF TypeInv, TypeOK
    <3>8. Control'
      BY <3>6 DEF TypeInv, Control
    <3>9. QED
      BY <3>7, <3>8 DEF TypeInv
  <2>4. QED
    BY <2>2, <2>3 DEF TypeInv, TypeOK
<1>23. ASSUME D2hExit PROVE TypeInv'
  <2>1. TypeOK'
    BY <1>23 DEF D2hExit, NoIsr, TypeInv, TypeOK
  <2>2. Control'
    BY <1>23 DEF D2hExit, NoIsr, TypeInv, Control
  <2>3. QED
    BY <2>1, <2>2 DEF TypeInv
<1>24. ASSUME SetupMsgIsr PROVE TypeInv'
  <2>0. msgq' \in Seq(Pipes \cup {Ctl}) /\ Len(msgq') = Len(msgq) + 1
    BY <1>24 DEF SetupMsgIsr, TypeInv, TypeOK
  <2>1. TypeOK'
    BY <1>24, <2>0, SizesAssumption DEF SetupMsgIsr, TypeInv, TypeOK
  <2>2. Control'
    BY <1>24 DEF SetupMsgIsr, TypeInv, Control
  <2>3. QED
    BY <2>1, <2>2 DEF TypeInv
<1>25. ASSUME ResetIsr PROVE TypeInv'
  <2>0. missed' \in [Pipes -> {"no", "purged", "halted", "reset"}] /\ cut' \in BOOLEAN
    BY <1>25 DEF ResetIsr, Mark, TypeInv, TypeOK
  <2>1. TypeOK'
    BY <1>25, <2>0 DEF ResetIsr, TypeInv, TypeOK
  <2>2. Control'
    BY <1>25 DEF ResetIsr, TypeInv, Control
  <2>3. QED
    BY <2>1, <2>2 DEF TypeInv
<1>26. ASSUME NEW p \in Out, HostOut(p) PROVE TypeInv'
  <2>0. sent[p] + 1 \in 0 .. MaxPkt
    BY <1>26, SizesAssumption DEF HostOut, TypeInv, TypeOK
  <2>a. PICK l \in 0 .. MPS :
          rx' = [rx EXCEPT ![p] = <<[n |-> sent[p] + 1, len |-> l]>>]
    BY <1>26 DEF HostOut
  <2>b. <<[n |-> sent[p] + 1, len |-> l]>> \in Seq(Packet)
    BY <2>0 DEF Packet
  <2>c. /\ UNCHANGED <<thrVars, bufVars, statVars, flag, inten, epEn, stall, tx,
                       got, missed, stranded>>
        /\ sent' = [sent EXCEPT ![p] = @ + 1] /\ sf' = [sf EXCEPT ![p] = TRUE]
    BY <1>26 DEF HostOut
  <2>d. /\ rx' \in [Out -> Seq(Packet)] /\ sent' \in [Out -> 0 .. MaxPkt]
        /\ sf' \in [Pipes -> BOOLEAN]
    BY <2>0, <2>a, <2>b, <2>c DEF TypeInv, TypeOK
  <2>1. TypeOK'
    BY <2>c, <2>d DEF TypeInv, TypeOK
  <2>2. Control'
    BY <1>26, SizesAssumption DEF HostOut, Packet, Pipes, TypeInv, Control
  <2>3. QED
    BY <2>1, <2>2 DEF TypeInv
<1>27. ASSUME NEW p \in In, HostIn(p) PROVE TypeInv'
  <2>0. \/ tx[p] # <<>> /\ tx' = [tx EXCEPT ![p] = Tail(@)] /\ sf' = sf
        \/ tx' = tx /\ sf' = [sf EXCEPT ![p] = TRUE]
    BY <1>27 DEF HostIn
  <2>b. tx[p] \in Seq(0 .. MPS) /\ (tx[p] # <<>> => Tail(tx[p]) \in Seq(0 .. MPS))
    BY DEF TypeInv, TypeOK
  <2>a. tx' \in [In -> Seq(0 .. MPS)] /\ sf' \in [Pipes -> BOOLEAN]
    BY <2>0, <2>b DEF TypeInv, TypeOK
  <2>1. TypeOK'
    BY <1>27, <2>a DEF HostIn, TypeInv, TypeOK
  <2>2. Control'
    BY <1>27 DEF HostIn, Pipes, TypeInv, Control
  <2>3. QED
    BY <2>1, <2>2 DEF TypeInv
<1>28. ASSUME UNCHANGED vars PROVE TypeInv'
  <2>1. TypeOK'
    BY <1>28 DEF vars, TypeInv, TypeOK
  <2>2. Control'
    BY <1>28 DEF vars, TypeInv, Control
  <2>3. QED
    BY <2>1, <2>2 DEF TypeInv
<1>29. QED
  BY <1>1, <1>2, <1>3, <1>4, <1>5, <1>6, <1>7, <1>8, <1>9, <1>10, <1>11, <1>13, <1>14, <1>15, <1>16, <1>17, <1>18, <1>19, <1>20, <1>21, <1>22, <1>23, <1>24, <1>25, <1>26, <1>27, <1>28,
     <1>30, <1>31, <1>32, <1>33, <1>34 DEF Next, ApiCall, ApiStep, Handler, Interrupt, Host

(* Every variable of the driver, of the hardware and of the histories has   *)
(* its type in every reachable state, for every instance of the constants.  *)
THEOREM TypeCorrect == Spec => []TypeOK
<1>1. TypeInv => TypeOK
  BY DEF TypeInv
<1>2. QED
  BY TypeInit, TypeStep, <1>1, PTL DEF Spec

-----------------------------------------------------------------------------
(* NoLostWakeup needs one more fact: after _e967_usbd_xfer_in cleared        *)
(* data_size_in, an interrupt may set it again, but only with no buffer.     *)

WakeInv ==
  /\ NoLostWakeup
  /\ hand.pc = "cleared" /\ flag[hand.msg] => queue[hand.msg] = <<>>

LEMMA PendingAppend ==
  ASSUME TypeInv, NEW m \in Pipes \cup {Ctl}, msgq' = Append(msgq, m)
  PROVE  Pending(m)' /\ \A p \in Pipes : Pending(p) => Pending(p)'
<1>1. /\ Len(msgq') = Len(msgq) + 1
      /\ \A i \in 1 .. Len(msgq) : msgq'[i] = msgq[i]
      /\ msgq'[Len(msgq) + 1] = m /\ Len(msgq) \in Nat
  BY DEF TypeInv, TypeOK
<1>2. QED
  BY <1>1 DEF Pending

LEMMA PendingTail ==
  ASSUME TypeInv, msgq # <<>>, msgq' = Tail(msgq), NEW p \in Pipes, Pending(p)
  PROVE  Pending(p)' \/ p = Head(msgq)
<1>1. PICK i \in 1 .. Len(msgq) : msgq[i] = p
  BY DEF Pending
<1>2. /\ Len(msgq') = Len(msgq) - 1 /\ Len(msgq) \in Nat /\ Head(msgq) = msgq[1]
      /\ \A j \in 1 .. Len(msgq) - 1 : msgq'[j] = msgq[j + 1]
  BY DEF TypeInv, TypeOK
<1>3. CASE i = 1
  BY <1>1, <1>2, <1>3
<1>4. CASE i # 1
  <2>1. i - 1 \in 1 .. Len(msgq') /\ msgq'[i - 1] = p
    BY <1>1, <1>2, <1>4
  <2>2. QED
    BY <2>1 DEF Pending
<1>5. QED
  BY <1>3, <1>4

(* A step that starts no wait and touches no message keeps the invariant. *)
LEMMA NoNewWait ==
  ASSUME NoLostWakeup, UNCHANGED <<msgq, missed>>,
         \A p \in Pipes : flag'[p] /\ queue'[p] # <<>> => flag[p] /\ queue[p] # <<>>,
         \A p \in Pipes : flag'[p] /\ queue'[p] # <<>> /\ hand.msg = p => hand'.msg = p,
         api.pc \in {"placed", "put"} => UNCHANGED api
  PROVE  NoLostWakeup'
<1>1. \A p \in Pipes : Pending(p)' <=> Pending(p)
  BY DEF Pending
<1>2. QED
  BY <1>1 DEF NoLostWakeup, Notified

(* What reading a packet does to the queues. *)
LEMMA ReadPacketQueue ==
  ASSUME TypeInv, NEW p \in Out, ReadPacket(p)
  PROVE  \A q \in Pipes : q # p => queue'[q] = queue[q]
BY DEF ReadPacket, Complete, UpdateHead, TypeInv, TypeOK

(* The second read of ep_out_num_new names the endpoint that holds the       *)
(* buffer, or a reset came in between and the loss is on record.             *)
Named ==
  api.pc = "placed" => api.dst = Ctl \/ api.dst = NewDst \/ missed[api.dst] # "no"

LEMMA NamedInit == Init => Named
BY DEF Init, Named, NoApi

LEMMA NamedStep == TypeInv /\ Named /\ [Next]_vars => Named'
<1> SUFFICES ASSUME TypeInv, Named, [Next]_vars PROVE Named'
  OBVIOUS
<1> USE DEF thrVars, bufVars, renVars, statVars, irqVars, hwVars, histVars
<1>0. api.dst \in Pipes \cup {Ctl}
  BY DEF TypeInv, TypeOK
<1>1. ASSUME UNCHANGED <<api, outNum, missed>> PROVE Named'
  BY <1>1 DEF Named, NewDst
<1>2. ASSUME api'.pc # "placed" PROVE Named'
  BY <1>2 DEF Named
<1>3. ASSUME NEW p \in Pipes, \/ \E b \in Buf : Enqueue(p, b)
                              \/ EnqueueTest(p) \/ EnableBegin(p) \/ DisableBegin(p)
      PROVE  Named'
  BY <1>2, <1>3 DEF Enqueue, EnqueueTest, EnableBegin, DisableBegin
<1>4. ASSUME NEW p \in Pipes, Dequeue(p) \/ SetHalt(p) \/ ClearHalt(p) PROVE Named'
  BY <1>1, <1>4 DEF Dequeue, SetHalt, ClearHalt, EpSetHalt
<1>5. ASSUME EnqueueCtl \/ EnqueueNotify \/ EnableEnd \/ DisableEnd PROVE Named'
  BY <1>2, <1>5 DEF EnqueueCtl, EnqueueNotify, EnableEnd, DisableEnd, NoApi
<1>6. ASSUME EnqueueName \/ EnableIrq \/ DisableFlag PROVE Named'
  BY <1>2, <1>6 DEF EnqueueName, EnableIrq, DisableFlag, TypeInv, TypeOK
<1>7. ASSUME NEW b \in Buf, EnqueueMove(b) PROVE Named'
  BY <1>7 DEF EnqueueMove, Named, NewDst, TypeInv, TypeOK
<1>8. ASSUME ResetIsr PROVE Named'
  BY <1>0, <1>8 DEF ResetIsr, Mark, Named
<1>9. ASSUME Handler \/ DequeueCtl PROVE Named'
  BY <1>1, <1>9 DEF Handler, MsgGet, MsgLock, HandleCtl, XferOut, XferInMask, XferInClear,
                    XferInUnmask, DequeueCtl
<1>10. ASSUME \/ \E p \in Out : H2dEnter(p)
              \/ \E p \in In : D2hEnter(p)
              \/ H2dRead \/ D2hExit \/ SetupMsgIsr
       PROVE  Named'
  BY <1>1, <1>10 DEF H2dEnter, D2hEnter, H2dRead, D2hExit, SetupMsgIsr
<1>11. ASSUME Host \/ UNCHANGED vars PROVE Named'
  BY <1>1, <1>11 DEF Host, HostOut, HostIn, vars
<1>12. QED
  BY <1>3, <1>4, <1>5, <1>6, <1>7, <1>8, <1>9, <1>10, <1>11
     DEF Next, ApiCall, ApiStep, Interrupt

LEMMA WakeInit == Init => WakeInv
BY DEF Init, WakeInv, NoLostWakeup, NoMsg, Pipes

LEMMA WakeStep == TypeInv /\ Named /\ WakeInv /\ [Next]_vars => WakeInv'
<1> SUFFICES ASSUME TypeInv, Named, WakeInv, [Next]_vars PROVE WakeInv'
  OBVIOUS
<1> USE DEF thrVars, bufVars, renVars, statVars, irqVars, hwVars, histVars
<1>0. NoLostWakeup /\ Ctl \notin Pipes /\ In \subseteq Pipes /\ Out \subseteq Pipes
  BY PipesAssumption DEF WakeInv, Pipes
<1>1. ASSUME NEW p \in Pipes, NEW b \in Buf, Enqueue(p, b) PROVE WakeInv'
  <2>1. /\ hand.pc # "cleared" /\ api.pc = "idle"
        /\ api' = [pc |-> "put", ep |-> p, dst |-> p]
        /\ UNCHANGED <<msgq, hand, flag, missed>>
    BY <1>1 DEF Enqueue, ApiMayStart, HandLocks
  <2>2. \A q \in Pipes : q # p => queue'[q] = queue[q]
    BY <1>1 DEF Enqueue, PutBuf, TypeInv, TypeOK
  <2>3. \A q \in Pipes : Pending(q)' <=> Pending(q)
    BY <2>1 DEF Pending
  <2>4. NoLostWakeup'
    BY <1>0, <2>1, <2>2, <2>3 DEF NoLostWakeup, Notified
  <2>5. QED
    BY <2>1, <2>4 DEF WakeInv
<1>2. ASSUME EnqueueNotify PROVE WakeInv'
  <2>1. /\ api.pc = "put" /\ api' = NoApi /\ api.dst \in Pipes \cup {Ctl}
        /\ UNCHANGED <<hand, flag, queue>>
    BY <1>2 DEF EnqueueNotify, TypeInv, TypeOK
  <2>2. CASE Mark(api.dst, "halted") /\ UNCHANGED msgq
    <3>1. \A q \in Pipes : Pending(q)' <=> Pending(q)
      BY <2>2 DEF Pending
    <3>2. QED
      BY <1>0, <2>1, <2>2, <3>1 DEF Mark, WakeInv, NoLostWakeup, Notified, NoApi
  <2>3. CASE SendMsg(api.dst) /\ Len(msgq) < MsgQSize
    <3>1. msgq' = Append(msgq, api.dst) /\ Mark(api.dst, "no")
      BY <2>3 DEF SendMsg
    <3>2. \A q \in Pipes : q = api.dst \/ Pending(q) => Pending(q)'
      BY <2>1, <3>1, PendingAppend
    <3>3. QED
      BY <1>0, <2>1, <3>1, <3>2 DEF Mark, WakeInv, NoLostWakeup, Notified, NoApi
  <2>4. CASE SendMsg(api.dst) /\ ~(Len(msgq) < MsgQSize)
    <3>1. missed' = [q \in Pipes |-> IF q = api.dst \/ Pending(q) THEN "purged"
                                     ELSE missed[q]]
      BY <2>4 DEF SendMsg
    <3>2. QED
      BY <1>0, <2>1, <3>1 DEF WakeInv, NoLostWakeup, Notified, NoApi
  <2>5. QED
    BY <1>2, <2>2, <2>3, <2>4 DEF EnqueueNotify
<1>30. ASSUME NEW p \in Pipes, EnqueueTest(p) PROVE WakeInv'
  <2>1. NoLostWakeup'
    BY <1>0, <1>30, NoNewWait DEF EnqueueTest, ApiMayStart, HandLocks
  <2>2. QED
    BY <1>30, <2>1 DEF EnqueueTest, ApiMayStart, HandLocks, WakeInv
<1>31. ASSUME NEW b \in Buf, EnqueueMove(b) PROVE WakeInv'
  <2>1. /\ api.pc = "moved" /\ api'.pc = "placed" /\ api'.dst = NewDst
        /\ UNCHANGED <<msgq, hand, flag, missed>>
    BY <1>31 DEF EnqueueMove, TypeInv, TypeOK
  <2>2. \A q \in Pipes : q # NewDst => queue'[q] = queue[q]
    BY <1>31 DEF EnqueueMove, PutBuf, TypeInv, TypeOK
  <2>3. \A q \in Pipes : Pending(q)' <=> Pending(q)
    BY <2>1 DEF Pending
  <2>4. NoLostWakeup'
    BY <1>0, <2>1, <2>2, <2>3 DEF NoLostWakeup, Notified
  <2>5. hand.pc = "cleared" => hand.msg \in In /\ hand.msg # NewDst
    BY NewDstType, PipesAssumption DEF TypeInv, Control, Pipes
  <2>6. QED
    BY <1>0, <2>1, <2>2, <2>4, <2>5 DEF WakeInv
<1>32. ASSUME EnqueueName PROVE WakeInv'
  <2>1. /\ api.pc = "placed" /\ api'.pc = "put" /\ api'.dst = NewDst
        /\ UNCHANGED <<msgq, hand, flag, queue, missed>>
    BY <1>32 DEF EnqueueName, TypeInv, TypeOK
  <2>2. \A q \in Pipes : Pending(q)' <=> Pending(q)
    BY <2>1 DEF Pending
  <2>3. NoLostWakeup'
    BY <1>0, <2>1, <2>2 DEF Named, NoLostWakeup, Notified
  <2>4. QED
    BY <2>1, <2>3 DEF WakeInv
<1>33. ASSUME EnqueueCtl PROVE WakeInv'
  <2>1. NoLostWakeup'
    BY <1>0, <1>33, NoNewWait DEF EnqueueCtl, ApiMayStart, HandLocks
  <2>2. QED
    BY <1>33, <2>1 DEF EnqueueCtl, ApiMayStart, HandLocks, WakeInv
<1>34. ASSUME DequeueCtl PROVE WakeInv'
  <2>1. NoLostWakeup'
    BY <1>0, <1>34, NoNewWait DEF DequeueCtl, ApiMayStart, HandLocks
  <2>2. QED
    BY <1>34, <2>1 DEF DequeueCtl, ApiMayStart, HandLocks, WakeInv
<1>3. ASSUME NEW p \in Pipes, Dequeue(p) PROVE WakeInv'
  <2>1. \A q \in Pipes : queue'[q] # <<>> => queue[q] # <<>>
    BY <1>3 DEF Dequeue, TypeInv, TypeOK
  <2>2. NoLostWakeup'
    BY <1>0, <1>3, <2>1, NoNewWait DEF Dequeue
  <2>3. QED
    BY <1>3, <2>2 DEF Dequeue, WakeInv, ApiMayStart, HandLocks
<1>4. ASSUME NEW p \in Pipes, SetHalt(p) PROVE WakeInv'
  <2>1. NoLostWakeup'
    BY <1>0, <1>4, NoNewWait DEF SetHalt, EpSetHalt, ApiMayStart, HandLocks
  <2>2. QED
    BY <1>4, <2>1 DEF SetHalt, EpSetHalt, ApiMayStart, HandLocks, WakeInv
<1>5. ASSUME NEW p \in Pipes, ClearHalt(p) PROVE WakeInv'
  <2>1. NoLostWakeup'
    BY <1>0, <1>5, NoNewWait DEF ClearHalt, EpSetHalt, ApiMayStart, HandLocks
  <2>2. QED
    BY <1>5, <2>1 DEF ClearHalt, EpSetHalt, ApiMayStart, HandLocks, WakeInv
<1>6. ASSUME NEW p \in Pipes, EnableBegin(p) PROVE WakeInv'
  <2>1. \A q \in Pipes : flag'[q] => flag[q]
    BY <1>6 DEF EnableBegin, ApiMayStart, HandLocks, TypeInv, TypeOK
  <2>2. NoLostWakeup'
    BY <1>0, <1>6, <2>1, NoNewWait DEF EnableBegin, ApiMayStart, HandLocks
  <2>3. QED
    BY <1>6, <2>1, <2>2 DEF EnableBegin, ApiMayStart, HandLocks, WakeInv, TypeInv, Control, TypeOK
<1>7. ASSUME NEW p \in Pipes, DisableBegin(p) PROVE WakeInv'
  <2>1. NoLostWakeup'
    BY <1>0, <1>7, NoNewWait DEF DisableBegin, ApiMayStart, HandLocks
  <2>2. QED
    BY <1>7, <2>1 DEF DisableBegin, ApiMayStart, HandLocks, WakeInv
<1>8. ASSUME EnableIrq PROVE WakeInv'
  <2>1. NoLostWakeup'
    BY <1>0, <1>8, NoNewWait DEF EnableIrq
  <2>2. QED
    BY <1>8, <2>1 DEF EnableIrq, WakeInv
<1>9. ASSUME EnableEnd PROVE WakeInv'
  <2>1. NoLostWakeup'
    BY <1>0, <1>9, NoNewWait DEF EnableEnd
  <2>2. QED
    BY <1>9, <2>1 DEF EnableEnd, WakeInv
<1>10. ASSUME DisableFlag PROVE WakeInv'
  <2>1. \A q \in Pipes : flag'[q] => flag[q]
    BY <1>10 DEF DisableFlag, TypeInv, TypeOK
  <2>2. NoLostWakeup'
    BY <1>0, <1>10, <2>1, NoNewWait DEF DisableFlag
  <2>3. QED
    BY <1>0, <1>10, <2>1, <2>2 DEF DisableFlag, WakeInv, TypeInv, Control
<1>11. ASSUME DisableEnd PROVE WakeInv'
  <2>1. NoLostWakeup'
    BY <1>0, <1>11, NoNewWait DEF DisableEnd
  <2>2. QED
    BY <1>11, <2>1 DEF DisableEnd, WakeInv
<1>13. ASSUME MsgGet PROVE WakeInv'
  <2>1. /\ hand.msg = Ctl /\ hand' = [pc |-> "lock", msg |-> Head(msgq)]
        /\ msgq # <<>> /\ msgq' = Tail(msgq)
        /\ UNCHANGED <<api, flag, queue, missed>>
    BY <1>13 DEF MsgGet, TypeInv, Control
  <2>2. \A q \in Pipes : Pending(q) => Pending(q)' \/ q = Head(msgq)
    BY <2>1, PendingTail
  <2>3. QED
    BY <1>0, <2>1, <2>2 DEF WakeInv, NoLostWakeup, Notified
<1>14. ASSUME MsgLock PROVE WakeInv'
  <2>1. NoLostWakeup'
    BY <1>0, <1>14, NoNewWait DEF MsgLock, TypeInv, TypeOK
  <2>2. QED
    BY <1>14, <2>1 DEF MsgLock, TypeInv, TypeOK, WakeInv
<1>15. ASSUME HandleCtl PROVE WakeInv'
  <2>1. NoLostWakeup'
    BY <1>0, <1>15, NoNewWait DEF HandleCtl, NoMsg
  <2>2. QED
    BY <1>15, <2>1 DEF HandleCtl, NoMsg, WakeInv
<1>16. ASSUME XferOut PROVE WakeInv'
  <2>1. /\ hand.msg \in Out /\ hand' = NoMsg
        /\ UNCHANGED <<msgq, api, missed>>
    BY <1>16 DEF XferOut
  <2>2. \A q \in Pipes : q # hand.msg => queue'[q] = queue[q] /\ flag'[q] = flag[q]
    BY <1>16, <2>1, ReadPacketQueue DEF XferOut, TypeInv, TypeOK
  <2>3. ~(flag'[hand.msg] /\ queue'[hand.msg] # <<>>)
    BY <1>16, <1>0, <2>1 DEF XferOut, TypeInv, TypeOK
  <2>4. NoLostWakeup'
    BY <1>0, <2>1, <2>2, <2>3, NoNewWait
  <2>5. QED
    BY <2>1, <2>4 DEF WakeInv, NoMsg
<1>17. ASSUME XferInMask PROVE WakeInv'
  <2>1. /\ hand.msg \in In /\ UNCHANGED <<msgq, api, missed, flag, queue>>
        /\ \/ flag[hand.msg] /\ hand' = [hand EXCEPT !.pc = "masked"]
           \/ ~flag[hand.msg] /\ hand' = NoMsg
    BY <1>17 DEF XferInMask
  <2>2. hand'.pc # "cleared" /\ (flag[hand.msg] => hand'.msg = hand.msg)
    BY <2>1 DEF NoMsg, TypeInv, TypeOK
  <2>3. NoLostWakeup'
    BY <1>0, <2>1, <2>2, NoNewWait
  <2>4. QED
    BY <2>2, <2>3 DEF WakeInv
<1>18. ASSUME XferInClear PROVE WakeInv'
  <2>1. /\ hand.msg \in In /\ hand'.msg = hand.msg
        /\ flag' = [flag EXCEPT ![hand.msg] = FALSE]
        /\ UNCHANGED <<msgq, api, missed, queue>>
    BY <1>18 DEF XferInClear, TypeInv, TypeOK, Control
  <2>2. \A q \in Pipes : flag'[q] => flag[q]
    BY <2>1 DEF TypeInv, TypeOK
  <2>3. NoLostWakeup'
    BY <1>0, <2>1, <2>2, NoNewWait
  <2>4. ~flag'[hand'.msg]
    BY <1>0, <2>1 DEF TypeInv, TypeOK
  <2>5. QED
    BY <2>3, <2>4 DEF WakeInv
<1>19. ASSUME XferInUnmask PROVE WakeInv'
  <2>1. /\ hand.pc = "cleared" /\ hand' = NoMsg
        /\ UNCHANGED <<msgq, api, missed, flag, queue>>
    BY <1>19 DEF XferInUnmask
  <2>2. flag[hand.msg] => queue[hand.msg] = <<>>
    BY <2>1 DEF WakeInv
  <2>3. NoLostWakeup'
    BY <1>0, <2>1, <2>2, NoNewWait
  <2>4. QED
    BY <2>1, <2>3 DEF WakeInv, NoMsg
<1>20. ASSUME NEW p \in Out, H2dEnter(p) PROVE WakeInv'
  <2>1. /\ UNCHANGED <<msgq, hand, api, queue, missed>>
        /\ \/ flag' = flag
           \/ /\ flag' = [flag EXCEPT ![p] = TRUE]
              /\ flag[p] \/ queue[p] = <<>>
    BY <1>20 DEF H2dEnter
  <2>2. \A q \in Pipes : flag'[q] /\ queue'[q] # <<>> => flag[q] /\ queue[q] # <<>>
    BY <2>1 DEF TypeInv, TypeOK
  <2>3. NoLostWakeup'
    BY <1>0, <2>1, <2>2, NoNewWait
  <2>4. QED
    BY <1>0, <2>1, <2>2, <2>3 DEF WakeInv, TypeInv, Control
<1>21. ASSUME H2dRead PROVE WakeInv'
  <2>1. /\ isr.ep \in Out /\ queue[isr.ep] # <<>> /\ isr.pc = "h2d"
        /\ UNCHANGED <<msgq, hand, api, flag, missed>>
    BY <1>21 DEF H2dRead, TypeInv, Control
  <2>2. \A q \in Pipes : q # isr.ep => queue'[q] = queue[q]
    BY <1>21, <2>1, ReadPacketQueue DEF H2dRead
  <2>3. NoLostWakeup'
    BY <1>0, <2>1, <2>2, NoNewWait
  <2>4. hand.pc = "cleared" => hand.msg \in In /\ hand.msg \notin Out
    BY PipesAssumption DEF TypeInv, Control
  <2>5. QED
    BY <1>0, <2>1, <2>2, <2>3, <2>4 DEF WakeInv
<1>22. ASSUME NEW p \in In, D2hEnter(p) PROVE WakeInv'
  <2>1. /\ UNCHANGED <<msgq, hand, api, missed>>
        /\ \A q \in Pipes : q # p => queue'[q] = queue[q] /\ flag'[q] = flag[q]
        /\ \/ flag'[p] = flag[p] /\ queue[p] # <<>>
           \/ queue'[p] = queue[p] /\ (flag[p] \/ queue[p] = <<>>)
    BY <1>22, <1>0 DEF D2hEnter, Complete, UpdateHead, TypeInv, TypeOK
  <2>2. \A q \in Pipes : flag'[q] /\ queue'[q] # <<>> => flag[q] /\ queue[q] # <<>>
    BY <1>0, <2>1
  <2>3. NoLostWakeup'
    BY <1>0, <2>1, <2>2, NoNewWait
  <2>4. QED
    BY <1>0, <2>1, <2>2, <2>3 DEF WakeInv, TypeInv, Control
<1>23. ASSUME D2hExit PROVE WakeInv'
  <2>1. NoLostWakeup'
    BY <1>0, <1>23, NoNewWait DEF D2hExit
  <2>2. QED
    BY <1>23, <2>1 DEF D2hExit, WakeInv
<1>24. ASSUME SetupMsgIsr PROVE WakeInv'
  <2>1. /\ msgq' = Append(msgq, Ctl)
        /\ UNCHANGED <<hand, api, missed, flag, queue>>
    BY <1>24 DEF SetupMsgIsr
  <2>2. \A q \in Pipes : Pending(q) => Pending(q)'
    BY <2>1, PendingAppend
  <2>3. QED
    BY <2>1, <2>2 DEF WakeInv, NoLostWakeup, Notified
<1>25. ASSUME ResetIsr PROVE WakeInv'
  <2>1. /\ UNCHANGED <<msgq, hand, api, flag, queue>>
        /\ UNCHANGED missed \/ Mark(api.dst, "reset")
    BY <1>25 DEF ResetIsr
  <2>2. \A q \in Pipes : Pending(q)' <=> Pending(q)
    BY <2>1 DEF Pending
  <2>3. NoLostWakeup'
    BY <1>0, <2>1, <2>2 DEF Mark, NoLostWakeup, Notified
  <2>4. QED
    BY <2>1, <2>3 DEF WakeInv
<1>26. ASSUME NEW p \in Out, HostOut(p) PROVE WakeInv'
  <2>1. NoLostWakeup'
    BY <1>0, <1>26, NoNewWait DEF HostOut
  <2>2. QED
    BY <1>26, <2>1 DEF HostOut, WakeInv
<1>27. ASSUME NEW p \in In, HostIn(p) PROVE WakeInv'
  <2>1. NoLostWakeup'
    BY <1>0, <1>27, NoNewWait DEF HostIn
  <2>2. QED
    BY <1>27, <2>1 DEF HostIn, WakeInv
<1>28. ASSUME UNCHANGED vars PROVE WakeInv'
  <2>1. NoLostWakeup'
    BY <1>0, <1>28, NoNewWait DEF vars
  <2>2. QED
    BY <1>28, <2>1 DEF vars, WakeInv
<1>29. QED
  BY <1>1, <1>2, <1>3, <1>4, <1>5, <1>6, <1>7, <1>8, <1>9, <1>10, <1>11, <1>13, <1>14, <1>15, <1>16, <1>17, <1>18, <1>19, <1>20, <1>21, <1>22, <1>23, <1>24, <1>25, <1>26, <1>27, <1>28,
     <1>30, <1>31, <1>32, <1>33, <1>34 DEF Next, ApiCall, ApiStep, Handler, Interrupt, Host

(* A pipe that waits for a buffer and has one is always about to be served,  *)
(* unless its message was purged, withheld by the halt check of ep_enqueue,  *)
(* or misnamed because a bus reset came between the put and the second read  *)
(* of ep_out_num_new: for any number of pipes, any buffers and any message   *)
(* queue size.                                                               *)
THEOREM NoWakeupIsLost == Spec => []NoLostWakeup
<1>1. WakeInv => NoLostWakeup
  BY DEF WakeInv
<1>2. QED
  BY TypeInit, TypeStep, NamedInit, NamedStep, WakeInit, WakeStep, <1>1, PTL DEF Spec
=============================================================================
