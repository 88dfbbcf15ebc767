------------------------------ MODULE UdcDataEp ------------------------------
(***************************************************************************)
(* The data endpoints of the ELAN E967 USB device controller driver,       *)
(* drivers/usb/udc/udc_elan_elandev.c.                                     *)
(*                                                                         *)
(* Three kinds of actors share the state of an endpoint:                   *)
(*   - API calls of the USB stack (enqueue, dequeue, halt, enable, ...),   *)
(*     one at a time under the mutex of the UDC core;                      *)
(*   - the driver thread e967_usbd_msg_handler, which takes a message from *)
(*     the message queue BEFORE it takes that mutex;                       *)
(*   - the interrupt handlers e967_usb_ep_h2d_isr (OUT) and                *)
(*     e967_usb_ep_d2h_isr (IN), which take no lock, preempt both and do   *)
(*     not preempt each other (one priority);                              *)
(* and the host, which fills OUT FIFOs and polls IN FIFOs at any moment.   *)
(*                                                                         *)
(* A pipe is a data endpoint with a direction; an OUT and an IN pipe may   *)
(* share an index, and then share its EPnEN and EPnSTALL bits.  Buffers    *)
(* are abstract names; a queued one carries `left', the tailroom of an OUT *)
(* buffer or the bytes an IN buffer still has to send, and `data', the     *)
(* packets read into it.  The host numbers its packets.                    *)
(***************************************************************************)
EXTENDS Naturals, Sequences, FiniteSets

CONSTANTS
  Out,        (* the OUT data pipes                                        *)
  In,         (* the IN data pipes                                         *)
  Idx,        (* the endpoint index of each pipe                           *)
  Ctl,        (* the control endpoint: a message that is for no data pipe  *)
  Buf,        (* the network buffers of the classes                        *)
  MsgQSize,   (* CONFIG_UDC_E967_MSG_QUEUE_SIZE                            *)
  MPS,        (* EP_MPS, the size of a hardware FIFO                       *)
  RoomSizes,  (* tailrooms the classes allocate for OUT transfers          *)
  Lengths,    (* lengths of the IN transfers                               *)
  MaxPkt,     (* bound: OUT packets the host sends on one pipe             *)
  Disables    (* bound: whether the classes disable endpoints              *)

Pipes   == Out \cup In
Indexes == 1 .. 4

ASSUME PipesAssumption ==
  /\ Out \cap In = {}
  /\ Ctl \notin Pipes
  /\ Idx \in [Pipes -> Indexes]
  /\ \A p, q \in Out : Idx[p] = Idx[q] => p = q
  /\ \A p, q \in In  : Idx[p] = Idx[q] => p = q

ASSUME SizesAssumption ==
  /\ MsgQSize \in Nat \ {0}
  /\ MPS \in Nat \ {0}
  /\ RoomSizes \subseteq Nat /\ \A r \in RoomSizes : r >= MPS
  /\ Lengths \subseteq Nat
  /\ MaxPkt \in Nat

ASSUME DisablesAssumption == Disables \in BOOLEAN

VARIABLES
  msgq,      (* priv->msgq: the pipe of each XFER message, Ctl for a SETUP *)
  hand,      (* the driver thread: where it is and the message it holds    *)
  api,       (* the API call in progress, if any                           *)
  isr,       (* the interrupt handler in progress, if any                  *)
  queue,     (* cfg->fifo of each pipe                                     *)
  owned,     (* buffers the driver has accepted and not completed yet      *)
  enabled,   (* cfg->stat.enabled, kept by the UDC core                    *)
  halted,    (* cfg->stat.halted                                           *)
  outNum,    (* priv->ep_out_num; ep_out_num_new is 3 when this is not 0   *)
  astray,    (* buffers that lie on the queue of endpoint 0, OUT           *)
  cut,       (* history: a reset came between lines 423 and 424            *)
  flag,      (* data_size_out / data_size_in of the pipe                   *)
  inten,     (* EPxOUTINTEN / EPxININTEN                                   *)
  sf,        (* EPx_OUT_INT_SF / EPx_IN_INT_SF                             *)
  epEn,      (* EPnEN, by index                                            *)
  stall,     (* EPnSTALL, by index                                         *)
  rx,        (* the hardware FIFO of an OUT pipe                           *)
  tx,        (* the hardware FIFO of an IN pipe                            *)
  sent,      (* host: OUT packets sent so far                              *)
  got,       (* history: OUT packets given to the class, in order          *)
  missed,    (* history: why the last XFER message of the pipe was lost    *)
  stranded   (* history: enable/disable dropped the notice of a packet     *)

thrVars  == <<msgq, hand, api, isr>>
bufVars  == <<queue, owned>>
renVars  == <<outNum, astray, cut>>
statVars == <<enabled, halted, renVars>>
irqVars  == <<flag, inten, sf>>
hwVars   == <<epEn, stall, rx, tx>>
histVars == <<sent, got, missed, stranded>>
vars     == <<thrVars, bufVars, statVars, irqVars, hwVars, histVars>>

NewOutNum == 3      \* priv->ep_out_num_new while ep_out_num is not 0

NoApi == [pc |-> "idle", ep |-> Ctl, dst |-> Ctl]
NoMsg == [pc |-> "get", msg |-> Ctl]
NoIsr == [pc |-> "none", ep |-> Ctl]

Init ==
  /\ msgq = <<>> /\ hand = NoMsg /\ api = NoApi /\ isr = NoIsr
  /\ queue = [p \in Pipes |-> <<>>]
  /\ owned = {}
  /\ enabled = [p \in Pipes |-> FALSE]
  /\ halted = [p \in Pipes |-> FALSE]
  /\ outNum = 0 /\ astray = {} /\ cut = FALSE
  /\ flag = [p \in Pipes |-> FALSE]
  /\ inten = [p \in Pipes |-> TRUE]
  /\ sf = [p \in Pipes |-> FALSE]
  /\ epEn = [i \in Indexes |-> TRUE]
  /\ stall = [i \in Indexes |-> FALSE]
  /\ rx = [p \in Out |-> <<>>]
  /\ tx = [p \in In |-> <<>>]
  /\ sent = [p \in Out |-> 0]
  /\ got = [p \in Out |-> <<>>]
  /\ missed = [p \in Pipes |-> "no"]
  /\ stranded = [p \in Out |-> FALSE]

-----------------------------------------------------------------------------
(* Who may run.  An interrupt handler keeps every thread out; the UDC      *)
(* mutex is held by an API call or by the driver thread past its lock.     *)

ThreadRuns == isr.pc = "none"
HandLocks  == hand.pc \in {"run", "masked", "cleared"}
ApiMayStart == ThreadRuns /\ api.pc = "idle" /\ ~HandLocks

Lesser(m, n) == IF m < n THEN m ELSE n

(* Mutant: udc_buf_peek in the place of udc_buf_get. *)
CompleteByPeek(p, content) ==
  /\ owned' = owned \ {Head(queue[p]).buf}
  /\ got' = IF p \in Out THEN [got EXCEPT ![p] = @ \o content] ELSE got
  /\ UNCHANGED queue

(* udc_buf_get and udc_submit_ep_event of the first buffer of p. *)
Complete(p, content) ==
  /\ queue' = [queue EXCEPT ![p] = Tail(@)]
  /\ owned' = owned \ {Head(queue[p]).buf}
  /\ got' = IF p \in Out THEN [got EXCEPT ![p] = @ \o content] ELSE got

(* The first buffer of p changes in place. *)
UpdateHead(p, e) ==
  /\ queue' = [queue EXCEPT ![p] = <<e>> \o Tail(@)]
  /\ UNCHANGED <<owned, got>>

(* Mutants: `data_len == 0', the test that `data_len < EP_MPS' replaced; and *)
(* the test made on the tailroom taken before net_buf_add.                   *)
ReadPacketUntilFull(p) ==
  LET e       == Head(queue[p])
      n       == IF rx[p] = <<>> THEN 0 ELSE Lesser(Head(rx[p]).len, e.left)
      content == IF rx[p] = <<>> THEN e.data ELSE Append(e.data, Head(rx[p]).n)
  IN  /\ rx' = [rx EXCEPT ![p] = <<>>]
      /\ IF e.left - n = 0
         THEN Complete(p, content)
         ELSE UpdateHead(p, [e EXCEPT !.left = @ - n, !.data = content])

ReadPacketSubmitFirst(p) ==
  LET e == Head(queue[p])
      n == IF rx[p] = <<>> THEN 0 ELSE Lesser(Head(rx[p]).len, e.left)
  IN  /\ rx' = [rx EXCEPT ![p] = <<>>]
      /\ IF e.left - n < MPS
         THEN Complete(p, e.data)
         ELSE UpdateHead(p, [e EXCEPT !.left = @ - n,
                                      !.data = Append(@, Head(rx[p]).n)])

(* The body that the OUT interrupt and _e967_usbd_xfer_out share: read one *)
(* packet into the first buffer, and complete the buffer once it has no    *)
(* room for another full packet.                                           *)
ReadPacket(p) ==
  LET e       == Head(queue[p])
      n       == IF rx[p] = <<>> THEN 0 ELSE Lesser(Head(rx[p]).len, e.left)
      content == IF rx[p] = <<>> THEN e.data ELSE Append(e.data, Head(rx[p]).n)
  IN  /\ rx' = [rx EXCEPT ![p] = <<>>]
      /\ IF e.left - n < MPS
         THEN Complete(p, content)
         ELSE UpdateHead(p, [e EXCEPT !.left = @ - n, !.data = content])

(* The buffers queued on p. *)
Held(p) == {queue[p][i].buf : i \in 1 .. Len(queue[p])}

(* A message for p waits in the queue. *)
Pending(p) == \E i \in 1 .. Len(msgq) : msgq[i] = p

-----------------------------------------------------------------------------
(* API calls.  `dst' is the pipe whose queue receives the buffer, Ctl for   *)
(* endpoint 0.                                                             *)

PutBuf(p, b) ==
  \E n \in (IF p \in Out THEN RoomSizes ELSE Lengths) :
    queue' = [queue EXCEPT ![p] = Append(@, [buf |-> b, left |-> n, data |-> <<>>])]

Renamed(p) == p \in Out /\ outNum # 0 /\ Idx[p] = outNum

(* The endpoint ep_out_num_new names: the reset interrupt makes it 0.       *)
NewDst == IF outNum # 0 THEN CHOOSE q \in Out : Idx[q] = NewOutNum ELSE Ctl

(* The common case: the test of line 423 fails and the buffer stays.        *)
Enqueue(p, b) ==
  /\ ApiMayStart /\ enabled[p] /\ b \notin owned /\ ~Renamed(p)
  /\ PutBuf(p, b)
  /\ owned' = owned \cup {b}
  /\ api' = [pc |-> "put", ep |-> p, dst |-> p]
  /\ UNCHANGED <<msgq, hand, isr, statVars, irqVars, hwVars, histVars>>

(* OUT transfers for ep_out_num are moved to ep_out_num_new, in steps that  *)
(* no lock holds together: the test (423), the first read of the new number *)
(* and the put (424, 425), the second read (426).  Which buffer the call    *)
(* carries shows from the put on.                                           *)
EnqueueTest(p) ==
  /\ ApiMayStart /\ enabled[p] /\ owned # Buf /\ Renamed(p)
  /\ api' = [pc |-> "moved", ep |-> p, dst |-> p]
  /\ UNCHANGED <<msgq, hand, isr, bufVars, statVars, irqVars, hwVars, histVars>>

EnqueueMove(b) ==
  /\ ThreadRuns /\ api.pc = "moved" /\ b \notin owned
  /\ IF NewDst = Ctl
     THEN astray' = astray \cup {b} /\ UNCHANGED queue
     ELSE PutBuf(NewDst, b) /\ UNCHANGED astray
  /\ owned' = owned \cup {b}
  /\ api' = [api EXCEPT !.pc = "placed", !.dst = NewDst]
  /\ UNCHANGED <<msgq, hand, isr, enabled, halted, outNum, cut, irqVars, hwVars, histVars>>

(* Mutant: the message keeps the endpoint the class addressed.              *)
EnqueueNameKeep ==
  /\ ThreadRuns /\ api.pc = "placed"
  /\ api' = [api EXCEPT !.pc = "put", !.dst = api.ep]
  /\ UNCHANGED <<msgq, hand, isr, bufVars, statVars, irqVars, hwVars, histVars>>

EnqueueName ==
  /\ ThreadRuns /\ api.pc = "placed"
  /\ api' = [api EXCEPT !.pc = "put", !.dst = NewDst]
  /\ UNCHANGED <<msgq, hand, isr, bufVars, statVars, irqVars, hwVars, histVars>>

Mark(p, why) == missed' = [q \in Pipes |-> IF q = p THEN why ELSE missed[q]]

(* A full queue is purged, and the new message is lost with the old ones. *)
SendMsg(p) ==
  IF Len(msgq) < MsgQSize
  THEN /\ msgq' = Append(msgq, p)
       /\ Mark(p, "no")
  ELSE /\ msgq' = <<>>
       /\ missed' = [q \in Pipes |-> IF q = p \/ Pending(q) THEN "purged"
                                     ELSE missed[q]]

(* The halt state read is that of the endpoint addressed, the message is    *)
(* for the one named last.  The control endpoint may be halted or not.      *)
EnqueueNotify ==
  /\ ThreadRuns /\ api.pc = "put"
  /\ \/ /\ api.ep # Ctl => halted[api.ep]
        /\ Mark(api.dst, "halted")
        /\ UNCHANGED msgq
     \/ /\ api.ep # Ctl => ~halted[api.ep]
        /\ SendMsg(api.dst)
  /\ api' = NoApi
  /\ UNCHANGED <<hand, isr, bufVars, statVars, irqVars, hwVars,
                 sent, got, stranded>>

(* An enqueue on the control IN endpoint, here for its message only.  In a  *)
(* configuration descriptor _get_out_pipe_num finds an OUT endpoint n and   *)
(* rewrites it to endpoint 3.                                               *)
EnqueueCtl ==
  /\ ApiMayStart
  /\ \/ UNCHANGED outNum
     \/ /\ outNum' \in {Idx[q] : q \in Out}
        /\ \E q \in Out : Idx[q] = NewOutNum
  /\ api' = [pc |-> "put", ep |-> Ctl, dst |-> Ctl]
  /\ UNCHANGED <<msgq, hand, isr, bufVars, enabled, halted, astray, cut, irqVars, hwVars,
                 histVars>>

(* All buffers of the pipe leave in one event, with -ECONNABORTED; what    *)
(* they hold already goes back to the class too.                           *)
Dequeue(p) ==
  /\ ApiMayStart /\ queue[p] # <<>>
  /\ owned' = owned \ Held(p)
  /\ got' = IF p \in Out THEN [got EXCEPT ![p] = @ \o Head(queue[p]).data]
                         ELSE got
  /\ queue' = [queue EXCEPT ![p] = <<>>]
  /\ UNCHANGED <<thrVars, statVars, irqVars, hwVars,
                 sent, missed, stranded>>

EpSetHalt(p, isHalt) ==
  /\ ApiMayStart /\ enabled[p]
  /\ halted' = [halted EXCEPT ![p] = isHalt]
  /\ stall' = [stall EXCEPT ![Idx[p]] = isHalt]
  /\ UNCHANGED <<thrVars, bufVars, enabled, renVars, irqVars, epEn, rx, tx,
                 histVars>>

SetHalt(p)   == EpSetHalt(p, TRUE)
ClearHalt(p) == EpSetHalt(p, FALSE)

(* A packet is stranded when nothing will ever look at its FIFO again. *)
Unnoticed(p) == p \in Out /\ rx[p] # <<>> /\ ~sf'[p] /\ ~flag'[p]
MarkStranded(p) ==
  stranded' = IF Unnoticed(p) THEN [stranded EXCEPT ![p] = TRUE] ELSE stranded

(* udc_ep_enable_internal resets the halt state and calls the driver, which *)
(* clears data_size, then the status flag, opens the interrupt mask, and    *)
(* last clears the stall bit and sets EPnEN.                                *)
EnableBegin(p) ==
  /\ ApiMayStart /\ ~enabled[p]
  /\ halted' = [halted EXCEPT ![p] = FALSE]
  /\ flag' = [flag EXCEPT ![p] = FALSE]
  /\ sf' = sf
  /\ MarkStranded(p)
  /\ api' = [pc |-> "enable", ep |-> p, dst |-> p]
  /\ UNCHANGED <<msgq, hand, isr, bufVars, enabled, renVars, inten, hwVars,
                 sent, got, missed>>

EnableIrq ==
  /\ ThreadRuns /\ api.pc = "enable"
  /\ sf' = [sf EXCEPT ![api.ep] = FALSE]
  /\ inten' = [inten EXCEPT ![api.ep] = TRUE]
  /\ flag' = flag
  /\ MarkStranded(api.ep)
  /\ api' = [api EXCEPT !.pc = "enabled"]
  /\ UNCHANGED <<msgq, hand, isr, bufVars, statVars, hwVars, sent, got, missed>>

EnableEnd ==
  /\ ThreadRuns /\ api.pc = "enabled"
  /\ stall' = [stall EXCEPT ![Idx[api.ep]] = FALSE]
  /\ epEn' = [epEn EXCEPT ![Idx[api.ep]] = TRUE]
  /\ enabled' = [enabled EXCEPT ![api.ep] = TRUE]
  /\ api' = NoApi
  /\ UNCHANGED <<msgq, hand, isr, bufVars, halted, renVars, irqVars, rx, tx,
                 histVars>>

(* EPnEN goes first, for both directions of the index. *)
DisableBegin(p) ==
  /\ ApiMayStart /\ enabled[p] /\ Disables
  /\ epEn' = [epEn EXCEPT ![Idx[p]] = FALSE]
  /\ api' = [pc |-> "disable", ep |-> p, dst |-> p]
  /\ UNCHANGED <<msgq, hand, isr, bufVars, statVars, irqVars, stall, rx, tx,
                 histVars>>

DisableFlag ==
  /\ ThreadRuns /\ api.pc = "disable"
  /\ flag' = [flag EXCEPT ![api.ep] = FALSE]
  /\ sf' = sf
  /\ MarkStranded(api.ep)
  /\ api' = [api EXCEPT !.pc = "disabled"]
  /\ UNCHANGED <<msgq, hand, isr, bufVars, statVars, inten, hwVars,
                 sent, got, missed>>

DisableEnd ==
  /\ ThreadRuns /\ api.pc = "disabled"
  /\ inten' = [inten EXCEPT ![api.ep] = FALSE]
  /\ sf' = [sf EXCEPT ![api.ep] = FALSE]
  /\ flag' = flag
  /\ MarkStranded(api.ep)
  /\ enabled' = [enabled EXCEPT ![api.ep] = FALSE]
  /\ api' = NoApi
  /\ UNCHANGED <<msgq, hand, isr, bufVars, halted, renVars, hwVars,
                 sent, got, missed>>

(* udc_ep_dequeue of endpoint 0. *)
DequeueCtl ==
  /\ ApiMayStart /\ astray # {}
  /\ owned' = owned \ astray
  /\ astray' = {}
  /\ UNCHANGED <<thrVars, queue, enabled, halted, outNum, cut, irqVars, hwVars, histVars>>

-----------------------------------------------------------------------------
(* The driver thread. *)

MsgGet ==
  /\ ThreadRuns /\ hand.pc = "get" /\ msgq # <<>>
  /\ hand' = [pc |-> "lock", msg |-> Head(msgq)]
  /\ msgq' = Tail(msgq)
  /\ UNCHANGED <<api, isr, bufVars, statVars, irqVars, hwVars, histVars>>

MsgLock ==
  /\ ThreadRuns /\ hand.pc = "lock" /\ api.pc = "idle"
  /\ hand' = [hand EXCEPT !.pc = "run"]
  /\ UNCHANGED <<msgq, api, isr, bufVars, statVars, irqVars, hwVars, histVars>>

(* A SETUP message, or one about the control endpoint: nothing here. *)
HandleCtl ==
  /\ ThreadRuns /\ hand.pc = "run" /\ hand.msg = Ctl
  /\ hand' = NoMsg
  /\ UNCHANGED <<msgq, api, isr, bufVars, statVars, irqVars, hwVars, histVars>>

(* Mutants: data_size_out reset on the early exit too; and never reset. *)
XferOutResetAlways ==
  LET p == hand.msg IN
  /\ ThreadRuns /\ hand.pc = "run" /\ p \in Out
  /\ IF queue[p] # <<>> /\ flag[p]
     THEN ReadPacket(p)
     ELSE UNCHANGED <<bufVars, rx, got>>
  /\ flag' = [flag EXCEPT ![p] = FALSE]
  /\ hand' = NoMsg
  /\ UNCHANGED <<msgq, api, isr, statVars, inten, sf, epEn, stall, tx,
                 sent, missed, stranded>>

XferOutNoReset ==
  LET p == hand.msg IN
  /\ ThreadRuns /\ hand.pc = "run" /\ p \in Out
  /\ IF queue[p] # <<>> /\ flag[p]
     THEN ReadPacket(p)
     ELSE UNCHANGED <<bufVars, rx, got>>
  /\ hand' = NoMsg
  /\ UNCHANGED <<msgq, api, isr, statVars, irqVars, epEn, stall, tx,
                 sent, missed, stranded>>

(* _e967_usbd_xfer_out, with interrupts locked throughout. *)
XferOut ==
  LET p == hand.msg IN
  /\ ThreadRuns /\ hand.pc = "run" /\ p \in Out
  /\ IF queue[p] # <<>> /\ flag[p]
     THEN /\ ReadPacket(p)
          /\ flag' = [flag EXCEPT ![p] = FALSE]
     ELSE UNCHANGED <<bufVars, rx, got, flag>>
  /\ hand' = NoMsg
  /\ UNCHANGED <<msgq, api, isr, statVars, inten, sf, epEn, stall, tx,
                 sent, missed, stranded>>

(* _e967_usbd_xfer_in, with interrupts open: mask, clear, unmask. *)
XferInMask ==
  LET p == hand.msg IN
  /\ ThreadRuns /\ hand.pc = "run" /\ p \in In
  /\ IF flag[p]
     THEN /\ inten' = [inten EXCEPT ![p] = FALSE]
          /\ hand' = [hand EXCEPT !.pc = "masked"]
     ELSE /\ hand' = NoMsg
          /\ UNCHANGED inten
  /\ UNCHANGED <<msgq, api, isr, bufVars, statVars, flag, sf, hwVars, histVars>>

(* Mutants: data_size_in is not reset; and the mask is not reopened. *)
XferInNoClear ==
  /\ ThreadRuns /\ hand.pc = "masked"
  /\ hand' = [hand EXCEPT !.pc = "cleared"]
  /\ UNCHANGED <<msgq, api, isr, bufVars, statVars, irqVars, hwVars, histVars>>

XferInNoUnmask ==
  /\ ThreadRuns /\ hand.pc = "cleared"
  /\ hand' = NoMsg
  /\ UNCHANGED <<msgq, api, isr, bufVars, statVars, irqVars, hwVars, histVars>>

XferInClear ==
  /\ ThreadRuns /\ hand.pc = "masked"
  /\ flag' = [flag EXCEPT ![hand.msg] = FALSE]
  /\ hand' = [hand EXCEPT !.pc = "cleared"]
  /\ UNCHANGED <<msgq, api, isr, bufVars, statVars, inten, sf, hwVars, histVars>>

XferInUnmask ==
  /\ ThreadRuns /\ hand.pc = "cleared"
  /\ inten' = [inten EXCEPT ![hand.msg] = TRUE]
  /\ hand' = NoMsg
  /\ UNCHANGED <<msgq, api, isr, bufVars, statVars, flag, sf, hwVars, histVars>>

-----------------------------------------------------------------------------
(* Interrupts.  A line is up while some flag of its direction is set and    *)
(* unmasked; the handler then serves the LOWEST index whose flag is set,    *)
(* masked or not, one per interrupt.                                        *)

Served(D, p) ==
  /\ \E q \in D : sf[q] /\ inten[q]
  /\ p \in D /\ sf[p]
  /\ \A q \in D : sf[q] => Idx[p] <= Idx[q]

(* _e967_proc_epx_h2d up to its early returns: the flag is cleared first. *)
H2dEnter(p) ==
  /\ isr.pc = "none" /\ Served(Out, p)
  /\ sf' = [sf EXCEPT ![p] = FALSE]
  /\ IF ~flag[p] /\ queue[p] # <<>>
     THEN /\ isr' = [pc |-> "h2d", ep |-> p]
          /\ UNCHANGED flag
     ELSE /\ flag' = [flag EXCEPT ![p] = TRUE]
          /\ UNCHANGED isr
  /\ UNCHANGED <<msgq, hand, api, bufVars, statVars, inten, hwVars, histVars>>

H2dRead ==
  /\ isr.pc = "h2d"
  /\ ReadPacket(isr.ep)
  /\ isr' = NoIsr
  /\ UNCHANGED <<msgq, hand, api, statVars, irqVars, epEn, stall, tx,
                 sent, missed, stranded>>

(* Mutant: the length is not limited to EP_MPS.                             *)
D2hEnterWhole(p) ==
  /\ isr.pc = "none" /\ Served(In, p)
  /\ isr' = [pc |-> "d2h", ep |-> p]
  /\ IF flag[p]
     THEN UNCHANGED <<flag, inten, bufVars, tx, got>>
     ELSE IF queue[p] = <<>>
     THEN /\ flag' = [flag EXCEPT ![p] = TRUE]
          /\ inten' = [inten EXCEPT ![p] = FALSE]
          /\ UNCHANGED <<bufVars, tx, got>>
     ELSE /\ tx' = [tx EXCEPT ![p] = Append(@, Head(queue[p]).left)]
          /\ Complete(p, <<>>)
          /\ UNCHANGED <<flag, inten>>
  /\ UNCHANGED <<msgq, hand, api, statVars, sf, epEn, stall, rx,
                 sent, missed, stranded>>

(* _e967_proc_epx_d2h up to _exit; H2D and D2H differ in that the IN status *)
(* flag is cleared last.                                                    *)
D2hEnter(p) ==
  /\ isr.pc = "none" /\ Served(In, p)
  /\ isr' = [pc |-> "d2h", ep |-> p]
  /\ IF flag[p]
     THEN UNCHANGED <<flag, inten, bufVars, tx, got>>
     ELSE IF queue[p] = <<>>
     THEN /\ flag' = [flag EXCEPT ![p] = TRUE]
          /\ inten' = [inten EXCEPT ![p] = FALSE]
          /\ UNCHANGED <<bufVars, tx, got>>
     ELSE LET e == Head(queue[p])
              n == Lesser(e.left, MPS)
          IN  /\ tx' = [tx EXCEPT ![p] = Append(@, n)]
              /\ IF e.left = n THEN Complete(p, <<>>)
                 ELSE UpdateHead(p, [e EXCEPT !.left = @ - n])
              /\ UNCHANGED <<flag, inten>>
  /\ UNCHANGED <<msgq, hand, api, statVars, sf, epEn, stall, rx,
                 sent, missed, stranded>>

(* Mutant: the status flag stays. *)
D2hExitNoClear ==
  /\ isr.pc = "d2h"
  /\ isr' = NoIsr
  /\ UNCHANGED <<msgq, hand, api, bufVars, statVars, irqVars, hwVars, histVars>>

D2hExit ==
  /\ isr.pc = "d2h"
  /\ sf' = [sf EXCEPT ![isr.ep] = FALSE]
  /\ isr' = NoIsr
  /\ UNCHANGED <<msgq, hand, api, bufVars, statVars, flag, inten, hwVars,
                 histVars>>

(* Setup, suspend and resume handlers queue a SETUP message, or lose it when *)
(* the queue is full; none of them purges.                                   *)
SetupMsgIsr ==
  /\ isr.pc = "none" /\ Len(msgq) < MsgQSize
  /\ msgq' = Append(msgq, Ctl)
  /\ UNCHANGED <<hand, api, isr, bufVars, statVars, irqVars, hwVars, histVars>>

(* The reset handler undoes the renaming.  What it does to an enqueue that  *)
(* it interrupts is noted: before the first read of the new number the      *)
(* buffer will go to endpoint 0, before the second the message will.        *)
ResetIsr ==
  /\ isr.pc = "none" /\ outNum # 0
  /\ outNum' = 0
  /\ cut' = (cut \/ api.pc = "moved")
  /\ IF api.pc = "placed" THEN Mark(api.dst, "reset") ELSE UNCHANGED missed
  /\ UNCHANGED <<thrVars, bufVars, enabled, halted, astray, irqVars, hwVars,
                 sent, got, stranded>>

-----------------------------------------------------------------------------
(* The host and the controller.  A FIFO holds one packet; an OUT packet     *)
(* that finds it full, or an endpoint disabled or stalled, is refused; an   *)
(* IN token that finds it empty raises the status flag.                     *)

Answers(p) == epEn[Idx[p]] /\ ~stall[Idx[p]]

HostOut(p) ==
  /\ Answers(p) /\ rx[p] = <<>> /\ sent[p] < MaxPkt
  /\ \E l \in 0 .. MPS : rx' = [rx EXCEPT ![p] = <<[n |-> sent[p] + 1, len |-> l]>>]
  /\ sent' = [sent EXCEPT ![p] = @ + 1]
  /\ sf' = [sf EXCEPT ![p] = TRUE]
  /\ UNCHANGED <<thrVars, bufVars, statVars, flag, inten, epEn, stall, tx,
                 got, missed, stranded>>

HostIn(p) ==
  /\ Answers(p)
  /\ IF tx[p] # <<>>
     THEN tx' = [tx EXCEPT ![p] = Tail(@)] /\ UNCHANGED sf
     ELSE sf' = [sf EXCEPT ![p] = TRUE] /\ UNCHANGED tx
  /\ UNCHANGED <<thrVars, bufVars, statVars, flag, inten, epEn, stall, rx,
                 histVars>>

-----------------------------------------------------------------------------
ApiCall ==
  \/ \E p \in Pipes : \/ \E b \in Buf : Enqueue(p, b)
                      \/ EnqueueTest(p) \/ Dequeue(p) \/ SetHalt(p) \/ ClearHalt(p)
                      \/ EnableBegin(p) \/ DisableBegin(p)
  \/ EnqueueCtl \/ DequeueCtl

ApiStep == (\E b \in Buf : EnqueueMove(b)) \/ EnqueueName \/ EnqueueNotify \/ EnableIrq \/ EnableEnd \/ DisableFlag \/ DisableEnd

Handler ==
  MsgGet \/ MsgLock \/ HandleCtl \/ XferOut \/ XferInMask \/ XferInClear
    \/ XferInUnmask

Interrupt ==
  \/ \E p \in Out : H2dEnter(p)
  \/ \E p \in In : D2hEnter(p)
  \/ H2dRead \/ D2hExit \/ SetupMsgIsr \/ ResetIsr

Host == (\E p \in Out : HostOut(p)) \/ (\E p \in In : HostIn(p))

Next == ApiCall \/ ApiStep \/ Handler \/ Interrupt \/ Host

Spec == Init /\ [][Next]_vars

(* Fairness.  Started work runs on: an interrupt handler and an API call    *)
(* always get the processor in the end, and the driver thread is a          *)
(* cooperative one.  Strong fairness where an interrupt, the mutex or a     *)
(* lower index may intervene again and again: USB frames leave the          *)
(* processor free most of the time, and k_mutex queues its waiters.         *)
Fairness ==
  /\ \A p \in Out : SF_vars(H2dEnter(p))
  /\ \A p \in In  : SF_vars(D2hEnter(p))
  /\ WF_vars(H2dRead) /\ WF_vars(D2hExit)
  /\ SF_vars(ApiStep)
  /\ SF_vars(MsgGet) /\ SF_vars(MsgLock)
  /\ SF_vars(HandleCtl \/ XferOut \/ XferInMask \/ XferInClear \/ XferInUnmask)
  /\ \A p \in In : SF_vars(HostIn(p))

FairSpec == Spec /\ Fairness

-----------------------------------------------------------------------------
(* Types. *)

Packet == [n : Nat, len : 0 .. MPS]
Entry  == [buf : Buf, left : Nat, data : Seq(Nat)]

TypeOK ==
  /\ msgq \in Seq(Pipes \cup {Ctl}) /\ Len(msgq) <= MsgQSize
  /\ hand \in [pc : {"get", "lock", "run", "masked", "cleared"},
               msg : Pipes \cup {Ctl}]
  /\ api \in [pc : {"idle", "moved", "placed", "put",
                    "enable", "enabled", "disable", "disabled"},
              ep : Pipes \cup {Ctl}, dst : Pipes \cup {Ctl}]
  /\ isr \in [pc : {"none", "h2d", "d2h"}, ep : Pipes \cup {Ctl}]
  /\ queue \in [Pipes -> Seq(Entry)]
  /\ owned \subseteq Buf
  /\ enabled \in [Pipes -> BOOLEAN]
  /\ halted \in [Pipes -> BOOLEAN]
  /\ outNum \in {0} \cup Indexes /\ astray \subseteq Buf /\ cut \in BOOLEAN
  /\ flag \in [Pipes -> BOOLEAN]
  /\ inten \in [Pipes -> BOOLEAN]
  /\ sf \in [Pipes -> BOOLEAN]
  /\ epEn \in [Indexes -> BOOLEAN]
  /\ stall \in [Indexes -> BOOLEAN]
  /\ rx \in [Out -> Seq(Packet)]
  /\ tx \in [In -> Seq(0 .. MPS)]
  /\ sent \in [Out -> 0 .. MaxPkt]
  /\ got \in [Out -> Seq(Nat)]
  /\ missed \in [Pipes -> {"no", "purged", "halted", "reset"}]
  /\ stranded \in [Out -> BOOLEAN]

(* Safety. *)

Notified(p) ==
  Pending(p) \/ hand.msg = p \/ (api.pc \in {"placed", "put"} /\ api.dst = p)

(* No lost wakeup.  A pipe that waits for a buffer (data_size_in or         *)
(* data_size_out is set, so its interrupt no longer moves data) and has     *)
(* one is about to be served by the driver thread, except for three causes: *)
(* its message was purged from a full queue, the halt check of ep_enqueue   *)
(* withheld it, or a bus reset came between the put of a moved buffer and   *)
(* the second read of ep_out_num_new, so that the message names endpoint 0. *)
NoLostWakeup ==
  \A p \in Pipes : flag[p] /\ queue[p] # <<>> => Notified(p) \/ missed[p] # "no"

(* The mask of an IN pipe and its data_size_in, written by the interrupt,   *)
(* by _e967_usbd_xfer_in and by enable/disable, never drift apart: an       *)
(* enabled pipe whose interrupt is masked is marked as waiting, so that     *)
(* the next message reopens it.                                             *)
MaskedMeansWaiting ==
  \A p \in In : enabled[p] /\ ~inten[p] =>
                  flag[p] \/ hand.msg = p \/ api.ep = p

(* An OUT packet in the FIFO always has somebody to read it: its status     *)
(* flag, data_size_out, or the interrupt handler between the two.  Only     *)
(* ep_enable and ep_disable, which clear both, can strand it.               *)
NoStrandedPacket ==
  \A p \in Out : rx[p] # <<>> =>
    sf[p] \/ flag[p] \/ (isr.pc = "h2d" /\ isr.ep = p) \/ stranded[p]

(* Every buffer the driver accepted and has not completed is in exactly one *)
(* place of one queue, across enqueue, the move to endpoint 3, completion   *)
(* by the thread or an interrupt, and dequeue.  That is the queue of a data *)
(* endpoint, where transfers are served, unless a bus reset came between    *)
(* the test of ep_out_num and the first read of ep_out_num_new; then the    *)
(* buffer lies on the queue of endpoint 0, which nobody serves.             *)
BufferConserved ==
  /\ owned = astray \cup UNION {Held(p) : p \in Pipes}
  /\ \A p \in Pipes : astray \cap Held(p) = {}
  /\ \A p, q \in Pipes :
       \A i \in 1 .. Len(queue[p]), j \in 1 .. Len(queue[q]) :
         queue[p][i].buf = queue[q][j].buf => p = q /\ i = j
  /\ astray # {} => cut

Partial(p) == IF queue[p] = <<>> THEN <<>> ELSE Head(queue[p]).data
InFifo(p)  == IF rx[p] = <<>> THEN <<>> ELSE <<Head(rx[p]).n>>

(* No OUT packet the controller acknowledged is lost, duplicated or         *)
(* reordered, whether the interrupt or the thread reads it, and across      *)
(* completion and dequeue: what the class got, what the first buffer holds  *)
(* and what is in the FIFO are together what the host sent.                 *)
OutInOrder ==
  \A p \in Out : got[p] \o Partial(p) \o InFifo(p) = [i \in 1 .. sent[p] |-> i]

(* The driver implements the abstract pipe: a packet is inside the device   *)
(* from its acknowledgement until udc_submit_ep_event hands its buffer to   *)
(* the class, and no step but a delivery takes packets out, oldest first.   *)
Pipe == INSTANCE PacketPipe WITH
          Pipe <- Out, accepted <- sent, delivered <- got,
          inside <- [p \in Out |-> Partial(p) \o InFifo(p)]

ImplementsPipe == Pipe!Spec

(* A buffer in an OUT queue has room for a full packet, so that a packet is *)
(* never cut short by `if (len > data_len)': a buffer with less room is     *)
(* completed at once.                                                       *)
RoomForPacket ==
  \A p \in Out : \A i \in 1 .. Len(queue[p]) : queue[p][i].left >= MPS

(* The IN interrupt never loads a FIFO the host has not emptied: the status *)
(* flag it is served for is cleared after the load, not before.             *)
FifoNotOverrun == \A p \in In : Len(tx[p]) <= 1

-----------------------------------------------------------------------------
(* Liveness, under FairSpec. *)

(* A packet that waits in the FIFO of an OUT pipe with a buffer is read, or *)
(* the class takes its buffers back, unless a message was dropped or the    *)
(* packet was stranded by enable/disable or the pipe is disabled.           *)
OutDelivered ==
  \A p \in Out :
    (rx[p] # <<>> /\ queue[p] # <<>>) ~>
      (rx[p] = <<>> \/ queue[p] = <<>> \/ missed[p] # "no"
         \/ stranded[p] \/ ~enabled[p])

(* The first buffer of an IN pipe is sent to the end while the host polls,  *)
(* unless a message was dropped or the pipe is disabled or stalled.         *)
HeadIs(p, b) == queue[p] # <<>> /\ Head(queue[p]).buf = b
InDelivered ==
  \A p \in In, b \in Buf :
    HeadIs(p, b) ~> (~HeadIs(p, b) \/ missed[p] # "no" \/ ~enabled[p] \/ ~Answers(p))

(* Claims of the comments in the code that it does not keep: see findings. *)

(* "If there are requests in the endpoint queue, the next transfer should   *)
(* be prepared": once a halt is cleared, a packet that waits in the FIFO    *)
(* and a queued buffer meet, unless something else intervenes.              *)
ClearHaltPrepares ==
  \A p \in Out :
    [](rx[p] # <<>> /\ queue[p] # <<>> /\ enabled[p] /\ ~halted[p] =>
         <>(rx[p] = <<>> \/ queue[p] = <<>> \/ halted[p] \/ stranded[p]
              \/ ~enabled[p] \/ missed[p] = "purged"))

=============================================================================
