------------------------------- MODULE UdcControl -------------------------------
(***************************************************************************)
(* The control endpoint of the ELAN E967 USB device controller driver,     *)
(* drivers/usb/udc/udc_elan_elandev.c.                                     *)
(*                                                                         *)
(* The controller answers SET_ADDRESS and SET_CONFIGURATION by itself, so  *)
(* that the driver has to invent them for the USB stack: the first         *)
(* GET_DESCRIPTOR(device) makes it submit a SET_ADDRESS of its own, the    *)
(* packet after GET_DESCRIPTOR(configuration) a SET_CONFIGURATION, a bus   *)
(* suspend or resume a SET_FEATURE(remote wakeup).  The status stages of   *)
(* these must be taken off the endpoint's queue before the host polls it.  *)
(*                                                                         *)
(* Actors: the host (external), the interrupt handlers, the driver thread  *)
(* e967_usbd_msg_handler (cooperative: the stack does not run while it     *)
(* holds the mutex of the UDC core), and the USB stack (external), which   *)
(* handles the submitted events one by one.  A packet is the number of the *)
(* request; setup_pkg is copied in two halves, because an interrupt may    *)
(* come between.  `gaps' names the irregular things that have happened.    *)
(***************************************************************************)
EXTENDS Naturals, Sequences

CONSTANTS
  MsgQSize,    (* CONFIG_UDC_E967_MSG_QUEUE_SIZE                            *)
  OutPackets,  (* packets in the data stage of a control write              *)
  InPackets,   (* bound: packets in the data stage of a control read        *)
  MaxReqs,     (* bound: SETUP packets, the driver's own features included  *)
  MaxOther,    (* bound: messages of data endpoints that share the queue    *)
  Faults       (* irregular things the host and the stack may do            *)

Reads   == {"dev", "conf", "in"}         \* GET_DESCRIPTOR, and other reads
Kinds   == Reads \cup {"set", "out"}     \* without data; with OUT data
Causes  == {"abort", "reset", "stall", "suspend"}

ASSUME ControlAssumption ==
  /\ MsgQSize \in Nat \ {0} /\ OutPackets \in Nat \ {0} /\ InPackets \in Nat \ {0}
  /\ MaxReqs \in Nat /\ MaxOther \in Nat
  /\ Faults \subseteq Causes

VARIABLES
  reqs,       (* the kind of every SETUP packet so far                      *)
  pkg,        (* priv->setup_pkg: the number of the packet, 0 for none      *)
  cur, proc,  (* priv->ep0_cur_ref and ep0_proc_ref                         *)
  addressed,  (* priv->is_addressed_state                                   *)
  configured, (* priv->is_configured_state                                  *)
  wakeup,     (* priv->is_proc_remote_wakeup                                *)
  inSize,     (* priv->ep0_in_size: the host polled and found nothing       *)
  setupEn,    (* SETUPINTEN                                                 *)
  halted,     (* stat.halted of the control endpoint, and STALL             *)
  queue,      (* the queue of the control IN endpoint                       *)
  suspended,  (* what the driver told the stack with udc_set_suspended      *)
  msgq, hand, (* the message queue; the driver thread                       *)
  evq, stack, (* events submitted to the stack; the state the stack is in   *)
  given,      (* the packet the stack was given last, as <<low, high>> half *)
  host, bus,  (* the request the host has open; whether the bus sleeps      *)
  outFlag, outFrom,   (* EP0OUTINTSF; the request whose data the FIFO holds *)
  others,     (* messages of data endpoints so far                          *)
  taken,      (* history: status buffers the driver thread completed        *)
  gaps        (* history: the irregular things that have happened           *)

pktVars   == <<reqs, pkg, cur, proc>>
stVars    == <<addressed, configured, wakeup, setupEn, suspended>>
epVars    == <<queue, inSize, halted>>
thrVars   == <<msgq, hand, others>>
stackVars == <<evq, stack, given>>
hostVars  == <<host, bus, outFlag, outFrom>>
histVars  == <<taken, gaps>>
vars      == <<pktVars, stVars, epVars, thrVars, stackVars, hostVars, histVars>>

NoMsg  == [type |-> "none", ref |-> 0]
Idle   == [pc |-> "get", msg |-> NoMsg, lo |-> 0, hi |-> 0, room |-> 0, from |-> {}]
NoHost == [n |-> 0, open |-> FALSE, todo |-> 0, got |-> {}]

(* Between two requests: a fresh device, or one the host has enumerated.   *)
Init ==
  /\ \/ addressed = 0 /\ configured = 0 /\ stack = "default"
     \/ addressed = 2 /\ configured = 3 /\ stack = "configured"
  /\ reqs = <<>> /\ pkg = 0 /\ cur = 0 /\ proc = 0
  /\ wakeup = 0 /\ setupEn = TRUE /\ suspended = FALSE
  /\ queue = <<>> /\ inSize = FALSE /\ halted = FALSE
  /\ msgq = <<>> /\ hand = Idle /\ others = 0
  /\ evq = <<>> /\ given = <<0, 0>>
  /\ host = NoHost /\ bus = "active" /\ outFlag = FALSE /\ outFrom = 0
  /\ taken = {} /\ gaps = {}

-----------------------------------------------------------------------------
(* Messages, events, packets.                                              *)

QueueFull == Len(msgq) = MsgQSize
SetupMsg(ref) == [type |-> "setup", ref |-> ref]

(* The interrupt handlers put a SETUP message, and drop it when there is   *)
(* no room for it.                                                         *)
PutSetup(ref) == msgq' = IF QueueFull THEN msgq ELSE Append(msgq, SetupMsg(ref))

(* _udc_e967_send_msg: a full queue is purged and the message is lost.     *)
SendMsg(type) ==
  /\ msgq' = IF QueueFull THEN <<>> ELSE Append(msgq, [type |-> type, ref |-> 0])
  /\ gaps' = IF QueueFull THEN gaps \cup {"lost"} ELSE gaps

(* udc_submit_ep_event and udc_submit_event.                               *)
Submit(e) == evq' = Append(evq, e)
SetupEvent(src, lo, hi, from) == [src |-> src, lo |-> lo, hi |-> hi, from |-> from]
Notice(src) == SetupEvent(src, 0, 0, {})

KindOf(n) == IF n \in DOMAIN reqs THEN reqs[n] ELSE "set"

(* udc_ctrl_update_stage: the first half of a packet has the direction,    *)
(* the second the length.                                                  *)
StageOf(lo, hi) ==
  CASE KindOf(hi) \in {"set", "feature"} -> "status"
    [] KindOf(hi) \notin {"set", "feature"} /\ KindOf(lo) \in Reads -> "in"
    [] OTHER -> "out"

Source(n) == IF KindOf(n) = "feature" THEN "feature" ELSE "host"

-----------------------------------------------------------------------------
(* The host and the interrupt handlers.  A handler is one step: it keeps   *)
(* every thread out, and all of them have the same priority.               *)

(* Bound: one abort, reset or stall in a behaviour, or messages of others; *)
(* nothing irregular is started after it.                                  *)
May(cause) == cause \in Faults /\ gaps \cap Causes = {} /\ others = 0

(* An older packet, or a request of the driver's own, is not through yet.  *)
Pending == \/ wakeup > 0
           \/ hand.msg.type = "setup" /\ hand.pc # "get"
           \/ \E i \in DOMAIN msgq : msgq[i].type = "setup"

(* Mutants: setup_pkg is kept while a SETUP message waits; the buffer of   *)
(* the last request is left on the queue.                                  *)
SetupIsrKeep(k) ==
  LET n == Len(reqs) + 1 IN
  /\ reqs' = Append(reqs, k) /\ cur' = cur + 1
  /\ pkg' = IF \E i \in DOMAIN msgq : msgq[i].type = "setup" THEN pkg ELSE n
  /\ inSize' = FALSE
  /\ queue' = IF queue = <<>> THEN <<>> ELSE Tail(queue)
  /\ PutSetup(cur + 1)
SetupIsrLeave(k) ==
  /\ reqs' = Append(reqs, k) /\ cur' = cur + 1 /\ pkg' = Len(reqs) + 1
  /\ inSize' = FALSE
  /\ UNCHANGED queue
  /\ PutSetup(cur + 1)

(* e967_usb_setup_isr: releases the first buffer of the control IN queue,  *)
(* reads the packet and tells the driver thread.                           *)
SetupIsr(k) ==
  /\ reqs' = Append(reqs, k) /\ cur' = cur + 1 /\ pkg' = Len(reqs) + 1
  /\ inSize' = FALSE
  /\ queue' = IF queue = <<>> THEN <<>> ELSE Tail(queue)
  /\ PutSetup(cur + 1)

(* Bound: of the reads the host asks the one that comes next in the        *)
(* enumeration; a descriptor that has had its effect is a plain read.      *)
Asks == {"set", "out"} \cup
        (IF addressed = 0 THEN {"dev"} ELSE IF configured = 0 THEN {"conf"} ELSE {"in"})

HostSetup(k) ==
  /\ setupEn /\ bus = "active" /\ Len(reqs) < MaxReqs
  /\ host.open => May("abort")
  /\ SetupIsr(k)
  /\ host' = [n |-> Len(reqs) + 1, open |-> TRUE,
              todo |-> IF k = "out" THEN OutPackets ELSE 0, got |-> {}]
  /\ gaps' = gaps \cup (IF host.open THEN {"abort"} ELSE {})
                  \cup (IF QueueFull THEN {"lost"} ELSE {})
                  \cup (IF Pending THEN {"hurried"} ELSE {})
  /\ UNCHANGED <<proc, stVars, halted, hand, others, stackVars, bus, outFlag, outFrom, taken>>

(* The host sends a packet of its data stage, when the FIFO is free.       *)
HostData ==
  /\ host.open /\ host.todo > 0 /\ ~outFlag /\ ~halted
  /\ host' = [host EXCEPT !.todo = @ - 1]
  /\ outFlag' = TRUE /\ outFrom' = host.n
  /\ UNCHANGED <<pktVars, stVars, epVars, thrVars, stackVars, bus, histVars>>

(* The host polls the IN endpoint: _e967_proc_ep0_d2h.  With nothing to    *)
(* send it notes that the host waits; a status buffer is submitted and     *)
(* stays on the queue; a data buffer is released with its last packet.     *)
HostPoll ==
  /\ host.open /\ host.todo = 0 /\ ~halted /\ ~inSize
  /\ LET b == Head(queue) IN
     \/ /\ queue = <<>>
        /\ inSize' = TRUE
        /\ UNCHANGED <<queue, host, evq, gaps>>
     \/ /\ queue # <<>> /\ b.status
        /\ queue' = <<[b EXCEPT !.sent = TRUE]>> \o Tail(queue)
        /\ Submit(Notice("status"))
        /\ host' = [host EXCEPT !.open = FALSE, !.got = @ \cup {b.n}]
        /\ gaps' = IF b.src = "host" THEN gaps ELSE gaps \cup {"early"}
        /\ UNCHANGED inSize
     \/ /\ queue # <<>> /\ ~b.status
        /\ queue' = IF b.left = 1 THEN Tail(queue)
                    ELSE <<[b EXCEPT !.left = @ - 1]>> \o Tail(queue)
        /\ host' = [host EXCEPT !.open = b.left # 1, !.got = @ \cup {b.n}]
        /\ UNCHANGED <<inSize, evq, gaps>>
  /\ UNCHANGED <<pktVars, stVars, halted, thrVars, stack, given, bus, outFlag, outFrom, taken>>

(* A halted endpoint answers with STALL, which ends the request.           *)
HostStalled ==
  /\ host.open /\ halted
  /\ host' = [host EXCEPT !.open = FALSE]
  /\ UNCHANGED <<pktVars, stVars, epVars, thrVars, stackVars, bus, outFlag, outFrom, histVars>>

(* e967_usb_reset_isr. *)
HostReset ==
  /\ May("reset") /\ Len(reqs) < MaxReqs
  /\ cur' = 0 /\ proc' = 0 /\ addressed' = 0 /\ configured' = 0
  /\ Submit(Notice("reset"))
  /\ host' = NoHost /\ bus' = "active"
  /\ gaps' = gaps \cup {"reset"}
  /\ UNCHANGED <<reqs, pkg, wakeup, setupEn, suspended, epVars, thrVars, stack, given,
                 outFlag, outFrom, taken>>

(* _handle_set_feature_remote_wakeup, for a configured device: writes the  *)
(* driver's own packet over setup_pkg.                                     *)
Feature(w) ==
  IF configured = 3
  THEN /\ wakeup' = w /\ inSize' = FALSE
       /\ reqs' = Append(reqs, "feature") /\ pkg' = Len(reqs) + 1 /\ cur' = cur + 1
       /\ PutSetup(cur + 1)
       /\ gaps' = gaps \cup (IF QueueFull THEN {"lost"} ELSE {})
                       \cup (IF Pending THEN {"hurried"} ELSE {})
  ELSE UNCHANGED <<wakeup, inSize, reqs, pkg, cur, msgq, gaps>>

(* e967_usb_suspend_isr: a configured device hears of the suspend only     *)
(* when the status stage of the driver's own request comes back.           *)
HostSuspend ==
  /\ May("suspend") /\ bus = "active" /\ ~host.open /\ Len(reqs) + 2 <= MaxReqs
  /\ bus' = "suspended"
  /\ Feature(1)
  /\ suspended' = IF configured = 3 THEN suspended ELSE TRUE
  /\ UNCHANGED <<proc, addressed, configured, setupEn, queue, halted, hand, others,
                 stackVars, host, outFlag, outFrom, taken>>

(* e967_usb_resume_isr. *)
HostResume ==
  /\ bus = "suspended" /\ Len(reqs) < MaxReqs
  /\ bus' = "active"
  /\ suspended' = FALSE
  /\ Feature(2)
  /\ UNCHANGED <<proc, addressed, configured, setupEn, queue, halted, hand, others,
                 stackVars, host, outFlag, outFrom, taken>>

-----------------------------------------------------------------------------
(* The driver thread: e967_usbd_msg_handler.                               *)

Goto(pc) == hand' = IF pc = "get" THEN Idle ELSE [hand EXCEPT !.pc = pc]

(* k_msgq_get; the mutex is taken after it, and the stack may come between. *)
GetMsg ==
  /\ hand.pc = "get" /\ msgq # <<>>
  /\ hand' = [Idle EXCEPT !.pc = "held", !.msg = Head(msgq)]
  /\ msgq' = Tail(msgq)
  /\ UNCHANGED <<pktVars, stVars, epVars, others, stackVars, hostVars, histVars>>

OtherMsg ==
  /\ hand.pc = "held" /\ hand.msg.type = "other"
  /\ Goto("get")
  /\ UNCHANGED <<pktVars, stVars, epVars, msgq, others, stackVars, hostVars, histVars>>

(* Mutant: the state advances without the request being submitted.         *)
AddressEventUnsent ==
  /\ hand.pc = "held" /\ hand.msg.type = "setup"
  /\ IF addressed = 0 /\ KindOf(pkg) = "dev"
     THEN setupEn' = FALSE /\ Goto("addressed")
     ELSE Goto("conf") /\ UNCHANGED setupEn
  /\ UNCHANGED <<pktVars, addressed, configured, wakeup, suspended, epVars, msgq, others,
                 stackVars, hostVars, histVars>>

(* _update_address_event: the device descriptor is asked for, so that the  *)
(* address must be set already.  SETUP interrupts are masked meanwhile.    *)
AddressEvent ==
  /\ hand.pc = "held" /\ hand.msg.type = "setup"
  /\ IF addressed = 0 /\ KindOf(pkg) = "dev"
     THEN /\ setupEn' = FALSE
          /\ Submit(Notice("address"))
          /\ Goto("addressed")
     ELSE Goto("conf") /\ UNCHANGED <<setupEn, evq>>
  /\ UNCHANGED <<pktVars, addressed, configured, wakeup, suspended, epVars, msgq, others,
                 stack, given, hostVars, histVars>>

AddressDone ==
  /\ hand.pc = "addressed"
  /\ addressed' = 1 /\ setupEn' = TRUE
  /\ Goto("conf")
  /\ UNCHANGED <<pktVars, configured, wakeup, suspended, epVars, msgq, others, stackVars,
                 hostVars, histVars>>

(* _update_configured_event. *)
ConfigEvent ==
  /\ hand.pc = "conf"
  /\ \/ /\ configured = 0
        /\ configured' = IF KindOf(pkg) = "conf" THEN 1 ELSE 0
        /\ Goto("take")
        /\ UNCHANGED <<setupEn, evq>>
     \/ /\ configured = 1
        /\ setupEn' = FALSE
        /\ Submit(Notice("configure"))
        /\ Goto("configured")
        /\ UNCHANGED configured
     \/ /\ configured > 1
        /\ Goto("take")
        /\ UNCHANGED <<configured, setupEn, evq>>
  /\ UNCHANGED <<pktVars, addressed, wakeup, suspended, epVars, msgq, others, stack, given,
                 hostVars, histVars>>

ConfigDone ==
  /\ hand.pc = "configured"
  /\ configured' = 2 /\ setupEn' = TRUE
  /\ Goto("take")
  /\ UNCHANGED <<pktVars, addressed, wakeup, suspended, epVars, msgq, others, stackVars,
                 hostVars, histVars>>

(* udc_e967_msg_handler_setup: takes the reference of the message, ends a  *)
(* halt, and copies the first half of the packet.                          *)
TakeSetup ==
  /\ hand.pc = "take"
  /\ proc' = hand.msg.ref
  /\ halted' = FALSE
  /\ hand' = [hand EXCEPT !.pc = "high", !.lo = pkg]
  /\ UNCHANGED <<reqs, pkg, cur, stVars, queue, inSize, msgq, others, stackVars, hostVars, histVars>>

(* The rest of the packet; without OUT data it is submitted at once.       *)
CopyHigh ==
  /\ hand.pc = "high"
  /\ IF StageOf(hand.lo, pkg) = "out"
     THEN /\ hand' = [hand EXCEPT !.pc = "check", !.hi = pkg, !.room = OutPackets]
          /\ UNCHANGED evq
     ELSE /\ Goto("get")
          /\ Submit(SetupEvent(Source(pkg), hand.lo, pkg, {}))
  /\ UNCHANGED <<pktVars, stVars, epVars, msgq, others, stack, given, hostVars, histVars>>

(* Mutant: the data stage does not ask whether its request is the current. *)
CheckDataAlways ==
  /\ hand.pc = "check"
  /\ \/ /\ hand.room = 0
        /\ Submit(SetupEvent(Source(hand.hi), hand.lo, hand.hi, hand.from))
        /\ Goto("get")
     \/ /\ hand.room > 0
        /\ Goto("read")
        /\ UNCHANGED evq
  /\ UNCHANGED <<pktVars, stVars, epVars, msgq, others, stack, given, hostVars, histVars>>

(* usbd_ctrl_feed_dout: the thread polls the FIFO, with the mutex held,    *)
(* until the buffer is full or the references differ.                      *)
CheckData ==
  /\ hand.pc = "check"
  /\ \/ /\ proc # cur
        /\ Goto("get")
        /\ UNCHANGED evq
     \/ /\ proc = cur /\ hand.room = 0
        /\ Submit(SetupEvent(Source(hand.hi), hand.lo, hand.hi, hand.from))
        /\ Goto("get")
     \/ /\ proc = cur /\ hand.room > 0
        /\ Goto("read")
        /\ UNCHANGED evq
  /\ UNCHANGED <<pktVars, stVars, epVars, msgq, others, stack, given, hostVars, histVars>>

ReadData ==
  /\ hand.pc = "read"
  /\ IF outFlag
     THEN /\ outFlag' = FALSE /\ outFrom' = 0
          /\ hand' = [hand EXCEPT !.pc = "check", !.room = @ - 1, !.from = @ \cup {outFrom}]
          /\ gaps' = IF outFrom = hand.hi THEN gaps ELSE gaps \cup {"eaten"}
     ELSE Goto("check") /\ UNCHANGED <<outFlag, outFrom, gaps>>
  /\ UNCHANGED <<pktVars, stVars, epVars, msgq, others, stackVars, host, bus, taken>>

(* _usbd_ctrl_in takes the first buffer for the status stage it waits for. *)
(* An empty queue is read as well: any bit may pass for the status bit.    *)
CompleteStatus(want) ==
  IF queue = <<>>
  THEN /\ gaps' = gaps \cup {"null"}
       /\ UNCHANGED <<queue, evq, taken>>
  ELSE /\ queue' = Tail(queue)
       /\ Submit(Notice("status"))
       /\ taken' = taken \cup {[want |-> want, src |-> Head(queue).src, sent |-> Head(queue).sent]}
       /\ UNCHANGED gaps

StatusFirst == IF queue = <<>> THEN BOOLEAN ELSE {Head(queue).status}

(* Mutant: is_addressed_state is not advanced. *)
XferAddressKeep ==
  /\ hand.pc = "held" /\ hand.msg.type = "xfer"
  /\ TRUE \in StatusFirst /\ addressed = 1
  /\ CompleteStatus("address")
  /\ Goto("get")
  /\ UNCHANGED <<pktVars, stVars, inSize, halted, msgq, others, stack, given, hostVars>>

(* The status stage of the driver's own SET_ADDRESS.                       *)
XferAddress ==
  /\ hand.pc = "held" /\ hand.msg.type = "xfer"
  /\ TRUE \in StatusFirst /\ addressed = 1
  /\ CompleteStatus("address")
  /\ addressed' = 2
  /\ Goto("get")
  /\ UNCHANGED <<pktVars, configured, wakeup, setupEn, suspended, inSize, halted, msgq, others,
                 stack, given, hostVars>>

(* The status stage of the driver's own SET_CONFIGURATION.                 *)
XferConfigured ==
  /\ hand.pc = "held" /\ hand.msg.type = "xfer"
  /\ TRUE \in StatusFirst /\ addressed # 1 /\ configured = 2
  /\ CompleteStatus("configure")
  /\ configured' = 3
  /\ Goto("get")
  /\ UNCHANGED <<pktVars, addressed, wakeup, setupEn, suspended, inSize, halted, msgq, others,
                 stack, given, hostVars>>

(* Mutant: the end of a resume is taken for the end of a suspend.          *)
XferWakeupAny ==
  /\ hand.pc = "held" /\ hand.msg.type = "xfer"
  /\ TRUE \in StatusFirst /\ addressed # 1 /\ configured # 2 /\ wakeup > 0
  /\ CompleteStatus("feature")
  /\ Goto("suspend")
  /\ UNCHANGED <<pktVars, stVars, inSize, halted, msgq, others, stack, given, hostVars>>

(* The status stage of the driver's own SET_FEATURE or CLEAR_FEATURE: only *)
(* now is the stack told that the bus is suspended.                        *)
XferWakeup ==
  /\ hand.pc = "held" /\ hand.msg.type = "xfer"
  /\ TRUE \in StatusFirst /\ addressed # 1 /\ configured # 2 /\ wakeup > 0
  /\ CompleteStatus("feature")
  /\ Goto(IF wakeup = 1 THEN "suspend" ELSE "woken")
  /\ UNCHANGED <<pktVars, stVars, inSize, halted, msgq, others, stack, given, hostVars>>

TellSuspended ==
  /\ hand.pc = "suspend"
  /\ suspended' = TRUE
  /\ Goto("woken")
  /\ UNCHANGED <<pktVars, addressed, configured, wakeup, setupEn, epVars, msgq, others, stackVars,
                 hostVars, histVars>>

WakeupDone ==
  /\ hand.pc = "woken"
  /\ wakeup' = 0 /\ inSize' = FALSE
  /\ Goto("get")
  /\ UNCHANGED <<pktVars, addressed, configured, setupEn, suspended, queue, halted, msgq, others,
                 stackVars, hostVars, histVars>>

(* Mutant: the flag of a waiting host is left set. *)
XferPlainKeep ==
  /\ hand.pc = "held" /\ hand.msg.type = "xfer"
  /\ \/ FALSE \in StatusFirst
     \/ addressed # 1 /\ configured # 2 /\ wakeup = 0
  /\ Goto("get")
  /\ UNCHANGED <<pktVars, stVars, epVars, msgq, others, stackVars, hostVars, histVars>>

(* _usbd_ctrl_in, a buffer the host has to poll for: its next poll is      *)
(* served again.                                                           *)
XferPlain ==
  /\ hand.pc = "held" /\ hand.msg.type = "xfer"
  /\ \/ FALSE \in StatusFirst
     \/ addressed # 1 /\ configured # 2 /\ wakeup = 0
  /\ inSize' = FALSE
  /\ Goto("get")
  /\ UNCHANGED <<pktVars, stVars, queue, halted, msgq, others, stackVars, hostVars, histVars>>

-----------------------------------------------------------------------------
(* The USB stack (external) and the calls it makes under the mutex.        *)

StackMayRun == hand.pc \in {"get", "held"}

(* udc_e967_ep_enqueue of the control IN endpoint: a halted endpoint gets  *)
(* no message.                                                             *)
Enqueue(b) ==
  /\ queue' = Append(queue, b)
  /\ IF halted THEN UNCHANGED <<msgq, gaps>> ELSE SendMsg("xfer")

Buffer(e, left) ==
  [src |-> e.src, n |-> e.hi, status |-> left = 0, left |-> left, sent |-> FALSE]

IsRequest(e) == e.src \in {"host", "feature", "address", "configure"}

(* A data stage for a read, the status stage for anything else.            *)
StackAnswers ==
  /\ StackMayRun /\ evq # <<>>
  /\ LET e == Head(evq) IN
     /\ IsRequest(e)
     /\ e.src = "configure" => stack # "default"
     /\ \E left \in IF e.src = "host" /\ StageOf(e.lo, e.hi) = "in" THEN 1 .. InPackets ELSE {0} :
           Enqueue(Buffer(e, left))
     /\ stack' = CASE e.src = "address" -> "address"
                   [] e.src = "configure" -> "configured"
                   [] OTHER -> stack
     /\ given' = IF e.src \in {"host", "feature"} THEN <<e.lo, e.hi>> ELSE given
  /\ evq' = Tail(evq)
  /\ UNCHANGED <<pktVars, stVars, inSize, halted, hand, others, hostVars, taken>>

(* A request the stack does not support halts the endpoint:                *)
(* udc_e967_ep_set_halt.                                                   *)
StackRefuses ==
  /\ StackMayRun /\ evq # <<>>
  /\ LET e == Head(evq) IN
     /\ IsRequest(e)
     /\ \/ May("stall")
        \/ e.src = "configure" /\ stack = "default"
     /\ given' = IF e.src \in {"host", "feature"} THEN <<e.lo, e.hi>> ELSE given
  /\ halted' = TRUE
  /\ gaps' = gaps \cup {"stall"}
  /\ evq' = Tail(evq)
  /\ UNCHANGED <<pktVars, stVars, queue, inSize, thrVars, stack, hostVars, taken>>

StackNotes ==
  /\ StackMayRun /\ evq # <<>> /\ Head(evq).src \in {"status", "reset"}
  /\ stack' = IF Head(evq).src = "reset" THEN "default" ELSE stack
  /\ evq' = Tail(evq)
  /\ UNCHANGED <<pktVars, stVars, epVars, thrVars, given, hostVars, histVars>>

(* A data endpoint's buffer is enqueued: its message shares the queue.     *)
OtherEnqueue ==
  /\ StackMayRun /\ others < MaxOther /\ gaps \cap Causes = {}
  /\ others' = others + 1
  /\ SendMsg("other")
  /\ UNCHANGED <<pktVars, stVars, epVars, hand, stackVars, hostVars, taken>>

-----------------------------------------------------------------------------
HostSteps == \/ HostData \/ HostPoll \/ HostStalled \/ HostReset
             \/ HostSuspend \/ HostResume \/ \E k \in Asks : HostSetup(k)
Driver == \/ GetMsg \/ OtherMsg \/ AddressEvent \/ AddressDone \/ ConfigEvent \/ ConfigDone
          \/ TakeSetup \/ CopyHigh \/ CheckData \/ ReadData
          \/ XferAddress \/ XferConfigured \/ XferWakeup \/ TellSuspended \/ WakeupDone \/ XferPlain
Stack == StackAnswers \/ StackRefuses \/ StackNotes

Next == HostSteps \/ Driver \/ Stack \/ OtherEnqueue

(* The threads run, and the host goes on with a request it has open.       *)
Fairness == /\ WF_vars(Driver) /\ WF_vars(Stack)
            /\ WF_vars(HostData) /\ WF_vars(HostPoll) /\ WF_vars(HostStalled)

Spec == Init /\ [][Next]_vars /\ Fairness

-----------------------------------------------------------------------------
Quiet == hand.pc = "get" /\ msgq = <<>> /\ evq = <<>>
Sources == {"host", "feature", "address", "configure", "status", "reset"}

(* Types of the variables of the control endpoint. *)
TypeOK ==
  /\ reqs \in Seq(Kinds \cup {"feature"}) /\ Len(reqs) <= MaxReqs
  /\ pkg = Len(reqs) /\ cur \in 0 .. MaxReqs /\ proc \in 0 .. MaxReqs
  /\ addressed \in 0 .. 2 /\ configured \in 0 .. 3 /\ wakeup \in 0 .. 2
  /\ {inSize, setupEn, halted, suspended, outFlag} \subseteq BOOLEAN
  /\ Len(msgq) <= MsgQSize
  /\ \A i \in DOMAIN msgq : msgq[i].type \in {"setup", "xfer", "other"}
  /\ hand.room \in 0 .. OutPackets
  /\ \A i \in DOMAIN evq : evq[i].src \in Sources
  /\ stack \in {"default", "address", "configured"}
  /\ bus \in {"active", "suspended"}
  /\ others \in 0 .. MaxOther

(* The last packet wins: when nothing is under way any more, the packet    *)
(* the stack was given last is the last one that arrived, and whole, even  *)
(* though setup_pkg is overwritten while messages for older packets wait   *)
(* and while it is copied.  Only a lost message breaks this.               *)
LastSetupWins ==
  Quiet /\ cur > 0 /\ "lost" \notin gaps => given = <<Len(reqs), Len(reqs)>>

(* The data submitted with a control write is never that of a later        *)
(* request, however many SETUP packets overtake the stage that reads it;   *)
(* only a bus reset, which makes the references equal again, breaks this.  *)
(* It is that of the request itself unless the host gave up on a request   *)
(* before or got an answer that was not its own (a halt leaves the older   *)
(* answers to be polled, a SETUP that comes while others are under way is  *)
(* submitted and answered several times): then older data may still lie in *)
(* the FIFO, which the driver does not clear for a SETUP.                  *)
DataIsOfRequest ==
  "reset" \notin gaps => \A i \in DOMAIN evq :
    /\ evq[i].from \subseteq 0 .. evq[i].hi
    /\ gaps \cap {"abort", "early", "stall", "hurried"} = {} => evq[i].from \subseteq {evq[i].hi}

(* A host that does not give up on a request gets nothing of an older       *)
(* request as its answer, in however many steps that request was ended.    *)
(* Whether it gets the status stage of a request the driver invented is     *)
(* not the question: that is what `early' names, and it happens whenever   *)
(* the host polls before the driver thread has taken the stage off.        *)
AnswerIsOwn ==
  gaps \cap {"abort", "reset", "early", "hurried", "stall"} = {} => host.got \subseteq {host.n}

(* The driver thread takes the first buffer of the queue for the status    *)
(* stage it waits for.  For the address and the configuration this is never *)
(* a buffer of the host's; for a suspend it may be one that the host has   *)
(* polled already and that stayed on the queue, but not one that it has    *)
(* still to poll, for which it would wait for ever.  A host that polls     *)
(* early or sends the next SETUP early does lose its status stage, as it   *)
(* does after an abort, a reset or a stall: the excepted `gaps'.           *)
NoStatusStolen ==
  gaps \cap {"abort", "reset", "early", "hurried", "stall"} = {} =>
    \A t \in taken : t.src = "host" => t.want = "feature" /\ t.sent

(* When nothing is under way the driver's view of the enumeration is the   *)
(* stack's.                                                                *)
EnumerationAgrees ==
  Quiet /\ gaps \cap {"reset", "stall"} = {} =>
    /\ addressed = 2 => stack # "default"
    /\ configured = 3 => stack = "configured"

(* When nothing is under way the stack knows whether the bus is suspended. *)
(* A host that polled early leaves an answer on the queue that hides the   *)
(* status stage the driver waits for, and the suspend is not reported.     *)
SuspendIsReported ==
  Quiet /\ gaps \cap {"reset", "stall", "early", "hurried", "lost"} = {} =>
    (suspended <=> bus = "suspended")

(* The driver thread, which runs the data stage of a control write with    *)
(* the mutex held, comes out of it: the host sends the data or another     *)
(* SETUP.  It waits in vain, until the next SETUP, after a bus reset, when *)
(* the stage of an abandoned request has eaten the new one's packet, and   *)
(* when a halt left from an older request has ended the host's request.    *)
DataStageEnds ==
  hand.pc \in {"check", "read"} ~> hand.pc = "get" \/ gaps \cap {"reset", "eaten", "stall"} # {}

(* A request is answered, whatever the host finds when it polls.           *)
RequestEnds == host.open ~> ~host.open \/ gaps # {}
=============================================================================
