--------------------------- MODULE UdcControl_proofs ---------------------------
(***************************************************************************)
(* Proofs about UdcControl: what the control endpoint promises the host    *)
(* and the USB stack, for every size of the message queue, every number of *)
(* requests and every set of irregular things the host and the stack do.   *)
(***************************************************************************)
EXTENDS UdcControl, TLAPS

-----------------------------------------------------------------------------
(* Sequences, first as functions.                                          *)

LEMMA AppendFacts ==
  ASSUME NEW S, NEW s \in Seq(S), NEW e \in S
  PROVE  /\ Append(s, e) \in Seq(S) /\ Len(Append(s, e)) = Len(s) + 1
         /\ Append(s, e)[Len(s) + 1] = e /\ \A i \in 1 .. Len(s) : Append(s, e)[i] = s[i]
         /\ DOMAIN s = 1 .. Len(s) /\ Len(s) \in Nat
         /\ DOMAIN Append(s, e) = 1 .. Len(s) + 1
OBVIOUS

LEMMA TailFacts ==
  ASSUME NEW S, NEW s \in Seq(S), s # <<>>
  PROVE  /\ Tail(s) \in Seq(S) /\ Len(Tail(s)) = Len(s) - 1 /\ Len(s) \in Nat \ {0}
         /\ Head(s) = s[1] /\ Head(s) \in S
         /\ \A i \in 1 .. Len(s) - 1 : Tail(s)[i] = s[i + 1]
         /\ DOMAIN s = 1 .. Len(s) /\ DOMAIN Tail(s) = 1 .. Len(s) - 1
OBVIOUS

LEMMA Indices ==
  ASSUME NEW S, NEW s \in Seq(S)
  PROVE  /\ DOMAIN s = 1 .. Len(s) /\ Len(s) \in Nat
         /\ \A i \in 1 .. Len(s) : s[i] \in S
         /\ s = <<>> <=> Len(s) = 0
OBVIOUS

(* The first element replaced. *)
LEMMA HeadChanged ==
  ASSUME NEW S, NEW s \in Seq(S), s # <<>>, NEW e \in S
  PROVE  /\ <<e>> \o Tail(s) \in Seq(S) /\ Len(<<e>> \o Tail(s)) = Len(s)
         /\ (<<e>> \o Tail(s))[1] = e
         /\ \A i \in 2 .. Len(s) : (<<e>> \o Tail(s))[i] = s[i]
         /\ DOMAIN (<<e>> \o Tail(s)) = 1 .. Len(s)
<1>1. Tail(s) \in Seq(S) /\ Len(Tail(s)) = Len(s) - 1 /\ \A i \in 1 .. Len(s) - 1 : Tail(s)[i] = s[i + 1]
  BY TailFacts
<1>2. Len(s) \in Nat \ {0}
  BY TailFacts
<1> DEFINE t == Tail(s)
<1> HIDE DEF t
<1>3. t \in Seq(S) /\ Len(t) = Len(s) - 1 /\ \A i \in 1 .. Len(s) - 1 : t[i] = s[i + 1]
  BY <1>1 DEF t
<1>4. <<e>> \o t \in Seq(S) /\ Len(<<e>> \o t) = Len(s) /\ (<<e>> \o t)[1] = e
  BY <1>2, <1>3
<1>5. \A i \in 2 .. Len(s) : (<<e>> \o t)[i] = t[i - 1]
  BY <1>2, <1>3
<1>6. \A i \in 2 .. Len(s) : t[i - 1] = s[i]
  <2> TAKE i \in 2 .. Len(s)
  <2>1. i - 1 \in 1 .. Len(s) - 1 /\ (i - 1) + 1 = i
    BY <1>2
  <2> QED
    BY <1>3, <2>1
<1>7. DOMAIN (<<e>> \o t) = 1 .. Len(s)
  BY <1>4
<1> QED
  BY <1>4, <1>5, <1>6, <1>7 DEF t

-----------------------------------------------------------------------------
(* Types.                                                                  *)

Pcs == {"get", "held", "addressed", "conf", "configured", "take", "high", "check", "read",
        "suspend", "woken"}
Working == {"addressed", "conf", "configured", "take", "high", "check", "read"}
AllKinds == Kinds \cup {"feature"}
Msg    == [type : {"none", "setup", "xfer", "other"}, ref : Nat]
Event  == [src : Sources, lo : Nat, hi : Nat, from : SUBSET Nat]
BufRec == [src : Sources, n : Nat, status : BOOLEAN, left : Nat, sent : BOOLEAN]
Buf    == {b \in BufRec : b.status <=> b.left = 0}
Thread == [pc : Pcs, msg : Msg, lo : Nat, hi : Nat, room : 0 .. OutPackets, from : SUBSET Nat]
HostRec == [n : Nat, open : BOOLEAN, todo : Nat, got : SUBSET Nat]

(* The messages of the queue and that of the driver thread, at n packets.  *)
MsgsOK(q, n) ==
  /\ q \in Seq(Msg) /\ Len(q) <= MsgQSize
  /\ \A i \in 1 .. Len(q) : q[i].type # "none" /\ q[i].ref <= n

HandOK(h, n) ==
  /\ h \in Thread /\ h.msg.ref <= n
  /\ h.pc = "get" => h = Idle
  /\ h.pc = "held" => h.msg.type # "none"
  /\ h.pc \in Working => h.msg.type = "setup"
  /\ h.pc \in {"suspend", "woken"} => h.msg.type = "xfer"
  /\ h.pc = "read" => h.room > 0
  /\ h.pc \notin {"check", "read"} => h.from = {}

Types ==
  /\ reqs \in Seq(AllKinds) /\ Len(reqs) <= MaxReqs /\ pkg = Len(reqs)
  /\ cur \in Nat /\ cur <= Len(reqs) /\ proc \in Nat /\ proc <= Len(reqs)
  /\ addressed \in 0 .. 2 /\ configured \in 0 .. 3 /\ wakeup \in 0 .. 2
  /\ inSize \in BOOLEAN /\ setupEn \in BOOLEAN /\ halted \in BOOLEAN
  /\ suspended \in BOOLEAN /\ outFlag \in BOOLEAN
  /\ MsgsOK(msgq, Len(reqs)) /\ HandOK(hand, Len(reqs))
  /\ queue \in Seq(Buf) /\ evq \in Seq(Event)
  /\ host \in HostRec /\ outFrom \in Nat
  /\ stack \in {"default", "address", "configured"} /\ bus \in {"active", "suspended"}
  /\ others \in 0 .. MaxOther

LEMMA TypesImply == Types => TypeOK
<1> SUFFICES ASSUME Types PROVE TypeOK
  OBVIOUS
<1>1. Len(reqs) \in Nat /\ MaxReqs \in Nat
  BY ControlAssumption, Indices DEF Types
<1>2. \A i \in DOMAIN msgq : msgq[i].type \in {"setup", "xfer", "other"}
  <2>1. msgq \in Seq(Msg) /\ \A i \in 1 .. Len(msgq) : msgq[i].type # "none"
    BY DEF Types, MsgsOK
  <2>2. DOMAIN msgq = 1 .. Len(msgq) /\ \A i \in 1 .. Len(msgq) : msgq[i] \in Msg
    BY <2>1, Indices
  <2> QED
    BY <2>1, <2>2 DEF Msg
<1>3. \A i \in DOMAIN evq : evq[i].src \in Sources
  <2>1. evq \in Seq(Event)
    BY DEF Types
  <2>2. DOMAIN evq = 1 .. Len(evq) /\ \A i \in 1 .. Len(evq) : evq[i] \in Event
    BY <2>1, Indices
  <2> QED
    BY <2>2 DEF Event
<1>4. hand.room \in 0 .. OutPackets
  BY DEF Types, HandOK, Thread
<1>5. reqs \in Seq(Kinds \cup {"feature"}) /\ Len(reqs) <= MaxReqs /\ pkg = Len(reqs)
  BY DEF Types, AllKinds
<1>6. cur \in 0 .. MaxReqs /\ proc \in 0 .. MaxReqs
  BY <1>1 DEF Types
<1> QED
  BY <1>2, <1>3, <1>4, <1>5, <1>6 DEF Types, TypeOK, MsgsOK

LEMMA Consts == MsgQSize \in Nat \ {0} /\ OutPackets \in Nat \ {0} /\ InPackets \in Nat \ {0} /\ MaxReqs \in Nat /\ MaxOther \in Nat
BY ControlAssumption

LEMMA IdleOK == Idle \in Thread /\ \A n \in Nat : HandOK(Idle, n)
<1>1. Idle \in Thread
  BY Consts DEF Idle, Thread, Pcs, NoMsg, Msg
<1> QED
  BY <1>1 DEF HandOK, Idle, NoMsg, Working

LEMMA InitTypes == Init => Types
<1> SUFFICES ASSUME Init PROVE Types
  OBVIOUS
<1>1. Len(<<>>) = 0 /\ <<>> \in Seq(AllKinds) /\ <<>> \in Seq(Msg) /\ <<>> \in Seq(Buf) /\ <<>> \in Seq(Event)
  OBVIOUS
<1>2. MsgsOK(msgq, Len(reqs)) /\ HandOK(hand, Len(reqs))
  BY <1>1, IdleOK, Consts DEF Init, MsgsOK
<1>3. host \in HostRec
  BY DEF Init, NoHost, HostRec
<1>4. /\ addressed \in 0 .. 2 /\ configured \in 0 .. 3 /\ wakeup \in 0 .. 2
      /\ stack \in {"default", "address", "configured"}
  BY DEF Init
<1>5. /\ reqs \in Seq(AllKinds) /\ Len(reqs) <= MaxReqs /\ pkg = Len(reqs)
      /\ cur \in Nat /\ cur <= Len(reqs) /\ proc \in Nat /\ proc <= Len(reqs)
      /\ others \in 0 .. MaxOther
  BY <1>1, Consts DEF Init
<1>6. /\ queue \in Seq(Buf) /\ evq \in Seq(Event) /\ outFrom \in Nat
      /\ inSize \in BOOLEAN /\ setupEn \in BOOLEAN /\ halted \in BOOLEAN
      /\ suspended \in BOOLEAN /\ outFlag \in BOOLEAN /\ bus \in {"active", "suspended"}
  BY <1>1 DEF Init
<1> QED
  BY <1>2, <1>3, <1>4, <1>5, <1>6 DEF Types

(* What is put on the message queue.                                       *)
LEMMA SetupMsgOK == ASSUME NEW ref \in Nat PROVE SetupMsg(ref) \in Msg /\ SetupMsg(ref).type = "setup" /\ SetupMsg(ref).ref = ref
BY DEF SetupMsg, Msg

LEMMA AppendMsg ==
  ASSUME NEW n \in Nat, NEW m \in Nat, n <= m, MsgsOK(msgq, n), NEW e \in Msg, e.type # "none", e.ref <= m, ~QueueFull
  PROVE  MsgsOK(Append(msgq, e), m)
<1>1. /\ msgq \in Seq(Msg) /\ Len(msgq) <= MsgQSize
      /\ \A i \in 1 .. Len(msgq) : msgq[i].type # "none" /\ msgq[i].ref <= n /\ msgq[i] \in Msg
  BY Indices DEF MsgsOK
<1>2. Len(msgq) \in Nat /\ Len(msgq) # MsgQSize
  BY <1>1, Indices DEF QueueFull
<1> DEFINE q == Append(msgq, e)
<1>3. /\ q \in Seq(Msg) /\ Len(q) = Len(msgq) + 1 /\ q[Len(msgq) + 1] = e
      /\ \A i \in 1 .. Len(msgq) : q[i] = msgq[i]
  BY <1>1, AppendFacts
<1> HIDE DEF q
<1>4. ASSUME NEW i \in 1 .. Len(q) PROVE q[i].type # "none" /\ q[i].ref <= m
  <2>1. CASE i = Len(msgq) + 1
    BY <1>3, <2>1
  <2>2. CASE i # Len(msgq) + 1
    <3>1. i \in 1 .. Len(msgq)
      BY <1>2, <1>3, <2>2
    <3>2. msgq[i].ref \in Nat
      BY <1>1, <3>1 DEF Msg
    <3> QED
      BY <1>1, <1>3, <3>1, <3>2
  <2> QED
    BY <2>1, <2>2
<1>5. Len(q) <= MsgQSize
  BY <1>1, <1>2, <1>3, Consts
<1> QED
  BY <1>3, <1>4, <1>5 DEF MsgsOK, q

LEMMA KeepMsgs == ASSUME NEW n \in Nat, NEW m \in Nat, n <= m, MsgsOK(msgq, n) PROVE MsgsOK(msgq, m)
<1>1. \A i \in 1 .. Len(msgq) : msgq[i] \in Msg
  BY Indices DEF MsgsOK
<1>2. \A i \in 1 .. Len(msgq) : msgq[i].ref \in Nat
  BY <1>1 DEF Msg
<1> QED
  BY <1>2 DEF MsgsOK

LEMMA PutOK ==
  ASSUME NEW n \in Nat, NEW m \in Nat, n <= m, MsgsOK(msgq, n), NEW ref \in Nat, ref <= m, PutSetup(ref)
  PROVE  MsgsOK(msgq', m)
<1>1. CASE QueueFull
  BY <1>1, KeepMsgs DEF PutSetup
<1>2. CASE ~QueueFull
  BY <1>2, AppendMsg, SetupMsgOK DEF PutSetup
<1> QED
  BY <1>1, <1>2

LEMMA SendOK ==
  ASSUME NEW n \in Nat, MsgsOK(msgq, n), NEW type \in {"xfer", "other"}, SendMsg(type)
  PROVE  MsgsOK(msgq', n)
<1>1. CASE QueueFull
  BY <1>1, Consts DEF SendMsg, MsgsOK
<1>2. CASE ~QueueFull
  <2> DEFINE e == [type |-> type, ref |-> 0]
  <2>1. e \in Msg /\ e.type # "none" /\ e.ref <= n
    BY DEF Msg
  <2>2. msgq' = Append(msgq, e)
    BY <1>2 DEF SendMsg
  <2> QED
    BY <1>2, <2>1, <2>2, AppendMsg
<1> QED
  BY <1>1, <1>2

(* Events. *)
LEMMA SourceIs == \A n : Source(n) \in {"host", "feature"}
BY DEF Source

LEMMA NoticeOK == \A src \in Sources : Notice(src) \in Event /\ Notice(src).src = src /\ Notice(src).from = {}
BY DEF Notice, SetupEvent, Event

LEMMA SetupEventOK ==
  ASSUME NEW src \in Sources, NEW lo \in Nat, NEW hi \in Nat, NEW from \in SUBSET Nat
  PROVE  /\ SetupEvent(src, lo, hi, from) \in Event
         /\ SetupEvent(src, lo, hi, from).src = src /\ SetupEvent(src, lo, hi, from).lo = lo
         /\ SetupEvent(src, lo, hi, from).hi = hi /\ SetupEvent(src, lo, hi, from).from = from
BY DEF SetupEvent, Event

LEMMA SubmitOK == ASSUME evq \in Seq(Event), NEW e \in Event, Submit(e) PROVE evq' \in Seq(Event)
BY AppendFacts DEF Submit

(* The driver thread.                                                      *)
LEMMA HandKept == ASSUME NEW n \in Nat, NEW m \in Nat, n <= m, HandOK(hand, n) PROVE HandOK(hand, m)
<1>1. hand.msg.ref \in Nat
  BY DEF HandOK, Thread, Msg
<1> QED
  BY <1>1 DEF HandOK

LEMMA GotoGet == ASSUME NEW n \in Nat, Goto("get") PROVE HandOK(hand', n) /\ hand' = Idle /\ hand'.pc = "get" /\ hand'.msg.type = "none"
BY IdleOK DEF Goto, Idle, NoMsg

LEMMA GotoOK ==
  ASSUME NEW n \in Nat, HandOK(hand, n), NEW pc \in Pcs \ {"get", "held"}, Goto(pc),
         pc \in Working => hand.msg.type = "setup",
         pc \in {"suspend", "woken"} => hand.msg.type = "xfer",
         pc = "read" => hand.room > 0,
         hand.pc \notin {"check", "read"} \/ pc \in {"check", "read"}
  PROVE  /\ HandOK(hand', n) /\ hand'.pc = pc /\ hand'.msg = hand.msg /\ hand'.lo = hand.lo
         /\ hand'.hi = hand.hi /\ hand'.room = hand.room /\ hand'.from = hand.from
<1>1. hand \in Thread /\ hand' = [hand EXCEPT !.pc = pc]
  BY DEF HandOK, Goto
<1>2. /\ hand' \in Thread /\ hand'.pc = pc /\ hand'.msg = hand.msg /\ hand'.lo = hand.lo
      /\ hand'.hi = hand.hi /\ hand'.room = hand.room /\ hand'.from = hand.from
  BY <1>1 DEF Thread
<1>3. pc \notin {"check", "read"} => hand.from = {}
  BY DEF HandOK
<1> QED
  BY <1>2, <1>3 DEF HandOK

-----------------------------------------------------------------------------
(* Every step keeps the types.                                             *)

LEMMA AnotherRequest ==
  ASSUME Types, NEW k \in AllKinds, Len(reqs) < MaxReqs, reqs' = Append(reqs, k)
  PROVE  reqs' \in Seq(AllKinds) /\ Len(reqs') = Len(reqs) + 1 /\ Len(reqs') <= MaxReqs /\ Len(reqs) \in Nat
<1>1. reqs' \in Seq(AllKinds) /\ Len(reqs') = Len(reqs) + 1 /\ Len(reqs) \in Nat
  BY AppendFacts DEF Types
<1> QED
  BY <1>1, Consts

LEMMA HostSetupT == ASSUME Types, NEW k \in Asks, HostSetup(k) PROVE Types'
<1>1. k \in AllKinds
  BY DEF Asks, AllKinds, Kinds, Reads
<1>2. reqs' \in Seq(AllKinds) /\ Len(reqs') = Len(reqs) + 1 /\ Len(reqs') <= MaxReqs /\ Len(reqs) \in Nat
  BY <1>1, AnotherRequest DEF HostSetup, SetupIsr
<1>3. MsgsOK(msgq', Len(reqs'))
  BY <1>2, PutOK DEF Types, HostSetup, SetupIsr
<1>4. HandOK(hand', Len(reqs'))
  BY <1>2, HandKept DEF Types, HostSetup
<1>5. queue' \in Seq(Buf)
  BY TailFacts DEF Types, HostSetup, SetupIsr
<1>6. host' \in HostRec
  BY <1>2, Consts DEF HostSetup, HostRec
<1>7. pkg' = Len(reqs') /\ cur' \in Nat /\ cur' <= Len(reqs') /\ inSize' = FALSE /\ proc' <= Len(reqs')
  BY <1>2 DEF Types, HostSetup, SetupIsr
<1> QED
  BY <1>2, <1>3, <1>4, <1>5, <1>6, <1>7 DEF Types, HostSetup, stVars, stackVars

LEMMA HostDataT == ASSUME Types, HostData PROVE Types'
<1>1. host' \in HostRec
  <2>1. host \in HostRec /\ host.todo - 1 \in Nat
    BY DEF Types, HostData, HostRec
  <2>2. host' = [host EXCEPT !.todo = host.todo - 1]
    BY DEF HostData
  <2> QED
    BY <2>1, <2>2 DEF HostRec
<1>2. outFrom' \in Nat /\ outFlag' \in BOOLEAN
  BY DEF Types, HostData, HostRec
<1> QED
  BY <1>1, <1>2 DEF Types, HostData, pktVars, stVars, epVars, thrVars, stackVars

LEMMA HostPollT == ASSUME Types, HostPoll PROVE Types'
<1> DEFINE b == Head(queue)
<1>1. queue # <<>> => b \in Buf
  BY TailFacts DEF Types
<1> HIDE DEF b
<1>2. UNCHANGED <<pktVars, stVars, halted, thrVars, stack, given, bus, outFlag, outFrom>>
  BY DEF HostPoll
<1>3. inSize' \in BOOLEAN
  BY DEF HostPoll, Types
<1>4. CASE queue = <<>>
  <2>1. UNCHANGED <<queue, host, evq>>
    BY <1>4 DEF HostPoll
  <2> QED
    BY <1>2, <1>3, <2>1 DEF Types, pktVars, stVars, thrVars
<1>5. CASE queue # <<>> /\ b.status
  <2>1. /\ queue' = <<[b EXCEPT !.sent = TRUE]>> \o Tail(queue)
        /\ Submit(Notice("status"))
        /\ host' = [host EXCEPT !.open = FALSE, !.got = @ \cup {b.n}]
    BY <1>5 DEF HostPoll, b
  <2>2. queue' \in Seq(Buf)
    <3>1. [b EXCEPT !.sent = TRUE] \in Buf
      BY <1>1, <1>5 DEF Buf, BufRec
    <3> QED
      BY <1>5, <2>1, <3>1, HeadChanged DEF Types
  <2>3. host' \in HostRec
    BY <1>1, <1>5, <2>1 DEF Types, HostRec, Buf, BufRec
  <2>4. evq' \in Seq(Event)
    BY <2>1, SubmitOK, NoticeOK DEF Types, Sources
  <2> QED
    BY <1>2, <1>3, <2>2, <2>3, <2>4 DEF Types, pktVars, stVars, thrVars
<1>6. CASE queue # <<>> /\ ~b.status
  <2>1. /\ queue' = IF b.left = 1 THEN Tail(queue)
                    ELSE <<[b EXCEPT !.left = @ - 1]>> \o Tail(queue)
        /\ host' = [host EXCEPT !.open = b.left # 1, !.got = @ \cup {b.n}]
        /\ UNCHANGED evq
    BY <1>6 DEF HostPoll, b
  <2>2. b \in BufRec /\ b.left \in Nat \ {0} /\ b.n \in Nat
    BY <1>1, <1>6 DEF Buf, BufRec
  <2>3. queue' \in Seq(Buf)
    <3>1. CASE b.left = 1
      BY <1>6, <2>1, <3>1, TailFacts DEF Types
    <3>2. CASE b.left # 1
      <4> DEFINE k == b.left - 1
      <4>1. k \in Nat \ {0}
        BY <2>2, <3>2
      <4>2. queue' = <<[b EXCEPT !.left = k]>> \o Tail(queue)
        BY <2>1, <3>2
      <4> HIDE DEF k
      <4>3. [b EXCEPT !.left = k] \in Buf
        BY <1>6, <2>2, <4>1 DEF Buf, BufRec
      <4> QED
        BY <1>6, <4>2, <4>3, HeadChanged DEF Types
    <3> QED
      BY <3>1, <3>2
  <2>4. host' \in HostRec
    BY <2>1, <2>2 DEF Types, HostRec
  <2> QED
    BY <1>2, <1>3, <2>1, <2>3, <2>4 DEF Types, pktVars, stVars, thrVars
<1> QED
  BY <1>4, <1>5, <1>6

LEMMA HostStalledT == ASSUME Types, HostStalled PROVE Types'
<1>1. host' \in HostRec
  BY DEF Types, HostStalled, HostRec
<1> QED
  BY <1>1 DEF Types, HostStalled, pktVars, stVars, epVars, thrVars, stackVars

LEMMA HostResetT == ASSUME Types, HostReset PROVE Types'
<1>1. host' \in HostRec
  BY DEF HostReset, HostRec, NoHost
<1>2. evq' \in Seq(Event)
  BY SubmitOK, NoticeOK DEF HostReset, Types, Sources
<1>3. Len(reqs) \in Nat
  BY Indices DEF Types
<1>4. cur' = 0 /\ proc' = 0 /\ addressed' = 0 /\ configured' = 0 /\ bus' = "active"
  BY DEF HostReset
<1> QED
  BY <1>1, <1>2, <1>3, <1>4 DEF Types, HostReset, epVars, thrVars

LEMMA FeatureT ==
  ASSUME Types, NEW w \in 0 .. 2, Len(reqs) < MaxReqs, Feature(w)
  PROVE  /\ reqs' \in Seq(AllKinds) /\ Len(reqs') \in Nat /\ Len(reqs) <= Len(reqs') /\ Len(reqs') <= MaxReqs
         /\ pkg' = Len(reqs') /\ cur' \in Nat /\ cur' <= Len(reqs') /\ Len(reqs) \in Nat
         /\ wakeup' \in 0 .. 2 /\ inSize' \in BOOLEAN /\ MsgsOK(msgq', Len(reqs'))
<1>1. CASE configured = 3
  <2>1. /\ "feature" \in AllKinds /\ reqs' = Append(reqs, "feature") /\ PutSetup(cur + 1) /\ cur' = cur + 1
        /\ pkg' = Len(reqs) + 1 /\ wakeup' = w /\ inSize' = FALSE
    BY <1>1 DEF Feature, AllKinds
  <2>2. reqs' \in Seq(AllKinds) /\ Len(reqs') = Len(reqs) + 1 /\ Len(reqs') <= MaxReqs /\ Len(reqs) \in Nat
    BY <2>1, AnotherRequest
  <2>3. MsgsOK(msgq', Len(reqs'))
    BY <2>1, <2>2, PutOK DEF Types
  <2>4. cur \in Nat /\ cur <= Len(reqs)
    BY DEF Types
  <2>5. pkg' = Len(reqs') /\ cur' \in Nat /\ cur' <= Len(reqs') /\ Len(reqs) <= Len(reqs')
    BY <2>1, <2>2, <2>4
  <2>6. wakeup' \in 0 .. 2 /\ inSize' \in BOOLEAN
    BY <2>1
  <2>7. Len(reqs') \in Nat
    BY <2>2
  <2> QED
    BY <2>2, <2>3, <2>5, <2>6, <2>7
<1>2. CASE configured # 3
  BY <1>2, Indices DEF Types, Feature
<1> QED
  BY <1>1, <1>2

LEMMA HostSleepT == ASSUME Types, HostSuspend \/ HostResume PROVE Types'
<1>1. Len(reqs) \in Nat /\ MaxReqs \in Nat
  BY Indices, Consts DEF Types
<1>2. Len(reqs) < MaxReqs /\ \E w \in 0 .. 2 : Feature(w)
  <2>1. 1 \in 0 .. 2 /\ 2 \in 0 .. 2
    OBVIOUS
  <2>2. Feature(1) \/ Feature(2)
    BY DEF HostSuspend, HostResume
  <2>3. Len(reqs) + 2 <= MaxReqs \/ Len(reqs) < MaxReqs
    BY DEF HostSuspend, HostResume
  <2> QED
    BY <1>1, <2>1, <2>2, <2>3
<1>3. /\ reqs' \in Seq(AllKinds) /\ Len(reqs') \in Nat /\ Len(reqs) <= Len(reqs') /\ Len(reqs') <= MaxReqs
      /\ pkg' = Len(reqs') /\ cur' \in Nat /\ cur' <= Len(reqs')
      /\ wakeup' \in 0 .. 2 /\ inSize' \in BOOLEAN /\ MsgsOK(msgq', Len(reqs'))
  BY <1>2, FeatureT
<1>4. HandOK(hand', Len(reqs'))
  BY <1>1, <1>3, HandKept DEF Types, HostSuspend, HostResume
<1>5. suspended' \in BOOLEAN /\ bus' \in {"active", "suspended"}
  BY DEF Types, HostSuspend, HostResume
<1>6. proc' \in Nat /\ proc' <= Len(reqs')
  <2>1. proc' = proc /\ proc \in Nat /\ proc <= Len(reqs)
    BY DEF Types, HostSuspend, HostResume
  <2> QED
    BY <1>1, <1>3, <2>1
<1>7. UNCHANGED <<addressed, configured, setupEn, queue, halted, others, stackVars, host, outFlag, outFrom>>
  BY DEF HostSuspend, HostResume
<1> QED
  BY <1>3, <1>4, <1>5, <1>6, <1>7 DEF Types, stackVars

(* The driver thread's steps that leave the message queue alone: what is   *)
(* left to show is what else the step changes.                             *)
LEMMA GetMsgT == ASSUME Types, GetMsg PROVE Types'
<1>1. msgq \in Seq(Msg) /\ msgq # <<>> /\ MsgsOK(msgq, Len(reqs))
  BY DEF Types, MsgsOK, GetMsg
<1>2. /\ msgq' \in Seq(Msg) /\ Len(msgq') = Len(msgq) - 1 /\ Len(msgq) \in Nat \ {0}
      /\ Head(msgq) = msgq[1] /\ Head(msgq) \in Msg
      /\ \A i \in 1 .. Len(msgq) - 1 : msgq'[i] = msgq[i + 1]
  BY <1>1, TailFacts DEF GetMsg
<1>3. MsgsOK(msgq', Len(reqs))
  <2>1. \A i \in 1 .. Len(msgq) - 1 : i + 1 \in 1 .. Len(msgq)
    BY <1>2
  <2> QED
    BY <1>1, <1>2, <2>1, Consts DEF MsgsOK
<1>4. HandOK(hand', Len(reqs))
  <2>1. Head(msgq).type # "none" /\ Head(msgq).ref <= Len(reqs) /\ Head(msgq) \in Msg
    BY <1>1, <1>2 DEF MsgsOK
  <2>2. hand' = [Idle EXCEPT !.pc = "held", !.msg = Head(msgq)]
    BY DEF GetMsg
  <2>3. hand' \in Thread /\ hand'.pc = "held" /\ hand'.msg = Head(msgq) /\ hand'.from = {}
    <3>1. Idle \in Thread /\ "held" \in Pcs /\ Idle.from = {}
      BY IdleOK DEF Pcs, Idle
    <3> QED
      BY <2>1, <2>2, <3>1 DEF Thread
  <2> QED
    BY <2>1, <2>3 DEF HandOK, Working
<1> QED
  BY <1>3, <1>4 DEF Types, GetMsg, pktVars, stVars, epVars, stackVars, hostVars

LEMMA DriverT ==
  ASSUME Types, UNCHANGED <<reqs, pkg, cur, msgq, others, host, bus, stack>>,
         HandOK(hand', Len(reqs)), evq' \in Seq(Event), queue' \in Seq(Buf),
         addressed' \in 0 .. 2, configured' \in 0 .. 3, wakeup' \in 0 .. 2, proc' \in Nat, proc' <= Len(reqs),
         setupEn' \in BOOLEAN, suspended' \in BOOLEAN, inSize' \in BOOLEAN, halted' \in BOOLEAN,
         outFlag' \in BOOLEAN, outFrom' \in Nat
  PROVE  Types'
BY DEF Types

LEMMA AddressT == ASSUME Types, AddressEvent \/ AddressDone PROVE Types'
<1>1. Len(reqs) \in Nat /\ HandOK(hand, Len(reqs))
  BY Indices DEF Types
<1>2. "address" \in Sources /\ "addressed" \in Pcs \ {"get", "held"} /\ "conf" \in Pcs \ {"get", "held"}
  BY DEF Sources, Pcs
<1>3. hand.msg.type = "setup" /\ hand.pc \notin {"check", "read"}
  BY <1>1 DEF AddressEvent, AddressDone, HandOK, Working
<1>4. HandOK(hand', Len(reqs))
  <2>1. Goto("addressed") \/ Goto("conf")
    BY DEF AddressEvent, AddressDone
  <2> QED
    BY <1>1, <1>2, <1>3, <2>1, GotoOK
<1>5. evq' \in Seq(Event)
  <2>1. Submit(Notice("address")) \/ UNCHANGED evq
    BY DEF AddressEvent, AddressDone, stackVars
  <2>2. evq \in Seq(Event) /\ Notice("address") \in Event
    BY <1>2, NoticeOK DEF Types
  <2>3. CASE Submit(Notice("address"))
    BY <2>2, <2>3, SubmitOK
  <2>4. CASE UNCHANGED evq
    BY <2>2, <2>4
  <2> QED
    BY <2>1, <2>3, <2>4
<1>6. addressed' \in 0 .. 2 /\ setupEn' \in BOOLEAN
  <2>1. (addressed' = addressed \/ addressed' = 1) /\ (setupEn' = setupEn \/ setupEn' = TRUE \/ setupEn' = FALSE)
    BY DEF AddressEvent, AddressDone
  <2>2. addressed \in 0 .. 2 /\ setupEn \in BOOLEAN /\ 1 \in 0 .. 2
    BY DEF Types
  <2> QED
    BY <2>1, <2>2
<1>7. UNCHANGED <<pktVars, configured, wakeup, suspended, epVars, msgq, others, stack, hostVars>>
  BY DEF AddressEvent, AddressDone, stackVars
<1> QED
  BY <1>4, <1>5, <1>6, <1>7, DriverT DEF Types, pktVars, epVars, hostVars

LEMMA ConfigT == ASSUME Types, ConfigEvent \/ ConfigDone PROVE Types'
<1>1. Len(reqs) \in Nat /\ HandOK(hand, Len(reqs))
  BY Indices DEF Types
<1>2. "configure" \in Sources /\ "configured" \in Pcs \ {"get", "held"} /\ "take" \in Pcs \ {"get", "held"}
  BY DEF Sources, Pcs
<1>3. hand.msg.type = "setup" /\ hand.pc \notin {"check", "read"}
  BY <1>1 DEF ConfigEvent, ConfigDone, HandOK, Working
<1>4. HandOK(hand', Len(reqs))
  <2>1. Goto("configured") \/ Goto("take")
    BY DEF ConfigEvent, ConfigDone
  <2> QED
    BY <1>1, <1>2, <1>3, <2>1, GotoOK
<1>5. evq' \in Seq(Event)
  <2>1. Submit(Notice("configure")) \/ UNCHANGED evq
    BY DEF ConfigEvent, ConfigDone, stackVars
  <2>2. evq \in Seq(Event) /\ Notice("configure") \in Event
    BY <1>2, NoticeOK DEF Types
  <2>3. CASE Submit(Notice("configure"))
    BY <2>2, <2>3, SubmitOK
  <2>4. CASE UNCHANGED evq
    BY <2>2, <2>4
  <2> QED
    BY <2>1, <2>3, <2>4
<1>6. configured' \in 0 .. 3 /\ setupEn' \in BOOLEAN
  <2>1. /\ configured' \in {configured, 0, 1, 2}
        /\ setupEn' = setupEn \/ setupEn' = TRUE \/ setupEn' = FALSE
    BY DEF ConfigEvent, ConfigDone
  <2>2. configured \in 0 .. 3 /\ setupEn \in BOOLEAN
    BY DEF Types
  <2>3. configured' \in 0 .. 3
    BY <2>1, <2>2
  <2>4. setupEn' \in BOOLEAN
    BY <2>1, <2>2
  <2> QED
    BY <2>3, <2>4
<1>7. UNCHANGED <<pktVars, addressed, wakeup, suspended, epVars, msgq, others, stack, hostVars>>
  BY DEF ConfigEvent, ConfigDone, stackVars
<1> QED
  BY <1>4, <1>5, <1>6, <1>7, DriverT DEF Types, pktVars, epVars, hostVars

(* What the thread copies and reads.                                       *)
LEMMA TakeHand ==
  ASSUME Types, TakeSetup
  PROVE  /\ HandOK(hand', Len(reqs)) /\ hand'.pc = "high" /\ hand'.lo = pkg
         /\ hand'.msg = hand.msg /\ hand.msg.type = "setup" /\ hand.msg.ref \in Nat
<1>1. /\ hand \in Thread /\ hand.msg.type = "setup" /\ hand.msg.ref <= Len(reqs) /\ hand.msg.ref \in Nat
      /\ hand.from = {}
  BY DEF Types, HandOK, TakeSetup, Working, Thread, Msg
<1>2. pkg \in Nat /\ "high" \in Pcs
  BY Indices DEF Types, Pcs
<1>3. hand' = [hand EXCEPT !.pc = "high", !.lo = pkg]
  BY DEF TakeSetup
<1>4. /\ hand' \in Thread /\ hand'.pc = "high" /\ hand'.lo = pkg /\ hand'.msg = hand.msg
      /\ hand'.from = {}
  BY <1>1, <1>2, <1>3 DEF Thread
<1> QED
  BY <1>1, <1>4 DEF HandOK, Working

LEMMA CopyHand ==
  ASSUME Types, CopyHigh
  PROVE  /\ HandOK(hand', Len(reqs)) /\ hand.msg.type = "setup" /\ hand.lo \in Nat
         /\ \/ /\ StageOf(hand.lo, pkg) = "out" /\ hand'.pc = "check" /\ hand'.lo = hand.lo /\ hand'.hi = pkg
               /\ hand'.room = OutPackets /\ hand'.from = {} /\ hand'.msg = hand.msg /\ UNCHANGED evq
            \/ /\ StageOf(hand.lo, pkg) # "out" /\ hand' = Idle
               /\ Submit(SetupEvent(Source(pkg), hand.lo, pkg, {}))
<1>1. hand \in Thread /\ hand.msg.type = "setup" /\ hand.msg.ref <= Len(reqs) /\ hand.lo \in Nat
  BY DEF Types, HandOK, CopyHigh, Working, Thread
<1>2. pkg \in Nat /\ "check" \in Pcs /\ OutPackets \in 0 .. OutPackets /\ Len(reqs) \in Nat
  BY Indices, Consts DEF Types, Pcs
<1>3. CASE StageOf(hand.lo, pkg) = "out"
  <2>1. hand' = [hand EXCEPT !.pc = "check", !.hi = pkg, !.room = OutPackets] /\ UNCHANGED evq
    BY <1>3 DEF CopyHigh
  <2>2. hand.from = {}
    BY DEF Types, HandOK, CopyHigh
  <2>3. /\ hand' \in Thread /\ hand'.pc = "check" /\ hand'.lo = hand.lo /\ hand'.hi = pkg
        /\ hand'.room = OutPackets /\ hand'.from = {} /\ hand'.msg = hand.msg
    BY <1>1, <1>2, <2>1, <2>2 DEF Thread
  <2> QED
    BY <1>1, <1>3, <2>1, <2>3 DEF HandOK, Working
<1>4. CASE StageOf(hand.lo, pkg) # "out"
  BY <1>1, <1>2, <1>4, GotoGet DEF CopyHigh
<1> QED
  BY <1>3, <1>4

LEMMA SetupT == ASSUME Types, TakeSetup \/ CopyHigh PROVE Types'
<1>1. Len(reqs) \in Nat /\ HandOK(hand, Len(reqs)) /\ evq \in Seq(Event) /\ pkg \in Nat
  BY Indices DEF Types
<1>2. CASE TakeSetup
  <2>1. HandOK(hand', Len(reqs)) /\ proc' \in Nat /\ proc' <= Len(reqs)
    <3>1. hand.msg.ref <= Len(reqs) /\ proc' = hand.msg.ref
      BY <1>1, <1>2 DEF HandOK, TakeSetup
    <3> QED
      BY <1>2, <3>1, TakeHand
  <2>2. UNCHANGED <<reqs, pkg, cur, stVars, queue, inSize, msgq, others, stackVars, hostVars>> /\ halted' = FALSE
    BY <1>2 DEF TakeSetup
  <2> QED
    BY <2>1, <2>2, DriverT DEF Types, stVars, stackVars, hostVars
<1>3. CASE CopyHigh
  <2>1. HandOK(hand', Len(reqs))
    BY <1>3, CopyHand
  <2>2. evq' \in Seq(Event)
    <3>1. hand.lo \in Nat /\ (UNCHANGED evq \/ Submit(SetupEvent(Source(pkg), hand.lo, pkg, {})))
      BY <1>3, CopyHand
    <3>2. Source(pkg) \in Sources /\ {} \in SUBSET Nat
      BY SourceIs DEF Sources
    <3>3. SetupEvent(Source(pkg), hand.lo, pkg, {}) \in Event
      BY <1>1, <3>1, <3>2, SetupEventOK
    <3> QED
      BY <1>1, <3>1, <3>3, SubmitOK
  <2>3. UNCHANGED <<pktVars, stVars, epVars, msgq, others, stack, given, hostVars>>
    BY <1>3 DEF CopyHigh
  <2> QED
    BY <2>1, <2>2, <2>3, DriverT DEF Types, pktVars, stVars, epVars, hostVars
<1> QED
  BY <1>2, <1>3

LEMMA CheckHand ==
  ASSUME Types, CheckData
  PROVE  /\ HandOK(hand', Len(reqs)) /\ hand.lo \in Nat /\ hand.hi \in Nat /\ hand.from \in SUBSET Nat
         /\ \/ proc # cur /\ hand' = Idle /\ UNCHANGED evq
            \/ /\ proc = cur /\ hand.room = 0 /\ hand' = Idle
               /\ Submit(SetupEvent(Source(hand.hi), hand.lo, hand.hi, hand.from))
            \/ /\ proc = cur /\ hand.room > 0 /\ hand'.pc = "read" /\ hand'.msg = hand.msg
               /\ hand'.lo = hand.lo /\ hand'.hi = hand.hi /\ hand'.room = hand.room
               /\ hand'.from = hand.from /\ UNCHANGED evq
<1>1. Len(reqs) \in Nat /\ HandOK(hand, Len(reqs)) /\ "read" \in Pcs \ {"get", "held"}
  BY Indices DEF Types, Pcs
<1>2. /\ hand.lo \in Nat /\ hand.hi \in Nat /\ hand.from \in SUBSET Nat /\ hand.msg.type = "setup"
      /\ hand.pc = "check"
  BY <1>1 DEF HandOK, Thread, CheckData, Working
<1>3. CASE Goto("get")
  <2>1. ~Goto("read")
    BY <1>1, <1>2, <1>3, GotoGet, GotoOK DEF Goto, Idle
  <2> QED
    BY <1>1, <1>2, <1>3, <2>1, GotoGet DEF CheckData
<1>4. CASE hand.room > 0 /\ Goto("read") /\ UNCHANGED evq /\ proc = cur
  BY <1>1, <1>2, <1>4, GotoOK
<1> QED
  BY <1>3, <1>4 DEF CheckData

LEMMA ReadHand ==
  ASSUME Types, ReadData
  PROVE  /\ HandOK(hand', Len(reqs)) /\ hand'.pc = "check" /\ hand.pc = "read" /\ hand'.msg = hand.msg
         /\ hand'.lo = hand.lo /\ hand'.hi = hand.hi /\ hand.room \in Nat \ {0}
         /\ IF outFlag THEN hand'.room = hand.room - 1 /\ hand'.from = hand.from \cup {outFrom}
                       ELSE hand'.room = hand.room /\ hand'.from = hand.from
<1>1. Len(reqs) \in Nat /\ HandOK(hand, Len(reqs)) /\ "check" \in Pcs \ {"get", "held"}
  BY Indices DEF Types, Pcs
<1>2. /\ hand \in Thread /\ hand.msg.type = "setup" /\ hand.pc = "read" /\ hand.room > 0
      /\ hand.room \in 0 .. OutPackets /\ outFrom \in Nat /\ hand.msg.ref <= Len(reqs)
  BY <1>1 DEF HandOK, Thread, ReadData, Working, Types
<1>3. CASE outFlag
  <2> DEFINE r == hand.room - 1
             f == hand.from \cup {outFrom}
  <2>1. r \in 0 .. OutPackets /\ f \in SUBSET Nat
    BY <1>2, Consts DEF Thread
  <2>2. hand' = [hand EXCEPT !.pc = "check", !.room = r, !.from = f]
    BY <1>3 DEF ReadData
  <2> HIDE DEF r, f
  <2>3. /\ hand' \in Thread /\ hand'.pc = "check" /\ hand'.room = r /\ hand'.from = f
        /\ hand'.lo = hand.lo /\ hand'.hi = hand.hi /\ hand'.msg = hand.msg
    BY <1>1, <1>2, <2>1, <2>2 DEF Thread
  <2>4. HandOK(hand', Len(reqs))
    BY <1>1, <1>2, <2>3 DEF HandOK
  <2> QED
    BY <1>2, <1>3, <2>3, <2>4 DEF r, f
<1>4. CASE ~outFlag
  BY <1>1, <1>2, <1>4, GotoOK DEF ReadData
<1> QED
  BY <1>3, <1>4

LEMMA DataStageT == ASSUME Types, CheckData \/ ReadData PROVE Types'
<1>1. Len(reqs) \in Nat /\ HandOK(hand, Len(reqs)) /\ evq \in Seq(Event)
  BY Indices DEF Types
<1>2. CASE CheckData
  <2>1. HandOK(hand', Len(reqs))
    BY <1>2, CheckHand
  <2>2. evq' \in Seq(Event)
    <3>1. /\ hand.lo \in Nat /\ hand.hi \in Nat /\ hand.from \in SUBSET Nat
          /\ UNCHANGED evq \/ Submit(SetupEvent(Source(hand.hi), hand.lo, hand.hi, hand.from))
      BY <1>2, CheckHand
    <3>2. Source(hand.hi) \in Sources
      BY SourceIs DEF Sources
    <3>3. SetupEvent(Source(hand.hi), hand.lo, hand.hi, hand.from) \in Event
      BY <3>1, <3>2, SetupEventOK
    <3> QED
      BY <1>1, <3>1, <3>3, SubmitOK
  <2>3. UNCHANGED <<pktVars, stVars, epVars, msgq, others, stack, given, hostVars>>
    BY <1>2 DEF CheckData
  <2> QED
    BY <2>1, <2>2, <2>3, DriverT DEF Types, pktVars, stVars, epVars, hostVars
<1>3. CASE ReadData
  <2>1. HandOK(hand', Len(reqs))
    BY <1>3, ReadHand
  <2>2. outFlag' \in BOOLEAN /\ outFrom' \in Nat
    <3>1. (outFlag' = FALSE /\ outFrom' = 0) \/ UNCHANGED <<outFlag, outFrom>>
      BY <1>3 DEF ReadData
    <3>2. outFlag \in BOOLEAN /\ outFrom \in Nat
      BY DEF Types
    <3>3. outFlag' \in BOOLEAN
      BY <3>1, <3>2
    <3>4. outFrom' \in Nat
      BY <3>1, <3>2
    <3> QED
      BY <3>3, <3>4
  <2>3. UNCHANGED <<pktVars, stVars, epVars, msgq, others, stackVars, host, bus>>
    BY <1>3 DEF ReadData
  <2> QED
    BY <2>1, <2>2, <2>3, DriverT DEF Types, pktVars, stVars, epVars, stackVars
<1> QED
  BY <1>2, <1>3

(* _usbd_ctrl_in. *)
LEMMA CompleteOK ==
  ASSUME Types, NEW want, CompleteStatus(want)
  PROVE  evq' \in Seq(Event) /\ queue' \in Seq(Buf)
<1>1. evq \in Seq(Event) /\ queue \in Seq(Buf) /\ Notice("status") \in Event
  BY NoticeOK DEF Types, Sources
<1>2. CASE queue = <<>>
  BY <1>1, <1>2 DEF CompleteStatus
<1>3. CASE queue # <<>>
  BY <1>1, <1>3, SubmitOK, TailFacts DEF CompleteStatus
<1> QED
  BY <1>2, <1>3

LEMMA XferT ==
  ASSUME Types, XferAddress \/ XferConfigured \/ XferWakeup \/ XferPlain PROVE Types'
<1>1. Len(reqs) \in Nat /\ HandOK(hand, Len(reqs))
  BY Indices DEF Types
<1>2. HandOK(hand', Len(reqs))
  <2>1. Goto("get") \/ Goto("suspend") \/ Goto("woken")
    BY DEF XferAddress, XferConfigured, XferWakeup, XferPlain
  <2>2. hand.msg.type = "xfer" /\ hand.pc = "held"
    BY DEF XferAddress, XferConfigured, XferWakeup, XferPlain
  <2>3. "suspend" \in Pcs \ {"get", "held"} /\ "woken" \in Pcs \ {"get", "held"}
    BY DEF Pcs
  <2>4. "suspend" \notin Working /\ "woken" \notin Working
    BY DEF Working
  <2> QED
    BY <1>1, <2>1, <2>2, <2>3, <2>4, GotoOK, GotoGet
<1>3. evq' \in Seq(Event) /\ queue' \in Seq(Buf)
  <2>1. CASE XferPlain
    BY <2>1 DEF XferPlain, Types, stackVars
  <2>2. CASE XferAddress \/ XferConfigured \/ XferWakeup
    BY <2>2, CompleteOK DEF XferAddress, XferConfigured, XferWakeup
  <2> QED
    BY <2>1, <2>2
<1>4. UNCHANGED <<pktVars, wakeup, setupEn, suspended, halted, msgq, others, stack, given, hostVars>>
  BY DEF XferAddress, XferConfigured, XferWakeup, XferPlain, stVars, stackVars
<1>5. addressed' = addressed \/ addressed' = 2
  BY DEF XferAddress, XferConfigured, XferWakeup, XferPlain, stVars
<1>6. configured' = configured \/ configured' = 3
  BY DEF XferAddress, XferConfigured, XferWakeup, XferPlain, stVars
<1>7. inSize' \in BOOLEAN
  BY DEF Types, XferAddress, XferConfigured, XferWakeup, XferPlain
<1> QED
  BY <1>2, <1>3, <1>4, <1>5, <1>6, <1>7, DriverT DEF Types, pktVars, hostVars

LEMMA QuietStepT == ASSUME Types, OtherMsg \/ TellSuspended \/ WakeupDone PROVE Types'
<1>1. Len(reqs) \in Nat /\ HandOK(hand, Len(reqs))
  BY Indices DEF Types
<1>2. HandOK(hand', Len(reqs))
  <2>1. CASE Goto("get")
    BY <1>1, <2>1, GotoGet
  <2>2. CASE TellSuspended
    <3>1. hand.msg.type = "xfer" /\ hand.pc = "suspend" /\ "woken" \in Pcs \ {"get", "held"} /\ "woken" \notin Working
      BY <1>1, <2>2 DEF HandOK, TellSuspended, Pcs, Working
    <3> QED
      BY <1>1, <2>2, <3>1, GotoOK DEF TellSuspended
  <2> QED
    BY <2>1, <2>2 DEF OtherMsg, WakeupDone
<1>3. UNCHANGED <<pktVars, addressed, configured, setupEn, queue, halted, msgq, others, stackVars, hostVars>>
  BY DEF OtherMsg, TellSuspended, WakeupDone, stVars, epVars
<1>4. suspended' \in BOOLEAN /\ inSize' \in BOOLEAN
  BY DEF Types, OtherMsg, TellSuspended, WakeupDone, stVars, epVars
<1>5. wakeup' \in 0 .. 2
  BY DEF Types, OtherMsg, TellSuspended, WakeupDone, stVars
<1> QED
  BY <1>2, <1>3, <1>4, <1>5, DriverT DEF Types, pktVars, stackVars, hostVars

(* The USB stack. *)
LEMMA AnswerBuf ==
  ASSUME Types, StackAnswers
  PROVE  LET e == Head(evq) IN
         /\ evq # <<>> /\ e \in Event /\ IsRequest(e) /\ (e.src = "configure" => stack # "default")
         /\ \E left \in Nat :
              /\ left # 0 <=> e.src = "host" /\ StageOf(e.lo, e.hi) = "in"
              /\ Buffer(e, left) \in Buf /\ Enqueue(Buffer(e, left))
<1> DEFINE e == Head(evq)
<1>1. evq # <<>> /\ e \in Event /\ IsRequest(e) /\ (e.src = "configure" => stack # "default")
  BY TailFacts DEF StackAnswers, Types
<1>2. PICK left \in IF e.src \in {"host"} /\ StageOf(e.lo, e.hi) = "in" THEN 1 .. InPackets ELSE {0} :
         Enqueue(Buffer(e, left))
  BY DEF StackAnswers
<1> HIDE DEF e
<1>3. left \in Nat /\ (left # 0 <=> e.src = "host" /\ StageOf(e.lo, e.hi) = "in")
  BY <1>2, Consts
<1>4. Buffer(e, left) \in Buf
  BY <1>1, <1>3 DEF Buffer, Buf, BufRec, Event
<1> QED
  BY <1>1, <1>2, <1>3, <1>4 DEF e

LEMMA EnqueueOK == ASSUME Types, NEW b \in Buf, Enqueue(b) PROVE queue' \in Seq(Buf) /\ MsgsOK(msgq', Len(reqs))
<1>1. Len(reqs) \in Nat /\ MsgsOK(msgq, Len(reqs)) /\ queue \in Seq(Buf)
  BY Indices DEF Types
<1>2. queue' \in Seq(Buf)
  BY <1>1, AppendFacts DEF Enqueue
<1>3. MsgsOK(msgq', Len(reqs))
  BY <1>1, SendOK DEF Enqueue
<1> QED
  BY <1>2, <1>3

LEMMA StackT == ASSUME Types, Stack \/ OtherEnqueue PROVE Types'
<1>1. Len(reqs) \in Nat /\ MsgsOK(msgq, Len(reqs)) /\ evq \in Seq(Event)
  BY Indices DEF Types
<1>2. CASE StackAnswers
  <2>1. PICK left \in Nat : Buffer(Head(evq), left) \in Buf /\ Enqueue(Buffer(Head(evq), left))
    BY <1>2, AnswerBuf
  <2>2. queue' \in Seq(Buf) /\ MsgsOK(msgq', Len(reqs))
    BY <2>1, EnqueueOK
  <2>3. evq' \in Seq(Event)
    BY <1>1, <1>2, TailFacts DEF StackAnswers
  <2>4. stack' \in {"default", "address", "configured"}
    BY <1>2 DEF StackAnswers, Types
  <2>5. UNCHANGED <<pktVars, stVars, inSize, halted, hand, others, hostVars>>
    BY <1>2 DEF StackAnswers
  <2> QED
    BY <2>2, <2>3, <2>4, <2>5 DEF Types, pktVars, stVars, hostVars
<1>3. CASE StackRefuses \/ StackNotes
  <2>1. evq' \in Seq(Event)
    BY <1>1, <1>3, TailFacts DEF StackRefuses, StackNotes
  <2>2. stack' \in {"default", "address", "configured"} /\ halted' \in BOOLEAN
    BY <1>3 DEF StackRefuses, StackNotes, epVars, Types
  <2>3. UNCHANGED <<pktVars, stVars, queue, inSize, thrVars, hostVars>>
    BY <1>3 DEF StackRefuses, StackNotes, epVars
  <2> QED
    BY <2>1, <2>2, <2>3 DEF Types, pktVars, stVars, thrVars, hostVars
<1>4. CASE OtherEnqueue
  <2>1. MsgsOK(msgq', Len(reqs))
    BY <1>1, <1>4, SendOK DEF OtherEnqueue
  <2>2. others' \in 0 .. MaxOther
    BY <1>4, Consts DEF OtherEnqueue, Types
  <2>3. UNCHANGED <<pktVars, stVars, epVars, hand, stackVars, hostVars>>
    BY <1>4 DEF OtherEnqueue
  <2> QED
    BY <2>1, <2>2, <2>3 DEF Types, pktVars, stVars, epVars, stackVars, hostVars
<1> QED
  BY <1>2, <1>3, <1>4 DEF Stack

LEMMA StepTypes == Types /\ [Next]_vars => Types'
<1> SUFFICES ASSUME Types, [Next]_vars PROVE Types'
  OBVIOUS
<1>1. CASE UNCHANGED vars
  BY <1>1 DEF Types, vars, pktVars, stVars, epVars, thrVars, stackVars, hostVars
<1>2. CASE HostSteps
  BY <1>2, HostDataT, HostPollT, HostStalledT, HostResetT, HostSleepT, HostSetupT DEF HostSteps
<1>3. CASE Driver
  BY <1>3, GetMsgT, AddressT, ConfigT, SetupT, DataStageT, XferT, QuietStepT DEF Driver
<1>4. CASE Stack \/ OtherEnqueue
  BY <1>4, StackT
<1> QED
  BY <1>1, <1>2, <1>3, <1>4 DEF Next

LEMMA Typed == Spec => []Types
<1>1. Init => Types
  BY InitTypes
<1>2. Types /\ [Next]_vars => Types'
  BY StepTypes
<1> QED
  BY <1>1, <1>2, PTL DEF Spec

(* The variables of the control endpoint have their types, for every size  *)
(* of the message queue and every number of requests: setup_pkg is the     *)
(* last packet, the references stay within the requests, the queue within  *)
(* its size.                                                               *)
THEOREM TypeCorrect == Spec => []TypeOK
BY Typed, TypesImply, PTL

-----------------------------------------------------------------------------
(* What the steps do to the queues, element by element.                    *)

LEMMA GapsGrow == ASSUME [Next]_vars PROVE gaps \subseteq gaps'
<1>1. CASE UNCHANGED vars
  BY <1>1 DEF vars, histVars
<1>2. CASE HostSteps
  <2>1. CASE HostPoll
    BY <2>1 DEF HostPoll
  <2>2. CASE HostData \/ HostStalled \/ HostReset
    BY <2>2 DEF HostData, HostStalled, HostReset, histVars
  <2>3. CASE HostSuspend \/ HostResume
    BY <2>3 DEF HostSuspend, HostResume, Feature
  <2>4. CASE \E k \in Asks : HostSetup(k)
    BY <2>4 DEF HostSetup
  <2> QED
    BY <1>2, <2>1, <2>2, <2>3, <2>4 DEF HostSteps
<1>3. CASE Driver
  <2>1. CASE XferAddress \/ XferConfigured \/ XferWakeup
    BY <2>1 DEF XferAddress, XferConfigured, XferWakeup, CompleteStatus
  <2>2. CASE ReadData
    BY <2>2 DEF ReadData
  <2>3. CASE ~(XferAddress \/ XferConfigured \/ XferWakeup \/ ReadData)
    BY <1>3, <2>3 DEF Driver, GetMsg, OtherMsg, AddressEvent, AddressDone, ConfigEvent, ConfigDone,
                      TakeSetup, CopyHigh, CheckData, TellSuspended, WakeupDone, XferPlain, histVars
  <2> QED
    BY <2>1, <2>2, <2>3
<1>4. CASE Stack \/ OtherEnqueue
  <2>1. CASE StackAnswers
    BY <2>1 DEF StackAnswers, Enqueue, SendMsg
  <2>2. CASE StackRefuses \/ StackNotes
    BY <2>2 DEF StackRefuses, StackNotes, histVars
  <2>3. CASE OtherEnqueue
    BY <2>3 DEF OtherEnqueue, SendMsg
  <2> QED
    BY <1>4, <2>1, <2>2, <2>3 DEF Stack
<1> QED
  BY <1>1, <1>2, <1>3, <1>4 DEF Next

Known == /\ Len(reqs) \in Nat /\ Len(evq) \in Nat /\ Len(msgq) \in Nat /\ Len(queue) \in Nat
         /\ \A i \in 1 .. Len(evq) : evq[i] \in Event
         /\ \A i \in 1 .. Len(msgq) : msgq[i] \in Msg
         /\ \A i \in 1 .. Len(queue) : queue[i] \in Buf
         /\ \A i \in 1 .. Len(reqs) : reqs[i] \in AllKinds
         /\ DOMAIN reqs = 1 .. Len(reqs) /\ DOMAIN evq = 1 .. Len(evq)
         /\ DOMAIN msgq = 1 .. Len(msgq) /\ DOMAIN queue = 1 .. Len(queue)

LEMMA Elements == ASSUME Types PROVE Known
<1>1. reqs \in Seq(AllKinds) /\ evq \in Seq(Event) /\ msgq \in Seq(Msg) /\ queue \in Seq(Buf)
  BY DEF Types, MsgsOK
<1> QED
  BY <1>1, Indices DEF Known

LEMMA Submitted ==
  ASSUME Types, NEW e \in Event, Submit(e)
  PROVE  /\ Len(evq') = Len(evq) + 1 /\ evq'[Len(evq) + 1] = e
         /\ \A i \in 1 .. Len(evq) : evq'[i] = evq[i]
BY AppendFacts DEF Types, Submit

LEMMA Popped ==
  ASSUME Types, evq # <<>>, evq' = Tail(evq)
  PROVE  /\ Len(evq) \in Nat \ {0} /\ Len(evq') = Len(evq) - 1 /\ Head(evq) = evq[1] /\ evq[1] \in Event
         /\ \A i \in 1 .. Len(evq) - 1 : evq'[i] = evq[i + 1]
BY TailFacts DEF Types

(* A SETUP message is put, or lost.                                        *)
LEMMA PutEffect ==
  ASSUME Types, NEW ref \in Nat, PutSetup(ref)
  PROVE  \/ QueueFull /\ msgq' = msgq
         \/ /\ ~QueueFull /\ Len(msgq') = Len(msgq) + 1 /\ msgq'[Len(msgq) + 1] = SetupMsg(ref)
            /\ \A i \in 1 .. Len(msgq) : msgq'[i] = msgq[i]
<1>1. msgq \in Seq(Msg) /\ SetupMsg(ref) \in Msg
  BY SetupMsgOK DEF Types, MsgsOK
<1> QED
  BY <1>1, AppendFacts DEF PutSetup

(* Another message is put, or all are lost.                                *)
LEMMA SendEffect ==
  ASSUME Types, NEW type \in {"xfer", "other"}, SendMsg(type)
  PROVE  \/ QueueFull /\ "lost" \in gaps' /\ msgq' = <<>> /\ Len(msgq') = 0
         \/ /\ ~QueueFull /\ gaps' = gaps /\ Len(msgq') = Len(msgq) + 1
            /\ msgq'[Len(msgq) + 1] = [type |-> type, ref |-> 0]
            /\ \A i \in 1 .. Len(msgq) : msgq'[i] = msgq[i]
<1>1. msgq \in Seq(Msg) /\ [type |-> type, ref |-> 0] \in Msg
  BY DEF Types, MsgsOK, Msg
<1>2. CASE QueueFull
  BY <1>2 DEF SendMsg
<1>3. CASE ~QueueFull
  BY <1>1, <1>3, AppendFacts DEF SendMsg
<1> QED
  BY <1>2, <1>3

LEMMA GotEffect ==
  ASSUME Types, GetMsg
  PROVE  /\ Len(msgq) \in Nat \ {0} /\ Len(msgq') = Len(msgq) - 1
         /\ \A i \in 1 .. Len(msgq) - 1 : msgq'[i] = msgq[i + 1]
         /\ hand = Idle /\ hand'.pc = "held" /\ hand'.msg = msgq[1]
<1>1. msgq \in Seq(Msg) /\ msgq # <<>> /\ hand = Idle
  BY DEF Types, MsgsOK, GetMsg, HandOK
<1>2. Head(msgq) = msgq[1] /\ Head(msgq) \in Msg /\ Idle \in Thread /\ "held" \in Pcs
  BY <1>1, TailFacts, IdleOK DEF Pcs
<1>3. hand' = [Idle EXCEPT !.pc = "held", !.msg = Head(msgq)]
  BY DEF GetMsg
<1>4. hand'.pc = "held" /\ hand'.msg = msgq[1]
  BY <1>2, <1>3 DEF Thread
<1> QED
  BY <1>1, <1>4, TailFacts DEF GetMsg

-----------------------------------------------------------------------------
(* The last packet wins.  Unless a message is lost, the last packet is on  *)
(* its way: a message with the current reference waits in the queue, or    *)
(* the driver thread has one and no newer packet has come since it copied  *)
(* setup_pkg, or the last request submitted is that packet.                *)

IsSetup(e) == e.src \in {"host", "feature"}
IsLast(e)  == e.lo = Len(reqs) /\ e.hi = Len(reqs)

(* The last request submitted, or else the last one the stack was given.   *)
Told ==
  \E k \in 0 .. Len(evq) :
    /\ k = 0 => given = <<Len(reqs), Len(reqs)>>
    /\ k > 0 => IsSetup(evq[k]) /\ IsLast(evq[k])
    /\ \A j \in 1 .. Len(evq) : j > k /\ IsSetup(evq[j]) => IsLast(evq[j])

Waiting  == \E i \in 1 .. Len(msgq) : msgq[i] = SetupMsg(cur)
Whole    == /\ hand.pc \in {"high", "check", "read"} => hand.lo = Len(reqs)
            /\ hand.pc \in {"check", "read"} => hand.hi = Len(reqs)
Delivers == hand.msg = SetupMsg(cur) /\ (hand.pc \in {"high", "check", "read"} => proc = cur)

LastInv == "lost" \notin gaps /\ cur > 0 => Waiting \/ (Whole /\ (Delivers \/ Told))

LEMMA LastStep ==
  ASSUME LastInv, UNCHANGED <<reqs, cur>>, gaps \subseteq gaps',
         "lost" \notin gaps' /\ Waiting => Waiting' \/ (Whole' /\ Delivers'),
         Whole /\ (Delivers \/ Told) => Whole' /\ (Delivers' \/ Told')
  PROVE  LastInv'
BY DEF LastInv

(* Nothing but the events and the irregularities changes.                  *)
LEMMA LastAside ==
  ASSUME LastInv, UNCHANGED <<reqs, cur, proc, hand, msgq>>, gaps \subseteq gaps', Told => Told'
  PROVE  LastInv'
BY LastStep DEF Waiting, Whole, Delivers

LEMMA ToldSame == ASSUME Told, UNCHANGED <<reqs, evq, given>> PROVE Told'
BY DEF Told, IsLast, IsSetup

LEMMA ToldNotice ==
  ASSUME Types, Told, NEW src \in Sources \ {"host", "feature"}, Submit(Notice(src)), UNCHANGED <<reqs, given>>
  PROVE  Told'
<1>1. /\ Len(evq') = Len(evq) + 1 /\ evq'[Len(evq) + 1] = Notice(src) /\ Len(evq) \in Nat
      /\ \A i \in 1 .. Len(evq) : evq'[i] = evq[i]
  BY NoticeOK, Submitted, Elements DEF Known
<1>2. ~IsSetup(Notice(src))
  BY NoticeOK DEF IsSetup
<1>3. PICK k \in 0 .. Len(evq) :
         /\ k = 0 => given = <<Len(reqs), Len(reqs)>>
         /\ k > 0 => IsSetup(evq[k]) /\ IsLast(evq[k])
         /\ \A j \in 1 .. Len(evq) : j > k /\ IsSetup(evq[j]) => IsLast(evq[j])
  BY DEF Told
<1>4. k \in 0 .. Len(evq') /\ (k > 0 => k \in 1 .. Len(evq))
  BY <1>1
<1>5. \A e : IsLast(e)' = IsLast(e)
  BY DEF IsLast
<1>6. ASSUME NEW j \in 1 .. Len(evq'), j > k, IsSetup(evq'[j]) PROVE IsLast(evq'[j])
  <2>1. j # Len(evq) + 1
    BY <1>1, <1>2, <1>6
  <2>2. j \in 1 .. Len(evq)
    BY <1>1, <2>1
  <2> QED
    BY <1>1, <1>3, <1>6, <2>2
<1>7. k > 0 => IsSetup(evq'[k]) /\ IsLast(evq'[k])
  BY <1>1, <1>3, <1>4
<1> QED
  BY <1>3, <1>4, <1>6, <1>7 DEF Told, IsLast, IsSetup

LEMMA ToldNew ==
  ASSUME Types, NEW src \in {"host", "feature"}, NEW from \in SUBSET Nat,
         Submit(SetupEvent(src, Len(reqs), Len(reqs), from)), UNCHANGED reqs
  PROVE  Told'
<1>1. src \in Sources /\ Len(reqs) \in Nat /\ Len(evq) \in Nat
  BY Elements DEF Sources, Known
<1> DEFINE e == SetupEvent(src, Len(reqs), Len(reqs), from)
<1>2. e \in Event /\ e.src = src /\ e.lo = Len(reqs) /\ e.hi = Len(reqs)
  BY <1>1, SetupEventOK
<1> HIDE DEF e
<1>3. Len(evq') = Len(evq) + 1 /\ evq'[Len(evq) + 1] = e
  BY <1>2, Submitted DEF e
<1> DEFINE k == Len(evq) + 1
<1>4. k \in 0 .. Len(evq') /\ k > 0 /\ k # 0 /\ \A j \in 1 .. Len(evq') : ~(j > k)
  BY <1>1, <1>3
<1>5. IsSetup(evq'[k]) /\ IsLast(evq'[k])
  BY <1>2, <1>3 DEF IsSetup, IsLast
<1> HIDE DEF k
<1> QED
  BY <1>4, <1>5 DEF Told, IsLast, IsSetup

LEMMA ToldTail ==
  ASSUME Types, Told, evq # <<>>, evq' = Tail(evq), UNCHANGED reqs,
         given' = IF IsSetup(Head(evq)) THEN <<Head(evq).lo, Head(evq).hi>> ELSE given
  PROVE  Told'
<1>1. /\ Len(evq) \in Nat \ {0} /\ Len(evq') = Len(evq) - 1 /\ Head(evq) = evq[1]
      /\ \A i \in 1 .. Len(evq) - 1 : evq'[i] = evq[i + 1]
  BY Popped
<1>2. PICK k \in 0 .. Len(evq) :
         /\ k = 0 => given = <<Len(reqs), Len(reqs)>>
         /\ k > 0 => IsSetup(evq[k]) /\ IsLast(evq[k])
         /\ \A j \in 1 .. Len(evq) : j > k /\ IsSetup(evq[j]) => IsLast(evq[j])
  BY DEF Told
<1>3. ASSUME NEW j \in 1 .. Len(evq'), j > k - 1, IsSetup(evq'[j]) PROVE IsLast(evq'[j])
  <2>1. j + 1 \in 1 .. Len(evq) /\ j + 1 > k /\ evq'[j] = evq[j + 1]
    BY <1>1, <1>3
  <2> QED
    BY <1>2, <1>3, <2>1
<1>4. CASE k > 1
  <2>1. k - 1 \in 0 .. Len(evq') /\ k - 1 \in 1 .. Len(evq) - 1 /\ k - 1 > 0 /\ k - 1 # 0 /\ (k - 1) + 1 = k
    BY <1>1, <1>4
  <2>2. IsSetup(evq'[k - 1]) /\ IsLast(evq'[k - 1])
    BY <1>1, <1>2, <1>4, <2>1
  <2> QED
    BY <1>3, <2>1, <2>2 DEF Told, IsLast, IsSetup
<1>5. CASE k <= 1
  <2>1. k = 0 \/ k = 1
    BY <1>5
  <2>2. given' = <<Len(reqs), Len(reqs)>>
    <3>1. IsSetup(evq[1]) => IsLast(evq[1])
      BY <1>1, <1>2, <2>1
    <3>2. CASE IsSetup(evq[1])
      BY <1>1, <3>1, <3>2 DEF IsLast
    <3>3. CASE ~IsSetup(evq[1])
      BY <1>1, <1>2, <2>1, <3>3
    <3> QED
      BY <3>2, <3>3
  <2>3. \A j \in 1 .. Len(evq') : IsSetup(evq'[j]) => IsLast(evq'[j])
    BY <1>1, <1>3, <2>1
  <2>4. 0 \in 0 .. Len(evq') /\ ~(0 > 0)
    BY <1>1
  <2> QED
    BY <2>2, <2>3, <2>4 DEF Told, IsLast, IsSetup
<1> QED
  BY <1>4, <1>5

(* A new packet: its message waits, or it is lost.                         *)
LEMMA ArrivedL ==
  ASSUME Types, PutSetup(cur + 1), cur' = cur + 1, QueueFull => "lost" \in gaps'
  PROVE  LastInv'
<1>1. cur + 1 \in Nat /\ Len(msgq) \in Nat
  BY Elements DEF Types, Known
<1>2. CASE QueueFull
  BY <1>2 DEF LastInv
<1>3. CASE ~QueueFull
  <2>1. Len(msgq') = Len(msgq) + 1 /\ msgq'[Len(msgq) + 1] = SetupMsg(cur')
    BY <1>1, <1>3, PutEffect
  <2>2. Len(msgq) + 1 \in 1 .. Len(msgq')
    BY <1>1, <2>1
  <2>3. Waiting'
    BY <2>1, <2>2 DEF Waiting, SetupMsg
  <2> QED
    BY <2>3 DEF LastInv
<1> QED
  BY <1>2, <1>3

LEMMA HostL == ASSUME Types, LastInv, HostSteps PROVE LastInv'
<1>1. CASE HostData \/ HostStalled
  <2>1. UNCHANGED <<reqs, cur, proc, hand, msgq, evq, given, gaps>>
    BY <1>1 DEF HostData, HostStalled, pktVars, thrVars, stackVars, histVars
  <2> QED
    BY <2>1, LastAside, ToldSame
<1>2. CASE HostPoll
  <2>1. UNCHANGED <<reqs, cur, proc, hand, msgq, given>> /\ gaps \subseteq gaps'
    BY <1>2 DEF HostPoll, pktVars, thrVars
  <2>2. UNCHANGED evq \/ Submit(Notice("status"))
    BY <1>2 DEF HostPoll
  <2>3. "status" \in Sources \ {"host", "feature"}
    BY DEF Sources
  <2> QED
    BY <2>1, <2>2, <2>3, LastAside, ToldSame, ToldNotice
<1>3. CASE HostReset
  BY <1>3 DEF HostReset, LastInv
<1>4. CASE \E k \in Asks : HostSetup(k)
  <2>1. PutSetup(cur + 1) /\ cur' = cur + 1 /\ (QueueFull => "lost" \in gaps')
    BY <1>4 DEF HostSetup, SetupIsr
  <2> QED
    BY <2>1, ArrivedL
<1>5. CASE HostSuspend \/ HostResume
  <2>1. Feature(1) \/ Feature(2)
    BY <1>5 DEF HostSuspend, HostResume
  <2>2. UNCHANGED <<proc, hand, evq, given>>
    BY <1>5 DEF HostSuspend, HostResume, stackVars
  <2>3. CASE configured = 3
    <3>1. PutSetup(cur + 1) /\ cur' = cur + 1 /\ (QueueFull => "lost" \in gaps')
      BY <2>1, <2>3 DEF Feature
    <3> QED
      BY <3>1, ArrivedL
  <2>4. CASE configured # 3
    <3>1. UNCHANGED <<reqs, cur, msgq, gaps>>
      BY <2>1, <2>4 DEF Feature
    <3> QED
      BY <2>2, <3>1, LastAside, ToldSame
  <2> QED
    BY <2>3, <2>4
<1> QED
  BY <1>1, <1>2, <1>3, <1>4, <1>5 DEF HostSteps

LEMMA GetL == ASSUME Types, LastInv, GetMsg PROVE LastInv'
<1>1. /\ Len(msgq) \in Nat \ {0} /\ Len(msgq') = Len(msgq) - 1
      /\ \A i \in 1 .. Len(msgq) - 1 : msgq'[i] = msgq[i + 1]
      /\ hand = Idle /\ hand'.pc = "held" /\ hand'.msg = msgq[1]
  BY GotEffect
<1>2. UNCHANGED <<reqs, cur, proc, evq, given, gaps>>
  BY DEF GetMsg, pktVars, stackVars, histVars
<1>3. Whole'
  BY <1>1 DEF Whole
<1>4. ASSUME Waiting PROVE Waiting' \/ Delivers'
  <2>1. PICK i \in 1 .. Len(msgq) : msgq[i] = SetupMsg(cur)
    BY <1>4 DEF Waiting
  <2>2. CASE i = 1
    BY <1>1, <1>2, <2>1, <2>2 DEF Delivers, SetupMsg
  <2>3. CASE i # 1
    <3>1. i - 1 \in 1 .. Len(msgq') /\ (i - 1) + 1 = i /\ i - 1 \in 1 .. Len(msgq) - 1
      BY <1>1, <2>3
    <3>2. msgq'[i - 1] = SetupMsg(cur)
      BY <1>1, <2>1, <3>1
    <3> QED
      BY <1>2, <3>1, <3>2 DEF Waiting, SetupMsg
  <2> QED
    BY <2>2, <2>3
<1>5. ~Delivers
  BY <1>1 DEF Delivers, Idle, NoMsg, SetupMsg
<1> QED
  BY <1>2, <1>3, <1>4, <1>5, LastStep, ToldSame

(* Steps of the thread that go on with the same message, or with none of   *)
(* it when it was not a SETUP message or its request has been submitted.   *)
LEMMA MovesL ==
  ASSUME Types, LastInv, UNCHANGED <<reqs, cur, proc, msgq>>, gaps \subseteq gaps',
         hand'.pc \notin {"high", "check", "read"},
         hand'.msg = hand.msg \/ hand.msg.type # "setup",
         Told => Told'
  PROVE  LastInv'
<1>1. Whole'
  BY DEF Whole
<1>2. Delivers => Delivers'
  BY DEF Delivers, SetupMsg
<1>3. Waiting => Waiting'
  BY DEF Waiting
<1> QED
  BY <1>1, <1>2, <1>3, LastStep

LEMMA EnumerateL ==
  ASSUME Types, LastInv, AddressEvent \/ AddressDone \/ ConfigEvent \/ ConfigDone
  PROVE  LastInv'
<1>1. UNCHANGED <<reqs, cur, proc, msgq, given, gaps>>
  BY DEF AddressEvent, AddressDone, ConfigEvent, ConfigDone, pktVars, stackVars, histVars
<1>2. UNCHANGED evq \/ \E src \in {"address", "configure"} : Submit(Notice(src))
  BY DEF AddressEvent, AddressDone, ConfigEvent, ConfigDone, stackVars
<1>3. {"address", "configure"} \subseteq Sources \ {"host", "feature"}
  BY DEF Sources
<1>4. Told => Told'
  BY <1>1, <1>2, <1>3, ToldSame, ToldNotice
<1>5. hand'.pc \notin {"high", "check", "read"} /\ hand'.msg = hand.msg
  <2>1. /\ Len(reqs) \in Nat /\ HandOK(hand, Len(reqs))
        /\ {"addressed", "conf", "configured", "take"} \subseteq Pcs \ {"get", "held", "suspend", "woken", "read", "check", "high"}
    BY Elements DEF Types, Known, Pcs
  <2>2. hand.msg.type = "setup" /\ hand.pc \notin {"check", "read"}
    BY <2>1 DEF AddressEvent, AddressDone, ConfigEvent, ConfigDone, HandOK, Working
  <2>3. \E pc \in {"addressed", "conf", "configured", "take"} : Goto(pc)
    BY DEF AddressEvent, AddressDone, ConfigEvent, ConfigDone
  <2> QED
    BY <2>1, <2>2, <2>3, GotoOK
<1> QED
  BY <1>1, <1>4, <1>5, MovesL

(* What _usbd_ctrl_in submits. *)
LEMMA XferEvents ==
  ASSUME XferAddress \/ XferConfigured \/ XferWakeup \/ XferPlain
  PROVE  UNCHANGED evq \/ Submit(Notice("status"))
BY DEF XferAddress, XferConfigured, XferWakeup, XferPlain, CompleteStatus, stackVars

LEMMA XferL ==
  ASSUME Types, LastInv, [Next]_vars,
         XferAddress \/ XferConfigured \/ XferWakeup \/ XferPlain \/ OtherMsg \/ TellSuspended \/ WakeupDone
  PROVE  LastInv'
<1>1. UNCHANGED <<reqs, cur, proc, msgq, given>> /\ gaps \subseteq gaps'
  BY GapsGrow DEF XferAddress, XferConfigured, XferWakeup, XferPlain, OtherMsg, TellSuspended, WakeupDone,
                  pktVars, stackVars
<1>2. UNCHANGED evq \/ Submit(Notice("status"))
  BY XferEvents DEF OtherMsg, TellSuspended, WakeupDone, stackVars
<1>3. "status" \in Sources \ {"host", "feature"}
  BY DEF Sources
<1>4. Told => Told'
  BY <1>1, <1>2, <1>3, ToldSame, ToldNotice
<1>5. hand.msg.type # "setup" /\ hand.pc \in {"held", "suspend", "woken"}
  BY DEF Types, HandOK, XferAddress, XferConfigured, XferWakeup, XferPlain, OtherMsg, TellSuspended, WakeupDone
<1>6. hand'.pc \notin {"high", "check", "read"}
  <2>1. Len(reqs) \in Nat /\ HandOK(hand, Len(reqs)) /\ {"suspend", "woken"} \subseteq Pcs
    BY Elements DEF Types, Known, Pcs
  <2>2. hand \in Thread
    BY <2>1 DEF HandOK
  <2>3. Goto("get") \/ Goto("suspend") \/ Goto("woken")
    BY DEF XferAddress, XferConfigured, XferWakeup, XferPlain, OtherMsg, TellSuspended, WakeupDone
  <2> QED
    BY <2>2, <2>3 DEF Goto, Idle, Thread
<1> QED
  BY <1>1, <1>4, <1>5, <1>6, MovesL

LEMMA SetupL == ASSUME Types, LastInv, TakeSetup \/ CopyHigh PROVE LastInv'
<1>1. UNCHANGED <<reqs, cur, msgq, given, gaps>> /\ pkg = Len(reqs) /\ Len(reqs) \in Nat
  BY Elements DEF TakeSetup, CopyHigh, pktVars, stackVars, histVars, Types, Known
<1>2. Waiting => Waiting'
  BY <1>1 DEF Waiting
<1>3. CASE TakeSetup
  <2>1. /\ hand'.pc = "high" /\ hand'.lo = pkg /\ hand'.msg = hand.msg /\ proc' = hand.msg.ref /\ UNCHANGED evq
    BY <1>3, TakeHand DEF TakeSetup, stackVars
  <2>2. Whole'
    BY <1>1, <2>1 DEF Whole
  <2>3. Delivers => Delivers'
    BY <1>1, <2>1 DEF Delivers, SetupMsg
  <2> QED
    BY <1>1, <1>2, <2>1, <2>2, <2>3, LastStep, ToldSame
<1>4. CASE CopyHigh
  <2>1. hand.pc = "high" /\ UNCHANGED proc
    BY <1>4 DEF CopyHigh, pktVars
  <2>2. \/ /\ hand'.pc = "check" /\ hand'.lo = hand.lo /\ hand'.hi = pkg /\ hand'.msg = hand.msg /\ UNCHANGED evq
        \/ hand' = Idle /\ Submit(SetupEvent(Source(pkg), hand.lo, pkg, {}))
    BY <1>4, CopyHand
  <2>3. Whole => Whole'
    BY <1>1, <2>1, <2>2 DEF Whole, Idle
  <2>4. Whole /\ (Delivers \/ Told) => Delivers' \/ Told'
    <3>1. CASE hand'.pc = "check" /\ hand'.msg = hand.msg /\ UNCHANGED evq
      <4>1. Delivers => Delivers'
        BY <1>1, <2>1, <3>1 DEF Delivers, SetupMsg
      <4> QED
        BY <1>1, <3>1, <4>1, ToldSame
    <3>2. CASE Submit(SetupEvent(Source(pkg), hand.lo, pkg, {}))
      <4>1. Whole => hand.lo = Len(reqs)
        BY <2>1 DEF Whole
      <4>2. Source(pkg) \in {"host", "feature"} /\ {} \in SUBSET Nat
        BY SourceIs
      <4> QED
        BY <1>1, <3>2, <4>1, <4>2, ToldNew
    <3> QED
      BY <2>2, <3>1, <3>2
  <2> QED
    BY <1>1, <1>2, <2>3, <2>4, LastStep
<1> QED
  BY <1>3, <1>4

LEMMA DataStageL == ASSUME Types, LastInv, [Next]_vars, CheckData \/ ReadData PROVE LastInv'
<1>1. UNCHANGED <<reqs, cur, proc, msgq, given>> /\ gaps \subseteq gaps'
  BY GapsGrow DEF CheckData, ReadData, pktVars, stackVars
<1>2. Waiting => Waiting'
  BY <1>1 DEF Waiting
<1>3. CASE hand.pc \in {"check", "read"} /\ hand'.pc \in {"check", "read"} /\ hand'.msg = hand.msg
           /\ hand'.lo = hand.lo /\ hand'.hi = hand.hi /\ UNCHANGED evq
  <2>1. Whole => Whole'
    BY <1>1, <1>3 DEF Whole
  <2>2. Delivers => Delivers'
    BY <1>1, <1>3 DEF Delivers, SetupMsg
  <2> QED
    BY <1>1, <1>2, <1>3, <2>1, <2>2, LastStep, ToldSame
<1>4. CASE hand.pc = "check" /\ hand' = Idle
           /\ (\/ proc # cur /\ UNCHANGED evq
               \/ Submit(SetupEvent(Source(hand.hi), hand.lo, hand.hi, hand.from)))
  <2>1. Whole'
    BY <1>4 DEF Whole, Idle
  <2>2. Whole /\ (Delivers \/ Told) => Told'
    <3>1. CASE proc # cur /\ UNCHANGED evq
      BY <1>1, <1>4, <3>1, ToldSame DEF Delivers
    <3>2. CASE Submit(SetupEvent(Source(hand.hi), hand.lo, hand.hi, hand.from))
      <4>1. Whole => hand.lo = Len(reqs) /\ hand.hi = Len(reqs)
        BY <1>4 DEF Whole
      <4>2. Source(hand.hi) \in {"host", "feature"} /\ hand.from \in SUBSET Nat
        BY SourceIs DEF Types, HandOK, Thread
      <4> QED
        BY <1>1, <3>2, <4>1, <4>2, ToldNew
    <3> QED
      BY <1>4, <3>1, <3>2
  <2> QED
    BY <1>1, <1>2, <2>1, <2>2, LastStep
<1>5. CASE CheckData
  <2>1. hand.pc = "check"
    BY <1>5 DEF CheckData
  <2> QED
    BY <1>3, <1>4, <1>5, <2>1, CheckHand
<1>6. CASE ReadData
  <2>1. UNCHANGED evq
    BY <1>6 DEF ReadData, stackVars
  <2> QED
    BY <1>3, <1>6, <2>1, ReadHand
<1> QED
  BY <1>5, <1>6

LEMMA StackL == ASSUME Types, LastInv, [Next]_vars, Stack \/ OtherEnqueue PROVE LastInv'
<1>1. UNCHANGED <<reqs, cur, proc, hand>> /\ gaps \subseteq gaps'
  BY GapsGrow DEF Stack, OtherEnqueue, StackAnswers, StackRefuses, StackNotes, pktVars, thrVars
<1>2. Told => Told'
  <2>1. CASE OtherEnqueue
    BY <1>1, <2>1, ToldSame DEF OtherEnqueue, stackVars
  <2>2. CASE StackAnswers \/ StackRefuses
    <3>1. /\ evq # <<>> /\ evq' = Tail(evq)
          /\ given' = IF IsSetup(Head(evq)) THEN <<Head(evq).lo, Head(evq).hi>> ELSE given
      BY <2>2 DEF StackAnswers, StackRefuses, IsSetup
    <3> QED
      BY <1>1, <3>1, ToldTail
  <2>3. CASE StackNotes
    <3>1. evq # <<>> /\ evq' = Tail(evq) /\ given' = given /\ ~IsSetup(Head(evq))
      BY <2>3 DEF StackNotes, IsSetup
    <3> QED
      BY <1>1, <3>1, ToldTail
  <2> QED
    BY <2>1, <2>2, <2>3 DEF Stack
<1>3. "lost" \notin gaps' /\ Waiting => Waiting'
  <2>1. CASE UNCHANGED msgq
    BY <1>1, <2>1 DEF Waiting
  <2>2. CASE \E type \in {"xfer", "other"} : SendMsg(type)
    <3>1. \/ "lost" \in gaps'
          \/ Len(msgq') = Len(msgq) + 1 /\ \A i \in 1 .. Len(msgq) : msgq'[i] = msgq[i]
      BY <2>2, SendEffect
    <3>2. Len(msgq) \in Nat
      BY Elements DEF Known
    <3> QED
      BY <1>1, <3>1, <3>2 DEF Waiting, SetupMsg
  <2>3. CASE StackAnswers
    <3>1. \E b : Enqueue(b)
      BY <2>3, AnswerBuf
    <3> QED
      BY <2>1, <2>2, <3>1 DEF Enqueue
  <2> QED
    BY <2>1, <2>2, <2>3 DEF Stack, OtherEnqueue, StackRefuses, StackNotes, thrVars
<1>4. (Whole => Whole') /\ (Delivers => Delivers')
  BY <1>1 DEF Whole, Delivers, SetupMsg
<1> QED
  BY <1>1, <1>2, <1>3, <1>4, LastStep

LEMMA StepLast == Types /\ LastInv /\ [Next]_vars => LastInv'
<1> SUFFICES ASSUME Types, LastInv, [Next]_vars PROVE LastInv'
  OBVIOUS
<1>1. CASE UNCHANGED vars
  <2>1. UNCHANGED <<reqs, cur, proc, hand, msgq, evq, given, gaps>>
    BY <1>1 DEF vars, pktVars, thrVars, stackVars, histVars
  <2> QED
    BY <2>1, LastAside, ToldSame
<1>2. CASE HostSteps
  BY <1>2, HostL
<1>3. CASE Driver
  BY <1>3, GetL, EnumerateL, SetupL, DataStageL, XferL DEF Driver
<1>4. CASE Stack \/ OtherEnqueue
  BY <1>4, StackL
<1> QED
  BY <1>1, <1>2, <1>3, <1>4 DEF Next

(* When nothing is under way any more, the packet the stack was given last *)
(* is the last one that arrived, and whole (e967_usb_setup_isr,            *)
(* udc_e967_msg_handler_setup, usbd_ctrl_feed_dout), unless a message was  *)
(* lost: true of every size of the message queue and every number of       *)
(* packets that overwrite setup_pkg, at any step of the driver thread.     *)
THEOREM LastPacketWins == Spec => []LastSetupWins
<1>1. Init => LastInv
  BY DEF Init, LastInv
<1>2. Types /\ LastInv /\ [Next]_vars => LastInv'
  BY StepLast
<1>3. Types /\ LastInv => LastSetupWins
  <2> SUFFICES ASSUME Types, LastInv, Quiet, cur > 0, "lost" \notin gaps
               PROVE  given = <<Len(reqs), Len(reqs)>>
    BY DEF LastSetupWins
  <2>1. hand = Idle /\ Len(msgq) = 0 /\ Len(evq) = 0
    BY DEF Types, HandOK, Quiet
  <2>2. ~Waiting /\ ~Delivers
    BY <2>1 DEF Waiting, Delivers, Idle, NoMsg, SetupMsg
  <2> QED
    BY <2>1, <2>2 DEF LastInv, Told
<1> QED
  BY <1>1, <1>2, <1>3, Typed, PTL DEF Spec

-----------------------------------------------------------------------------
(* The enumeration.  As long as the bus is not reset and the stack refuses *)
(* nothing, the stack has been told, or has an event waiting, of whatever  *)
(* state the driver thinks the device is in.                               *)

Unbroken == gaps \cap {"reset", "stall"} = {}

AddressKnown == stack # "default" \/ \E i \in 1 .. Len(evq) : evq[i].src = "address"
ConfigKnown ==
  \/ stack = "configured" /\ \A i \in 1 .. Len(evq) : evq[i].src # "address"
  \/ \E i \in 1 .. Len(evq) :
       evq[i].src = "configure" /\ \A j \in 1 .. Len(evq) : j > i => evq[j].src # "address"

Addressed  == addressed # 0 \/ hand.pc = "addressed"
Configured == configured \in {2, 3} \/ hand.pc = "configured"

EnumInv ==
  Unbroken =>
    /\ \A n \in 1 .. Len(reqs) : reqs[n] = "conf" => addressed # 0
    /\ configured # 0 => addressed # 0
    /\ hand.pc = "addressed" => addressed = 0
    /\ hand.pc = "configured" => configured = 1
    /\ Addressed => AddressKnown
    /\ Configured => ConfigKnown
    /\ \A i \in 1 .. Len(evq) : evq[i].src # "reset"

LEMMA KnownSame ==
  ASSUME UNCHANGED <<stack, evq>>
  PROVE  AddressKnown' = AddressKnown /\ ConfigKnown' = ConfigKnown
BY DEF AddressKnown, ConfigKnown

LEMMA KnownMore ==
  ASSUME Types, NEW e \in Event, e.src # "address", Submit(e), UNCHANGED stack
  PROVE  (AddressKnown => AddressKnown') /\ (ConfigKnown => ConfigKnown')
<1>1. /\ Len(evq') = Len(evq) + 1 /\ evq'[Len(evq) + 1] = e /\ Len(evq) \in Nat
      /\ \A i \in 1 .. Len(evq) : evq'[i] = evq[i]
  BY Submitted, Elements DEF Known
<1>2. \A j \in 1 .. Len(evq') : j = Len(evq) + 1 \/ j \in 1 .. Len(evq)
  BY <1>1
<1>3. \A i \in 1 .. Len(evq) : i \in 1 .. Len(evq')
  BY <1>1
<1>4. AddressKnown => AddressKnown'
  BY <1>1, <1>3 DEF AddressKnown
<1>5. ConfigKnown => ConfigKnown'
  <2>1. CASE stack = "configured" /\ \A i \in 1 .. Len(evq) : evq[i].src # "address"
    BY <1>1, <1>2, <2>1 DEF ConfigKnown
  <2>2. ASSUME NEW i \in 1 .. Len(evq), evq[i].src = "configure",
               \A j \in 1 .. Len(evq) : j > i => evq[j].src # "address"
        PROVE  ConfigKnown'
    <3>1. i \in 1 .. Len(evq') /\ evq'[i].src = "configure"
      BY <1>1, <1>3, <2>2
    <3>2. \A j \in 1 .. Len(evq') : j > i => evq'[j].src # "address"
      BY <1>1, <1>2, <2>2
    <3> QED
      BY <3>1, <3>2 DEF ConfigKnown
  <2> QED
    BY <2>1, <2>2 DEF ConfigKnown
<1> QED
  BY <1>4, <1>5

(* Steps that submit neither an address nor a reset, and go no further in  *)
(* the enumeration than what has been submitted.                           *)
LEMMA EnumStep ==
  ASSUME Types, EnumInv, gaps \subseteq gaps', UNCHANGED stack,
         UNCHANGED evq \/ \E e \in Event : e.src \notin {"address", "reset"} /\ Submit(e),
         UNCHANGED reqs \/ \E k \in AllKinds : reqs' = Append(reqs, k) /\ (k = "conf" => addressed # 0),
         addressed # 0 => addressed' # 0,
         configured' # 0 => configured # 0 \/ addressed # 0,
         hand'.pc = "addressed" => addressed' = 0 /\ hand.pc = "addressed",
         hand'.pc = "configured" => configured' = 1 /\ hand.pc = "configured",
         addressed' # 0 => Addressed,
         configured' \in {2, 3} => Configured
  PROVE  EnumInv'
<1> SUFFICES ASSUME Unbroken' PROVE EnumInv'
  BY DEF EnumInv
<1>1. Unbroken
  BY DEF Unbroken
<1>2. (AddressKnown => AddressKnown') /\ (ConfigKnown => ConfigKnown')
  BY KnownSame, KnownMore
<1>3. \A n \in 1 .. Len(reqs') : reqs'[n] = "conf" => addressed' # 0
  <2>1. CASE UNCHANGED reqs
    BY <1>1, <2>1 DEF EnumInv
  <2>2. ASSUME NEW k \in AllKinds, reqs' = Append(reqs, k), k = "conf" => addressed # 0
        PROVE  \A n \in 1 .. Len(reqs') : reqs'[n] = "conf" => addressed' # 0
    <3>1. /\ Len(reqs') = Len(reqs) + 1 /\ reqs'[Len(reqs) + 1] = k /\ Len(reqs) \in Nat
          /\ \A i \in 1 .. Len(reqs) : reqs'[i] = reqs[i]
      BY <2>2, AppendFacts DEF Types
    <3>2. \A n \in 1 .. Len(reqs') : n = Len(reqs) + 1 \/ n \in 1 .. Len(reqs)
      BY <3>1
    <3>3. (k = "conf" => addressed # 0) /\ \A n \in 1 .. Len(reqs) : reqs[n] = "conf" => addressed # 0
      BY <1>1, <2>2 DEF EnumInv
    <3> QED
      BY <3>1, <3>2, <3>3
  <2> QED
    BY <2>1, <2>2
<1>4. \A i \in 1 .. Len(evq') : evq'[i].src # "reset"
  <2>1. CASE UNCHANGED evq
    BY <1>1, <2>1 DEF EnumInv
  <2>2. ASSUME NEW e \in Event, e.src \notin {"address", "reset"}, Submit(e)
        PROVE  \A i \in 1 .. Len(evq') : evq'[i].src # "reset"
    <3>1. /\ Len(evq') = Len(evq) + 1 /\ evq'[Len(evq) + 1] = e /\ Len(evq) \in Nat
          /\ \A i \in 1 .. Len(evq) : evq'[i] = evq[i]
      BY <2>2, Submitted, Elements DEF Known
    <3>2. \A j \in 1 .. Len(evq') : j = Len(evq) + 1 \/ j \in 1 .. Len(evq)
      BY <3>1
    <3> QED
      BY <1>1, <2>2, <3>1, <3>2 DEF EnumInv
  <2> QED
    BY <2>1, <2>2
<1>5. configured' # 0 => addressed' # 0
  BY <1>1 DEF EnumInv
<1>6. Addressed' => AddressKnown'
  BY <1>1, <1>2 DEF EnumInv, Addressed
<1>7. Configured' => ConfigKnown'
  BY <1>1, <1>2 DEF EnumInv, Configured
<1> QED
  BY <1>3, <1>4, <1>5, <1>6, <1>7 DEF EnumInv

(* The kind of the last packet. *)
LEMMA LastKind ==
  ASSUME Types
  PROVE  /\ pkg = Len(reqs) /\ Len(reqs) \in Nat
         /\ Len(reqs) > 0 => KindOf(pkg) = reqs[Len(reqs)] /\ reqs[Len(reqs)] \in AllKinds /\ Len(reqs) \in 1 .. Len(reqs)
         /\ Len(reqs) = 0 => KindOf(pkg) = "set"
<1>1. pkg = Len(reqs) /\ Len(reqs) \in Nat /\ DOMAIN reqs = 1 .. Len(reqs) /\ \A i \in 1 .. Len(reqs) : reqs[i] \in AllKinds
  BY Elements DEF Types, Known
<1> QED
  BY <1>1 DEF KindOf

LEMMA HostN == ASSUME Types, EnumInv, [Next]_vars, HostSteps PROVE EnumInv'
<1>1. gaps \subseteq gaps'
  BY GapsGrow
<1>2. CASE HostReset
  BY <1>2 DEF HostReset, EnumInv, Unbroken
<1>3. CASE ~HostReset
  <2>1. UNCHANGED <<addressed, configured, stack, hand>>
    BY <1>3 DEF HostSteps, HostData, HostPoll, HostStalled, HostSuspend, HostResume, HostSetup,
                stVars, thrVars, stackVars
  <2>2. UNCHANGED evq \/ Submit(Notice("status"))
    BY <1>3 DEF HostSteps, HostData, HostPoll, HostStalled, HostSuspend, HostResume, HostSetup, stackVars
  <2>3. "status" \in Sources
    BY DEF Sources
  <2>4. UNCHANGED evq \/ \E e \in Event : e.src \notin {"address", "reset"} /\ Submit(e)
    BY <2>2, <2>3, NoticeOK
  <2>5. UNCHANGED reqs \/ \E k \in AllKinds : reqs' = Append(reqs, k) /\ (k = "conf" => addressed # 0)
    <3>1. CASE \E k \in Asks : HostSetup(k)
      <4>1. PICK k \in Asks : reqs' = Append(reqs, k)
        BY <3>1 DEF HostSetup, SetupIsr
      <4>2. k \in AllKinds /\ (k = "conf" => addressed # 0)
        BY <4>1 DEF Asks, AllKinds, Kinds, Reads
      <4> QED
        BY <4>1, <4>2
    <3>2. CASE HostSuspend \/ HostResume
      <4>1. UNCHANGED reqs \/ reqs' = Append(reqs, "feature")
        BY <3>2 DEF HostSuspend, HostResume, Feature
      <4>2. "feature" \in AllKinds /\ "feature" # "conf"
        BY DEF AllKinds
      <4> QED
        BY <4>1, <4>2
    <3> QED
      BY <1>3, <3>1, <3>2 DEF HostSteps, HostData, HostPoll, HostStalled, pktVars
  <2>6. \/ ~Unbroken
        \/ (hand.pc = "addressed" => addressed = 0) /\ (hand.pc = "configured" => configured = 1)
    BY DEF EnumInv
  <2>7. CASE ~Unbroken
    BY <1>1, <2>7 DEF EnumInv, Unbroken
  <2> QED
    BY <1>1, <2>1, <2>4, <2>5, <2>6, <2>7, EnumStep DEF Addressed, Configured
<1> QED
  BY <1>2, <1>3

(* The driver thread submits an address or a configuration.                *)
LEMMA SubmitAddressN ==
  ASSUME Types, EnumInv, Submit(Notice("address")), UNCHANGED <<reqs, addressed, configured, stack, gaps>>,
         addressed = 0, hand'.pc = "addressed"
  PROVE  EnumInv'
<1> SUFFICES ASSUME Unbroken' PROVE EnumInv'
  BY DEF EnumInv
<1>1. Unbroken
  BY DEF Unbroken
<1>2. "address" \in Sources
  BY DEF Sources
<1>3. /\ Len(evq') = Len(evq) + 1 /\ evq'[Len(evq) + 1].src = "address" /\ Len(evq) \in Nat
      /\ \A i \in 1 .. Len(evq) : evq'[i] = evq[i]
  BY <1>2, NoticeOK, Submitted, Elements DEF Known
<1>4. Len(evq) + 1 \in 1 .. Len(evq') /\ \A j \in 1 .. Len(evq') : j = Len(evq) + 1 \/ j \in 1 .. Len(evq)
  BY <1>3
<1>5. AddressKnown'
  BY <1>3, <1>4 DEF AddressKnown
<1>6. \A i \in 1 .. Len(evq') : evq'[i].src # "reset"
  BY <1>1, <1>3, <1>4 DEF EnumInv
<1>7. configured' = 0
  BY <1>1 DEF EnumInv
<1>8. ~Configured'
  BY <1>7 DEF Configured
<1> QED
  BY <1>1, <1>5, <1>6, <1>7, <1>8 DEF EnumInv

LEMMA SubmitConfigN ==
  ASSUME Types, EnumInv, Submit(Notice("configure")), UNCHANGED <<reqs, addressed, configured, stack, gaps>>,
         configured = 1, hand'.pc = "configured"
  PROVE  EnumInv'
<1> SUFFICES ASSUME Unbroken' PROVE EnumInv'
  BY DEF EnumInv
<1>1. Unbroken
  BY DEF Unbroken
<1>2. "configure" \in Sources
  BY DEF Sources
<1>3. /\ Len(evq') = Len(evq) + 1 /\ evq'[Len(evq) + 1].src = "configure" /\ Len(evq) \in Nat
      /\ \A i \in 1 .. Len(evq) : evq'[i] = evq[i]
  BY <1>2, NoticeOK, Submitted, Elements DEF Known
<1>4. Len(evq) + 1 \in 1 .. Len(evq') /\ \A j \in 1 .. Len(evq') : j = Len(evq) + 1 \/ j \in 1 .. Len(evq)
  BY <1>3
<1>5. AddressKnown'
  <2>1. AddressKnown
    BY <1>1 DEF EnumInv, Addressed
  <2>2. Notice("configure") \in Event /\ Notice("configure").src = "configure"
    BY <1>2, NoticeOK
  <2> QED
    BY <2>1, <2>2, KnownMore
<1>6. \A i \in 1 .. Len(evq') : evq'[i].src # "reset"
  BY <1>1, <1>3, <1>4 DEF EnumInv
<1>7. ConfigKnown'
  <2>1. \A j \in 1 .. Len(evq') : ~(j > Len(evq) + 1)
    BY <1>3
  <2> QED
    BY <1>3, <1>4, <2>1 DEF ConfigKnown
<1> QED
  BY <1>1, <1>5, <1>6, <1>7 DEF EnumInv

LEMMA EnumerateN ==
  ASSUME Types, EnumInv, AddressEvent \/ AddressDone \/ ConfigEvent \/ ConfigDone
  PROVE  EnumInv'
<1>1. UNCHANGED <<reqs, stack, gaps>>
  BY DEF AddressEvent, AddressDone, ConfigEvent, ConfigDone, pktVars, stackVars, histVars
<1>2. hand \in Thread /\ HandOK(hand, Len(reqs)) /\ Len(reqs) \in Nat
  BY Elements DEF Types, HandOK, Known
<1>3. \A pc \in {"addressed", "conf", "configured", "take"} : Goto(pc) => hand'.pc = pc
  BY <1>2 DEF Goto, Thread
<1>4. CASE AddressEvent
  <2>1. UNCHANGED <<addressed, configured>>
    BY <1>4 DEF AddressEvent
  <2>2. CASE addressed = 0 /\ KindOf(pkg) = "dev"
    BY <1>1, <1>3, <1>4, <2>1, <2>2, SubmitAddressN DEF AddressEvent
  <2>3. CASE ~(addressed = 0 /\ KindOf(pkg) = "dev")
    <3>1. hand'.pc = "conf" /\ UNCHANGED evq
      BY <1>3, <1>4, <2>3 DEF AddressEvent
    <3> QED
      BY <1>1, <2>1, <3>1, EnumStep DEF Addressed, Configured
  <2> QED
    BY <2>2, <2>3
<1>5. CASE AddressDone
  <2>1. addressed' = 1 /\ hand.pc = "addressed" /\ hand'.pc = "conf" /\ UNCHANGED <<configured, evq>>
    BY <1>3, <1>5 DEF AddressDone, stackVars
  <2> QED
    BY <1>1, <2>1, EnumStep DEF Addressed, Configured
<1>6. CASE ConfigEvent
  <2>1. UNCHANGED addressed /\ hand.pc = "conf"
    BY <1>6 DEF ConfigEvent
  <2>2. CASE configured = 1 /\ Submit(Notice("configure")) /\ Goto("configured") /\ UNCHANGED configured
    BY <1>1, <1>3, <2>1, <2>2, SubmitConfigN
  <2>3. CASE /\ Goto("take") /\ UNCHANGED evq
             /\ \/ configured > 1 /\ UNCHANGED configured
                \/ configured = 0 /\ configured' = (IF KindOf(pkg) = "conf" THEN 1 ELSE 0)
    <3>1. hand'.pc = "take"
      BY <1>3, <2>3
    <3>2. CASE Unbroken
      <4>1. KindOf(pkg) = "conf" => addressed # 0
        BY <3>2, LastKind DEF EnumInv
      <4>2. configured' # 0 => configured # 0 \/ addressed # 0
        BY <2>3, <4>1
      <4>3. configured' \in {2, 3} => configured \in {2, 3}
        BY <2>3
      <4> QED
        BY <1>1, <2>1, <2>3, <3>1, <4>2, <4>3, EnumStep DEF Addressed, Configured
    <3>3. CASE ~Unbroken
      BY <1>1, <3>3 DEF EnumInv, Unbroken
    <3> QED
      BY <3>2, <3>3
  <2> QED
    BY <1>6, <2>2, <2>3 DEF ConfigEvent
<1>7. CASE ConfigDone
  <2>1. configured' = 2 /\ hand.pc = "configured" /\ hand'.pc = "take" /\ UNCHANGED <<addressed, evq>>
    BY <1>3, <1>7 DEF ConfigDone, stackVars
  <2>2. CASE Unbroken
    <3>1. configured = 1
      BY <2>1, <2>2 DEF EnumInv
    <3> QED
      BY <1>1, <2>1, <3>1, EnumStep DEF Addressed, Configured
  <2>3. CASE ~Unbroken
    BY <1>1, <2>3 DEF EnumInv, Unbroken
  <2> QED
    BY <2>2, <2>3
<1> QED
  BY <1>4, <1>5, <1>6, <1>7

LEMMA ThreadN ==
  ASSUME Types, EnumInv, [Next]_vars,
         \/ GetMsg \/ OtherMsg \/ TakeSetup \/ CopyHigh \/ CheckData \/ ReadData
         \/ XferAddress \/ XferConfigured \/ XferWakeup \/ XferPlain \/ TellSuspended \/ WakeupDone
  PROVE  EnumInv'
<1>1. gaps \subseteq gaps'
  BY GapsGrow
<1>2. UNCHANGED <<reqs, stack>>
  BY DEF GetMsg, OtherMsg, TakeSetup, CopyHigh, CheckData, ReadData, XferAddress, XferConfigured,
         XferWakeup, XferPlain, TellSuspended, WakeupDone, pktVars, stackVars
<1>3. hand \in Thread /\ HandOK(hand, Len(reqs)) /\ Len(reqs) \in Nat /\ Types
  BY Elements DEF Types, HandOK, Known
<1>4. hand'.pc \notin {"addressed", "configured"}
  <2>1. CASE GetMsg
    BY <2>1, GotEffect
  <2>2. CASE TakeSetup \/ CopyHigh \/ CheckData \/ ReadData
    BY <2>2, TakeHand, CopyHand, CheckHand, ReadHand DEF Idle
  <2>3. CASE Goto("get") \/ Goto("suspend") \/ Goto("woken")
    BY <1>3, <2>3 DEF Goto, Idle, Thread
  <2> QED
    BY <2>1, <2>2, <2>3 DEF OtherMsg, XferAddress, XferConfigured, XferWakeup, XferPlain, TellSuspended, WakeupDone
<1>5. UNCHANGED evq \/ \E e \in Event : e.src \notin {"address", "reset"} /\ Submit(e)
  <2>1. CASE XferAddress \/ XferConfigured \/ XferWakeup \/ XferPlain
    <3>1. Notice("status") \in Event /\ Notice("status").src = "status"
      BY NoticeOK DEF Sources
    <3> QED
      BY <2>1, <3>1, XferEvents
  <2>2. CASE CopyHigh
    <3>1. Source(pkg) \in {"feature", "host"} /\ Source(pkg) \in Sources /\ pkg \in Nat /\ {} \in SUBSET Nat
      BY SourceIs, LastKind DEF Sources
    <3>2. hand.lo \in Nat /\ (UNCHANGED evq \/ Submit(SetupEvent(Source(pkg), hand.lo, pkg, {})))
      BY <2>2, CopyHand
    <3>3. SetupEvent(Source(pkg), hand.lo, pkg, {}) \in Event /\ SetupEvent(Source(pkg), hand.lo, pkg, {}).src = Source(pkg)
      BY <3>1, <3>2, SetupEventOK
    <3> QED
      BY <3>1, <3>2, <3>3
  <2>3. CASE CheckData
    <3>1. Source(hand.hi) \in {"feature", "host"} /\ Source(hand.hi) \in Sources
      BY SourceIs DEF Sources
    <3>2. /\ hand.lo \in Nat /\ hand.hi \in Nat /\ hand.from \in SUBSET Nat
          /\ UNCHANGED evq \/ Submit(SetupEvent(Source(hand.hi), hand.lo, hand.hi, hand.from))
      BY <2>3, CheckHand
    <3>3. /\ SetupEvent(Source(hand.hi), hand.lo, hand.hi, hand.from) \in Event
          /\ SetupEvent(Source(hand.hi), hand.lo, hand.hi, hand.from).src = Source(hand.hi)
      BY <3>1, <3>2, SetupEventOK
    <3> QED
      BY <3>1, <3>2, <3>3
  <2>4. CASE GetMsg \/ OtherMsg \/ TakeSetup \/ ReadData \/ TellSuspended \/ WakeupDone
    BY <2>4 DEF GetMsg, OtherMsg, TakeSetup, ReadData, TellSuspended, WakeupDone, stackVars
  <2> QED
    BY <2>1, <2>2, <2>3, <2>4
<1>6. \/ UNCHANGED <<addressed, configured>>
      \/ addressed = 1 /\ addressed' = 2 /\ UNCHANGED configured
      \/ configured = 2 /\ configured' = 3 /\ UNCHANGED addressed
  BY DEF GetMsg, OtherMsg, TakeSetup, CopyHigh, CheckData, ReadData, XferAddress, XferConfigured,
         XferWakeup, XferPlain, TellSuspended, WakeupDone, stVars
<1>7. /\ addressed # 0 => addressed' # 0
      /\ configured' # 0 => configured # 0 \/ addressed # 0
      /\ addressed' # 0 => addressed # 0
      /\ configured' \in {2, 3} => configured \in {2, 3}
  BY <1>6
<1> QED
  BY <1>1, <1>2, <1>4, <1>5, <1>7, EnumStep DEF Addressed, Configured

(* The stack handles an event: it knows what the event told it.            *)
LEMMA StackN == ASSUME Types, EnumInv, [Next]_vars, Stack \/ OtherEnqueue PROVE EnumInv'
<1> SUFFICES ASSUME Unbroken' PROVE EnumInv'
  BY DEF EnumInv
<1>1. gaps \subseteq gaps' /\ Unbroken
  BY GapsGrow DEF Unbroken
<1>2. UNCHANGED <<reqs, addressed, configured, hand>>
  BY DEF Stack, OtherEnqueue, StackAnswers, StackRefuses, StackNotes, pktVars, stVars, thrVars
<1>3. CASE OtherEnqueue
  <2>1. UNCHANGED <<evq, stack>>
    BY <1>3 DEF OtherEnqueue, stackVars
  <2> QED
    BY <1>1, <1>2, <2>1, KnownSame DEF EnumInv, Addressed, Configured
<1>4. CASE Stack
  <2>1. evq # <<>> /\ evq' = Tail(evq)
    BY <1>4 DEF Stack, StackAnswers, StackRefuses, StackNotes
  <2>2. /\ Len(evq) \in Nat \ {0} /\ Len(evq') = Len(evq) - 1 /\ Head(evq) = evq[1]
        /\ \A i \in 1 .. Len(evq) - 1 : evq'[i] = evq[i + 1]
    BY <2>1, Popped
  <2>3. /\ \A i \in 1 .. Len(evq') : i + 1 \in 1 .. Len(evq) /\ evq'[i] = evq[i + 1]
        /\ \A i \in 1 .. Len(evq) : i = 1 \/ (i - 1 \in 1 .. Len(evq') /\ evq'[i - 1] = evq[i])
    <3>1. \A i \in 1 .. Len(evq') : i + 1 \in 1 .. Len(evq) /\ evq'[i] = evq[i + 1]
      BY <2>2
    <3>2. ASSUME NEW i \in 1 .. Len(evq), i # 1 PROVE i - 1 \in 1 .. Len(evq') /\ evq'[i - 1] = evq[i]
      <4>1. i - 1 \in 1 .. Len(evq') /\ (i - 1) + 1 = i
        BY <2>2, <3>2
      <4> QED
        BY <3>1, <4>1
    <3> QED
      BY <3>1, <3>2
  <2>4. evq[1].src # "reset" /\ 1 \in 1 .. Len(evq)
    BY <1>1, <2>2 DEF EnumInv
  <2>5. /\ evq[1].src = "address" => stack' = "address"
        /\ evq[1].src = "configure" => stack' = "configured"
        /\ evq[1].src \notin {"address", "configure"} => stack' = stack
    <3>1. CASE StackAnswers
      BY <2>2, <3>1 DEF StackAnswers
    <3>2. CASE StackRefuses
      BY <3>2 DEF StackRefuses, Unbroken
    <3>3. CASE StackNotes
      BY <2>2, <2>4, <3>3 DEF StackNotes
    <3> QED
      BY <1>4, <3>1, <3>2, <3>3 DEF Stack
  <2>6. AddressKnown => AddressKnown'
    <3>1. CASE stack # "default"
      BY <2>5, <3>1 DEF AddressKnown
    <3>2. ASSUME NEW i \in 1 .. Len(evq), evq[i].src = "address" PROVE AddressKnown'
      BY <2>3, <2>5, <3>2 DEF AddressKnown
    <3> QED
      BY <3>1, <3>2 DEF AddressKnown
  <2>7. ConfigKnown => ConfigKnown'
    <3>1. CASE stack = "configured" /\ \A i \in 1 .. Len(evq) : evq[i].src # "address"
      <4>1. stack' = "configured"
        BY <2>4, <2>5, <3>1
      <4>2. \A i \in 1 .. Len(evq') : evq'[i].src # "address"
        BY <2>3, <3>1
      <4> QED
        BY <4>1, <4>2 DEF ConfigKnown
    <3>2. ASSUME NEW i \in 1 .. Len(evq), evq[i].src = "configure",
                 \A j \in 1 .. Len(evq) : j > i => evq[j].src # "address"
          PROVE  ConfigKnown'
      <4>1. CASE i = 1
        <5>1. \A j \in 1 .. Len(evq') : evq'[j].src # "address"
          <6> TAKE j \in 1 .. Len(evq')
          <6>1. j + 1 \in 1 .. Len(evq) /\ j + 1 > i /\ evq'[j] = evq[j + 1]
            BY <2>2, <2>3, <4>1
          <6> QED
            BY <3>2, <6>1
        <5> QED
          BY <2>5, <3>2, <4>1, <5>1 DEF ConfigKnown
      <4>2. CASE i # 1
        <5>1. i - 1 \in 1 .. Len(evq') /\ evq'[i - 1] = evq[i]
          BY <2>3, <4>2
        <5>2. \A j \in 1 .. Len(evq') : j > i - 1 => evq'[j].src # "address"
          <6> SUFFICES ASSUME NEW j \in 1 .. Len(evq'), j > i - 1 PROVE evq'[j].src # "address"
            OBVIOUS
          <6>1. j + 1 \in 1 .. Len(evq) /\ j + 1 > i /\ evq'[j] = evq[j + 1]
            BY <2>2, <2>3
          <6> QED
            BY <3>2, <6>1
        <5> QED
          BY <3>2, <5>1, <5>2 DEF ConfigKnown
      <4> QED
        BY <4>1, <4>2
    <3> QED
      BY <3>1, <3>2 DEF ConfigKnown
  <2>8. \A i \in 1 .. Len(evq') : evq'[i].src # "reset"
    BY <1>1, <2>3 DEF EnumInv
  <2> QED
    BY <1>1, <1>2, <2>6, <2>7, <2>8 DEF EnumInv, Addressed, Configured
<1> QED
  BY <1>3, <1>4

LEMMA StepEnum == Types /\ EnumInv /\ [Next]_vars => EnumInv'
<1> SUFFICES ASSUME Types, EnumInv, [Next]_vars PROVE EnumInv'
  OBVIOUS
<1>1. CASE UNCHANGED vars
  <2>1. UNCHANGED <<reqs, addressed, configured, stack, evq, hand, gaps>>
    BY <1>1 DEF vars, pktVars, stVars, thrVars, stackVars, histVars
  <2> QED
    BY <2>1, KnownSame DEF EnumInv, Addressed, Configured, Unbroken
<1>2. CASE HostSteps
  BY <1>2, HostN
<1>3. CASE Driver
  BY <1>3, EnumerateN, ThreadN DEF Driver
<1>4. CASE Stack \/ OtherEnqueue
  BY <1>4, StackN
<1> QED
  BY <1>1, <1>2, <1>3, <1>4 DEF Next

(* When nothing is under way the driver's view of the enumeration          *)
(* (is_addressed_state, is_configured_state) is the stack's, although the  *)
(* controller answers SET_ADDRESS and SET_CONFIGURATION by itself and the  *)
(* driver has to invent them: unless the bus was reset or the stack has    *)
(* refused a request, for every order of packets, messages and events.     *)
THEOREM EnumerationIsShared == Spec => []EnumerationAgrees
<1>1. Init => EnumInv
  BY DEF Init, EnumInv, Addressed, Configured, AddressKnown, ConfigKnown, Idle
<1>2. Types /\ EnumInv /\ [Next]_vars => EnumInv'
  BY StepEnum
<1>3. Types /\ EnumInv => EnumerationAgrees
  <2> SUFFICES ASSUME Types, EnumInv, Quiet, Unbroken
               PROVE  (addressed = 2 => stack # "default") /\ (configured = 3 => stack = "configured")
    BY DEF EnumerationAgrees, Unbroken
  <2>1. Len(evq) = 0
    BY DEF Quiet
  <2> QED
    BY <2>1 DEF EnumInv, Addressed, Configured, AddressKnown, ConfigKnown
<1> QED
  BY <1>1, <1>2, <1>3, Typed, PTL DEF Spec

-----------------------------------------------------------------------------
(* The data stage of a control write.  Without a bus reset the references  *)
(* count the packets, so that equal references mean that no packet has     *)
(* come since the stage began and that the FIFO holds none of a later one. *)

References ==
  /\ cur = Len(reqs) /\ outFrom <= Len(reqs) /\ host.n <= Len(reqs)
  /\ hand.pc \in {"high", "check", "read"} => proc = hand.msg.ref
  /\ hand.pc \in {"check", "read"} =>
       proc <= hand.hi /\ hand.hi <= Len(reqs) /\ hand.from \subseteq 0 .. Len(reqs)

NotLater == \A i \in 1 .. Len(evq) : evq[i].from \subseteq 0 .. evq[i].hi

DataInv == "reset" \notin gaps => References /\ NotLater

LEMMA DataStep ==
  ASSUME Types, DataInv, gaps \subseteq gaps',
         "reset" \notin gaps /\ References => References',
         \/ UNCHANGED evq
         \/ evq # <<>> /\ evq' = Tail(evq)
         \/ \E e \in Event : Submit(e) /\ ("reset" \notin gaps /\ References => e.from \subseteq 0 .. e.hi)
  PROVE  DataInv'
<1> SUFFICES ASSUME "reset" \notin gaps' PROVE References' /\ NotLater'
  BY DEF DataInv
<1>1. "reset" \notin gaps /\ References /\ NotLater
  BY DEF DataInv
<1>2. CASE UNCHANGED evq
  BY <1>1, <1>2 DEF NotLater
<1>3. CASE evq # <<>> /\ evq' = Tail(evq)
  <2>1. /\ Len(evq) \in Nat \ {0} /\ Len(evq') = Len(evq) - 1
        /\ \A i \in 1 .. Len(evq) - 1 : evq'[i] = evq[i + 1]
    BY <1>3, Popped
  <2>2. \A i \in 1 .. Len(evq') : i + 1 \in 1 .. Len(evq) /\ evq'[i] = evq[i + 1]
    BY <2>1
  <2> QED
    BY <1>1, <2>2 DEF NotLater
<1>4. ASSUME NEW e \in Event, Submit(e), e.from \subseteq 0 .. e.hi PROVE NotLater'
  <2>1. /\ Len(evq') = Len(evq) + 1 /\ evq'[Len(evq) + 1] = e /\ Len(evq) \in Nat
        /\ \A i \in 1 .. Len(evq) : evq'[i] = evq[i]
    BY <1>4, Submitted, Elements DEF Known
  <2>2. \A j \in 1 .. Len(evq') : j = Len(evq) + 1 \/ j \in 1 .. Len(evq)
    BY <2>1
  <2> QED
    BY <1>1, <1>4, <2>1, <2>2 DEF NotLater
<1> QED
  BY <1>1, <1>2, <1>3, <1>4

LEMMA NoticeFrom == ASSUME NEW src \in Sources PROVE Notice(src) \in Event /\ Notice(src).from \subseteq 0 .. Notice(src).hi
BY NoticeOK

(* A new packet, of the host or of the driver itself.                      *)
LEMMA NewReference ==
  ASSUME Types, NEW k, reqs' = Append(reqs, k), k \in AllKinds, cur' = cur + 1, UNCHANGED <<proc, hand, outFrom>>,
         host'.n = host.n \/ host'.n = Len(reqs) + 1, host' \in HostRec
  PROVE  References => References'
<1>1. Len(reqs') = Len(reqs) + 1 /\ Len(reqs) \in Nat
  BY AppendFacts DEF Types
<1>2. outFrom \in Nat /\ host.n \in Nat /\ cur \in Nat /\ proc \in Nat /\ hand.hi \in Nat
  BY DEF Types, HandOK, Thread, HostRec
<1>3. 0 .. Len(reqs) \subseteq 0 .. Len(reqs')
  BY <1>1
<1> QED
  BY <1>1, <1>2, <1>3 DEF References

LEMMA HostD == ASSUME Types, DataInv, [Next]_vars, HostSteps PROVE DataInv'
<1>1. gaps \subseteq gaps' /\ Types'
  BY GapsGrow, StepTypes
<1>2. CASE HostReset
  BY <1>2 DEF HostReset, DataInv
<1>3. CASE ~HostReset
  <2>1. UNCHANGED evq \/ Submit(Notice("status"))
    BY <1>3 DEF HostSteps, HostData, HostPoll, HostStalled, HostSuspend, HostResume, HostSetup, stackVars
  <2>2. Notice("status") \in Event /\ Notice("status").from \subseteq 0 .. Notice("status").hi
    BY NoticeFrom DEF Sources
  <2>3. References => References'
    <3>1. CASE HostData
      <4>1. host \in HostRec /\ host' = [host EXCEPT !.todo = @ - 1] /\ outFrom' = host.n
        BY <3>1 DEF HostData, Types
      <4>2. host'.n = host.n /\ UNCHANGED <<reqs, cur, proc, hand>>
        BY <3>1, <4>1 DEF HostRec, HostData, pktVars, thrVars
      <4> QED
        BY <4>1, <4>2 DEF References
    <3>2. CASE HostPoll \/ HostStalled
      <4>1. host \in HostRec
        BY DEF Types
      <4>2. host'.n = host.n
        BY <3>2, <4>1 DEF HostRec, HostPoll, HostStalled
      <4>3. UNCHANGED <<reqs, cur, proc, hand, outFrom>>
        BY <3>2 DEF HostPoll, HostStalled, pktVars, thrVars
      <4> QED
        BY <4>2, <4>3 DEF References
    <3>3. CASE \E k \in Asks : HostSetup(k)
      <4>1. PICK k \in Asks : HostSetup(k)
        BY <3>3
      <4>2. k \in AllKinds /\ reqs' = Append(reqs, k) /\ cur' = cur + 1 /\ UNCHANGED <<proc, hand, outFrom>>
        BY <4>1 DEF Asks, AllKinds, Kinds, Reads, HostSetup, SetupIsr
      <4>3. host'.n = Len(reqs) + 1 /\ host' \in HostRec
        BY <1>1, <4>1 DEF HostSetup, Types
      <4> QED
        BY <4>2, <4>3, NewReference
    <3>4. CASE HostSuspend \/ HostResume
      <4>1. UNCHANGED <<proc, hand, outFrom, host>> /\ host' \in HostRec
        BY <1>1, <3>4 DEF HostSuspend, HostResume, Types
      <4>2. \/ UNCHANGED <<reqs, cur>>
            \/ reqs' = Append(reqs, "feature") /\ cur' = cur + 1
        BY <3>4 DEF HostSuspend, HostResume, Feature
      <4>3. "feature" \in AllKinds
        BY DEF AllKinds
      <4>4. CASE UNCHANGED <<reqs, cur>>
        BY <4>1, <4>4 DEF References
      <4>5. CASE reqs' = Append(reqs, "feature") /\ cur' = cur + 1
        BY <4>1, <4>3, <4>5, NewReference
      <4> QED
        BY <4>2, <4>4, <4>5
    <3> QED
      BY <1>3, <3>1, <3>2, <3>3, <3>4 DEF HostSteps
  <2> QED
    BY <1>1, <2>1, <2>2, <2>3, DataStep
<1> QED
  BY <1>2, <1>3

LEMMA ThreadD == ASSUME Types, DataInv, [Next]_vars, Driver PROVE DataInv'
<1>1. gaps \subseteq gaps'
  BY GapsGrow
<1>2. UNCHANGED <<reqs, cur, host>> /\ Len(reqs) \in Nat /\ pkg = Len(reqs)
  BY LastKind DEF Driver, GetMsg, OtherMsg, AddressEvent, AddressDone, ConfigEvent, ConfigDone, TakeSetup, CopyHigh,
         CheckData, ReadData, XferAddress, XferConfigured, XferWakeup, XferPlain, TellSuspended, WakeupDone,
         pktVars, hostVars
<1>3. hand \in Thread /\ HandOK(hand, Len(reqs)) /\ hand.msg.ref <= Len(reqs)
  BY DEF Types, HandOK
<1>4. CASE TakeSetup
  <2>1. hand'.pc = "high" /\ hand'.msg = hand.msg /\ proc' = hand.msg.ref /\ UNCHANGED <<evq, outFrom>>
    BY <1>4, TakeHand DEF TakeSetup, stackVars, hostVars
  <2> QED
    BY <1>1, <1>2, <2>1, DataStep DEF References
<1>5. CASE CopyHigh
  <2>1. hand.pc = "high" /\ UNCHANGED <<proc, outFrom>> /\ hand.lo \in Nat
    BY <1>5, CopyHand DEF CopyHigh, pktVars, hostVars
  <2>2. CASE hand'.pc = "check" /\ hand'.hi = pkg /\ hand'.from = {} /\ hand'.msg = hand.msg /\ UNCHANGED evq
    BY <1>1, <1>2, <1>3, <2>1, <2>2, DataStep DEF References
  <2>3. CASE hand' = Idle /\ Submit(SetupEvent(Source(pkg), hand.lo, pkg, {}))
    <3>1. Source(pkg) \in Sources /\ {} \in SUBSET Nat
      BY SourceIs DEF Sources
    <3>2. /\ SetupEvent(Source(pkg), hand.lo, pkg, {}) \in Event
          /\ SetupEvent(Source(pkg), hand.lo, pkg, {}).from = {}
      BY <1>2, <2>1, <3>1, SetupEventOK
    <3>3. References => References'
      BY <1>2, <2>1, <2>3 DEF References, Idle
    <3> QED
      BY <1>1, <2>3, <3>2, <3>3, DataStep
  <2> QED
    BY <1>5, <2>2, <2>3, CopyHand
<1>6. CASE CheckData
  <2>1. hand.pc = "check" /\ UNCHANGED <<proc, outFrom>> /\ hand.lo \in Nat /\ hand.hi \in Nat /\ hand.from \in SUBSET Nat
    BY <1>6, CheckHand DEF CheckData, pktVars, hostVars
  <2>2. CASE hand' = Idle /\ UNCHANGED evq
    <3>1. References => References'
      BY <1>2, <2>1, <2>2 DEF References, Idle
    <3> QED
      BY <1>1, <2>2, <3>1, DataStep
  <2>3. CASE proc = cur /\ hand' = Idle /\ Submit(SetupEvent(Source(hand.hi), hand.lo, hand.hi, hand.from))
    <3>1. Source(hand.hi) \in Sources
      BY SourceIs DEF Sources
    <3> DEFINE e == SetupEvent(Source(hand.hi), hand.lo, hand.hi, hand.from)
    <3>2. e \in Event /\ e.from = hand.from /\ e.hi = hand.hi
      BY <2>1, <3>1, SetupEventOK
    <3>3. References => References'
      BY <1>2, <2>1, <2>3 DEF References, Idle
    <3>4. References => hand.hi = Len(reqs) /\ hand.from \subseteq 0 .. Len(reqs)
      BY <1>2, <2>1, <2>3 DEF References
    <3> HIDE DEF e
    <3>5. Submit(e)
      BY <2>3 DEF e
    <3> QED
      BY <1>1, <3>2, <3>3, <3>4, <3>5, DataStep
  <2>4. CASE /\ hand'.pc = "read" /\ hand'.msg = hand.msg /\ hand'.hi = hand.hi
             /\ hand'.from = hand.from /\ UNCHANGED evq
    BY <1>1, <1>2, <2>1, <2>4, DataStep DEF References
  <2> QED
    BY <1>6, <2>2, <2>3, <2>4, CheckHand
<1>7. CASE ReadData
  <2>1. UNCHANGED <<proc, evq>> /\ (outFlag \/ UNCHANGED outFrom) /\ (outFrom' = 0 \/ UNCHANGED outFrom)
    BY <1>7 DEF ReadData, pktVars, stackVars
  <2>2. hand.pc = "read" /\ hand'.pc = "check" /\ hand'.msg = hand.msg /\ hand'.hi = hand.hi /\ outFrom \in Nat
    BY <1>7, ReadHand DEF Types
  <2>3. hand'.from = hand.from \/ hand'.from = hand.from \cup {outFrom}
    BY <1>7, ReadHand
  <2>4. References => hand'.from \subseteq 0 .. Len(reqs)
    BY <1>2, <2>2, <2>3 DEF References
  <2> QED
    BY <1>1, <1>2, <2>1, <2>2, <2>4, DataStep DEF References
<1>8. CASE ~(TakeSetup \/ CopyHigh \/ CheckData \/ ReadData)
  <2>1. UNCHANGED <<proc, outFrom>>
    BY <1>8 DEF Driver, GetMsg, OtherMsg, AddressEvent, AddressDone, ConfigEvent, ConfigDone,
         XferAddress, XferConfigured, XferWakeup, XferPlain, TellSuspended, WakeupDone, pktVars, hostVars
  <2>2. hand'.pc \notin {"high", "check", "read"}
    <3>1. CASE GetMsg
      BY <3>1, GotEffect
    <3>2. CASE \E pc \in {"get", "addressed", "conf", "configured", "take", "suspend", "woken"} : Goto(pc)
      BY <1>3, <3>2 DEF Goto, Idle, Thread
    <3> QED
      BY <1>8, <3>1, <3>2 DEF Driver, OtherMsg, AddressEvent, AddressDone, ConfigEvent, ConfigDone,
         XferAddress, XferConfigured, XferWakeup, XferPlain, TellSuspended, WakeupDone
  <2>3. UNCHANGED evq \/ \E src \in {"address", "configure", "status"} : Submit(Notice(src))
    BY <1>8, XferEvents DEF Driver, GetMsg, OtherMsg, AddressEvent, AddressDone, ConfigEvent, ConfigDone,
         TellSuspended, WakeupDone, stackVars
  <2>4. {"address", "configure", "status"} \subseteq Sources
    BY DEF Sources
  <2>5. References => References'
    BY <1>2, <2>1, <2>2 DEF References
  <2> QED
    BY <1>1, <2>3, <2>4, <2>5, NoticeFrom, DataStep
<1> QED
  BY <1>4, <1>5, <1>6, <1>7, <1>8

LEMMA StepData == Types /\ DataInv /\ [Next]_vars => DataInv'
<1> SUFFICES ASSUME Types, DataInv, [Next]_vars PROVE DataInv'
  OBVIOUS
<1>1. CASE UNCHANGED vars
  <2>1. UNCHANGED <<reqs, cur, proc, hand, host, outFrom, evq, gaps>>
    BY <1>1 DEF vars, pktVars, thrVars, stackVars, hostVars, histVars
  <2> QED
    BY <2>1, DataStep DEF References
<1>2. CASE HostSteps
  BY <1>2, HostD
<1>3. CASE Driver
  BY <1>3, ThreadD
<1>4. CASE Stack \/ OtherEnqueue
  <2>1. gaps \subseteq gaps'
    BY GapsGrow
  <2>2. UNCHANGED <<reqs, cur, proc, hand, host, outFrom>>
    BY <1>4 DEF Stack, OtherEnqueue, StackAnswers, StackRefuses, StackNotes, pktVars, thrVars, hostVars
  <2>3. UNCHANGED evq \/ (evq # <<>> /\ evq' = Tail(evq))
    BY <1>4 DEF Stack, OtherEnqueue, StackAnswers, StackRefuses, StackNotes, stackVars
  <2>4. References => References'
    BY <2>2 DEF References
  <2> QED
    BY <2>1, <2>3, <2>4, DataStep
<1> QED
  BY <1>1, <1>2, <1>3, <1>4 DEF Next

-----------------------------------------------------------------------------
(* One request at a time.  As long as nothing irregular but a lost message *)
(* happens, a request of the host is in one place: its SETUP message is    *)
(* under way, or it has been submitted, or its answer is on the queue.     *)

Regular == gaps \cap {"abort", "reset", "early", "hurried", "stall"} = {}

Carried  == hand.msg.type = "setup"
Queued   == \E i \in 1 .. Len(msgq) : msgq[i].type = "setup"
UnderWay == Carried \/ Queued

(* One SETUP message at most is under way.                                 *)
Single ==
  /\ \A i, j \in 1 .. Len(msgq) : msgq[i].type = "setup" /\ msgq[j].type = "setup" => i = j
  /\ ~Carried \/ ~Queued

(* What the driver thread has copied is the last packet.                   *)
Copied ==
  /\ hand.pc \in {"high", "check", "read"} => hand.lo = Len(reqs)
  /\ hand.pc \in {"check", "read"} => hand.hi = Len(reqs) /\ Len(reqs) > 0 /\ reqs[Len(reqs)] = "out"

(* An open request is the last packet; the driver's own come between.      *)
Order ==
  /\ host.open => host.n = Len(reqs) /\ Len(reqs) > 0 /\ reqs[Len(reqs)] # "feature"
  /\ UnderWay /\ ~host.open => Len(reqs) > 0 /\ reqs[Len(reqs)] = "feature"
  /\ bus = "suspended" => ~host.open
  /\ Single /\ Copied
  /\ wakeup > 0 => ~host.open /\ configured = 3
  /\ \A n \in 1 .. Len(reqs) : reqs[n] = "feature" => configured = 3
  /\ ~halted

LEMMA Grown ==
  ASSUME Types, NEW k \in AllKinds, reqs' = Append(reqs, k)
  PROVE  /\ Len(reqs') = Len(reqs) + 1 /\ Len(reqs) \in Nat /\ Len(reqs') > 0 /\ reqs'[Len(reqs')] = k
         /\ \A n \in 1 .. Len(reqs') : n = Len(reqs') \/ (n \in 1 .. Len(reqs) /\ reqs'[n] = reqs[n])
<1>1. /\ Len(reqs') = Len(reqs) + 1 /\ Len(reqs) \in Nat /\ reqs'[Len(reqs) + 1] = k
      /\ \A i \in 1 .. Len(reqs) : reqs'[i] = reqs[i]
  BY AppendFacts DEF Types
<1> HIDE DEF Types
<1>2. \A n \in 1 .. Len(reqs') : n = Len(reqs') \/ n \in 1 .. Len(reqs)
  BY <1>1
<1> QED
  BY <1>1, <1>2

LEMMA NotPending == ASSUME Types, ~Pending PROVE ~UnderWay /\ wakeup = 0
<1>1. wakeup \in 0 .. 2 /\ DOMAIN msgq = 1 .. Len(msgq) /\ (hand.pc = "get" => hand = Idle)
  BY Elements DEF Types, Known, HandOK
<1> QED
  BY <1>1 DEF Pending, UnderWay, Carried, Queued, Idle, NoMsg

(* The message of a packet is the only one under way.                      *)
LEMMA PutSingle ==
  ASSUME Types, NEW ref \in Nat, PutSetup(ref), ~UnderWay, UNCHANGED hand
  PROVE  Single' /\ ~Carried'
<1>1. Len(msgq) \in Nat
  BY Elements DEF Known
<1>2. CASE msgq' = msgq
  BY <1>2 DEF Single, UnderWay, Carried, Queued
<1>3. CASE Len(msgq') = Len(msgq) + 1 /\ \A i \in 1 .. Len(msgq) : msgq'[i] = msgq[i]
  <2>1. \A j \in 1 .. Len(msgq') : j = Len(msgq) + 1 \/ (j \in 1 .. Len(msgq) /\ msgq'[j] = msgq[j])
    BY <1>1, <1>3
  <2> QED
    BY <2>1 DEF Single, UnderWay, Carried, Queued
<1> QED
  BY <1>2, <1>3, PutEffect

(* Other messages put none under way.                                      *)
LEMMA SendSingle ==
  ASSUME Types, Single, NEW type \in {"xfer", "other"}, SendMsg(type), UNCHANGED hand
  PROVE  Single' /\ (UnderWay' => UnderWay) /\ Carried' = Carried
<1>1. Len(msgq) \in Nat
  BY Elements DEF Known
<1>2. CASE Len(msgq') = 0
  BY <1>2 DEF Single, UnderWay, Carried, Queued
<1>3. CASE /\ Len(msgq') = Len(msgq) + 1 /\ \A i \in 1 .. Len(msgq) : msgq'[i] = msgq[i]
           /\ msgq'[Len(msgq) + 1] = [type |-> type, ref |-> 0]
  <2>1. \A j \in 1 .. Len(msgq') : (j = Len(msgq) + 1 /\ msgq'[j].type # "setup") \/ (j \in 1 .. Len(msgq) /\ msgq'[j] = msgq[j])
    BY <1>1, <1>3
  <2> QED
    BY <2>1 DEF Single, UnderWay, Carried, Queued
<1> QED
  BY <1>2, <1>3, SendEffect

LEMMA GetSingle ==
  ASSUME Types, Single, GetMsg
  PROVE  Single' /\ (UnderWay' => UnderWay) /\ hand'.pc = "held"
<1>1. /\ Len(msgq) \in Nat \ {0} /\ Len(msgq') = Len(msgq) - 1
      /\ \A i \in 1 .. Len(msgq) - 1 : msgq'[i] = msgq[i + 1]
      /\ hand = Idle /\ hand'.pc = "held" /\ hand'.msg = msgq[1]
  BY GotEffect
<1>2. \A i \in 1 .. Len(msgq') : i + 1 \in 1 .. Len(msgq) /\ msgq'[i] = msgq[i + 1] /\ i + 1 # 1
  BY <1>1
<1>3. 1 \in 1 .. Len(msgq)
  BY <1>1
<1>4. ASSUME NEW i \in 1 .. Len(msgq'), NEW j \in 1 .. Len(msgq'), msgq'[i].type = "setup", msgq'[j].type = "setup"
      PROVE  i = j
  <2>1. i + 1 = j + 1
    BY <1>2, <1>4 DEF Single
  <2> QED
    BY <2>1
<1>5. Queued' => Queued /\ msgq[1].type # "setup"
  BY <1>2, <1>3 DEF Queued, Single
<1>6. Carried' => Queued
  BY <1>1, <1>3 DEF Carried, Queued
<1> QED
  BY <1>1, <1>4, <1>5, <1>6 DEF Single, UnderWay, Carried

(* What of the host's request is on the way to the stack, or waits for the *)
(* host: a submitted event, a buffer that was not polled.                  *)
HostEv(i) == evq[i].src = "host"
Unsent(i) == queue[i].src = "host" /\ ~queue[i].sent
NoneSubmitted == \A i \in 1 .. Len(evq) : ~HostEv(i)
NoneUnsent    == \A i \in 1 .. Len(queue) : ~Unsent(i)
Waits == ~NoneSubmitted \/ ~NoneUnsent

Token ==
  /\ Waits => host.open /\ ~UnderWay
  /\ \A i \in 1 .. Len(evq) : HostEv(i) => evq[i].hi = host.n
  /\ \A i \in 1 .. Len(queue) : Unsent(i) => queue[i].n = host.n
  /\ \A i, j \in 1 .. Len(evq) : HostEv(i) /\ HostEv(j) => i = j
  /\ \A i, j \in 1 .. Len(queue) : Unsent(i) /\ Unsent(j) => i = j
  /\ NoneSubmitted \/ NoneUnsent
  /\ \A i \in 1 .. Len(queue) : queue[i].sent => i = 1 /\ ~host.open
  /\ \A i \in 1 .. Len(queue) : ~queue[i].status => Unsent(i)

(* The packets of an OUT data stage that the host has still to send or     *)
(* that lie in the FIFO are those the driver thread still has to read.     *)
Packets == host.todo + (IF outFlag THEN 1 ELSE 0)
Reading == hand.pc \in {"check", "read"}

Data ==
  /\ outFlag => host.open /\ outFrom = host.n
  /\ host.open /\ UnderWay /\ ~Reading => Packets = IF reqs[Len(reqs)] = "out" THEN OutPackets ELSE 0
  /\ Reading => hand.room = Packets /\ hand.from \subseteq {Len(reqs)}
  /\ Waits => Packets = 0
  /\ \A i \in 1 .. Len(evq) : evq[i].from \subseteq {evq[i].hi}

(* The driver's own request reaches the queue before the host's answer.    *)
Ahead(src) ==
  \/ /\ \E i \in 1 .. Len(evq) : evq[i].src = src /\ \A j \in 1 .. Len(evq) : HostEv(j) => i < j
     /\ NoneUnsent
  \/ \E i \in 1 .. Len(queue) : queue[i].src = src /\ \A j \in 1 .. Len(queue) : Unsent(j) => i < j

Addressing  == addressed = 1 \/ hand.pc = "addressed"
Configuring == configured = 2 \/ hand.pc = "configured"

Enumerate ==
  /\ Addressing => configured = 0 /\ host.open /\ reqs[Len(reqs)] = "dev" /\ Ahead("address")
  /\ Configuring => host.open /\ addressed # 1 /\ Ahead("configure")

Answers ==
  /\ host.got \subseteq {host.n}
  /\ \A t \in taken : t.src = "host" => t.want = "feature" /\ t.sent

Alone == Order /\ Token /\ Data /\ Enumerate /\ Answers
RegInv == Regular => Alone

(* The order is not disturbed by a step that neither brings nor opens a    *)
(* request.                                                                *)
LEMMA OrderStep ==
  ASSUME Order, Single', Copied', UNCHANGED <<reqs, bus, host>>, UnderWay' => UnderWay,
         ~halted', wakeup' = wakeup \/ wakeup' = 0, configured = 3 => configured' = 3
  PROVE  Order'
<1>1. wakeup' > 0 => wakeup > 0
  OBVIOUS
<1> QED
  BY <1>1 DEF Order

(* Elements of the queues at most one place nearer to the front, and new   *)
(* ones that are not the host's.                                           *)
LEMMA TokenStep ==
  ASSUME Token, NEW d \in {0, 1}, NEW c \in {0, 1},
         \A i \in 1 .. Len(evq') : HostEv(i)' => i + d \in 1 .. Len(evq) /\ evq'[i] = evq[i + d],
         \A i \in 1 .. Len(queue') : Unsent(i)' \/ queue'[i].sent \/ ~queue'[i].status =>
                                     i + c \in 1 .. Len(queue) /\ queue'[i] = queue[i + c],
         Waits => host'.n = host.n /\ host'.open /\ ~UnderWay',
         c = 1 \/ UNCHANGED host
  PROVE  Token' /\ (Waits' => Waits) /\ (NoneUnsent => NoneUnsent')
<1>1. \A i \in 1 .. Len(evq') : HostEv(i)' => HostEv(i + d) /\ i + d \in 1 .. Len(evq)
  BY DEF HostEv
<1>2. \A i \in 1 .. Len(queue') : Unsent(i)' => Unsent(i + c) /\ i + c \in 1 .. Len(queue)
  BY DEF Unsent
<1>3. (NoneSubmitted => NoneSubmitted') /\ (NoneUnsent => NoneUnsent')
  BY <1>1, <1>2 DEF NoneSubmitted, NoneUnsent
<1>4. Waits' => Waits
  BY <1>3 DEF Waits
<1>5. ASSUME NEW i \in 1 .. Len(evq'), HostEv(i)' PROVE Waits /\ evq'[i].hi = host'.n
  BY <1>1, <1>5 DEF Token, Waits, NoneSubmitted
<1>6. ASSUME NEW i \in 1 .. Len(queue'), Unsent(i)' PROVE Waits /\ queue'[i].n = host'.n
  BY <1>2, <1>6 DEF Token, Waits, NoneUnsent
<1>7. ASSUME NEW i \in 1 .. Len(evq'), NEW j \in 1 .. Len(evq'), HostEv(i)', HostEv(j)' PROVE i = j
  <2>1. i + d = j + d
    BY <1>1, <1>7 DEF Token
  <2> QED
    BY <2>1
<1>8. ASSUME NEW i \in 1 .. Len(queue'), NEW j \in 1 .. Len(queue'), Unsent(i)', Unsent(j)' PROVE i = j
  <2>1. i + c = j + c
    BY <1>2, <1>8 DEF Token
  <2> QED
    BY <2>1
<1>9. ASSUME NEW i \in 1 .. Len(queue'), queue'[i].sent PROVE i = 1 /\ ~host'.open
  <2>1. i + c \in 1 .. Len(queue) /\ queue[i + c].sent
    BY <1>9
  <2>2. i + c = 1 /\ ~host.open
    BY <2>1 DEF Token
  <2>3. c # 1
    BY <2>2
  <2> QED
    BY <2>2, <2>3
<1>10. ASSUME NEW i \in 1 .. Len(queue'), ~queue'[i].status PROVE Unsent(i)'
  <2>1. i + c \in 1 .. Len(queue) /\ queue'[i] = queue[i + c]
    BY <1>10
  <2>2. Unsent(i + c)
    BY <1>10, <2>1 DEF Token
  <2> QED
    BY <2>1, <2>2 DEF Unsent
<1>11. NoneSubmitted' \/ NoneUnsent'
  BY <1>3 DEF Token
<1>12. Waits' => host'.open /\ ~UnderWay'
  BY <1>4
<1> QED
  BY <1>3, <1>4, <1>5, <1>6, <1>7, <1>8, <1>9, <1>10, <1>11, <1>12 DEF Token

(* The two queues as they are, and a notice of the driver's submitted.     *)
Aside == UNCHANGED evq \/ \E src \in Sources \ {"host"} : Submit(Notice(src))

LEMMA AsideEvents ==
  ASSUME Types, Aside
  PROVE  /\ \A i \in 1 .. Len(evq') : HostEv(i)' => i + 0 \in 1 .. Len(evq) /\ evq'[i] = evq[i + 0]
         /\ \A i \in 1 .. Len(evq') : evq'[i].from = {} \/ (i \in 1 .. Len(evq) /\ evq'[i] = evq[i])
         /\ \A i \in 1 .. Len(evq) : i \in 1 .. Len(evq') /\ evq'[i] = evq[i]
         /\ \A i \in 1 .. Len(evq') : i \in 1 .. Len(evq) \/ (i = Len(evq) + 1 /\ ~HostEv(i)')
<1>1. Len(evq) \in Nat
  BY Elements DEF Known
<1>2. CASE UNCHANGED evq
  BY <1>1, <1>2
<1>3. CASE \E src \in Sources \ {"host"} : Submit(Notice(src))
  <2>1. PICK src \in Sources \ {"host"} : Submit(Notice(src))
    BY <1>3
  <2>2. /\ Len(evq') = Len(evq) + 1 /\ evq'[Len(evq) + 1] = Notice(src)
        /\ \A i \in 1 .. Len(evq) : evq'[i] = evq[i]
    BY <2>1, NoticeOK, Submitted
  <2>3. \A i \in 1 .. Len(evq') : i = Len(evq) + 1 \/ i \in 1 .. Len(evq)
    BY <1>1, <2>2
  <2>4. \A i \in 1 .. Len(evq) : i + 0 = i /\ i \in 1 .. Len(evq')
    BY <1>1, <2>2
  <2>5. evq'[Len(evq) + 1].src # "host" /\ evq'[Len(evq) + 1].from = {}
    BY <2>1, <2>2, NoticeOK
  <2>6. \A i \in 1 .. Len(evq') : (i = Len(evq) + 1 /\ ~HostEv(i)') \/ i \in 1 .. Len(evq)
    BY <2>3, <2>5 DEF HostEv
  <2> QED
    BY <2>2, <2>3, <2>4, <2>5, <2>6
<1> QED
  BY <1>2, <1>3 DEF Aside

LEMMA TokenAside ==
  ASSUME Types, Token, Aside, UNCHANGED <<queue, host>>, UnderWay' => UnderWay
  PROVE  Token' /\ (Waits' => Waits) /\ (NoneUnsent => NoneUnsent')
<1>1. Len(queue) \in Nat
  BY Elements DEF Known
<1>2. \A i \in 1 .. Len(queue') : i + 0 \in 1 .. Len(queue) /\ queue'[i] = queue[i + 0]
  BY <1>1
<1>3. Waits => host'.n = host.n /\ host'.open /\ ~UnderWay'
  BY DEF Token
<1> QED
  BY <1>2, <1>3, AsideEvents, TokenStep

LEMMA AheadAside ==
  ASSUME Types, Aside, UNCHANGED queue, NEW src, Ahead(src)
  PROVE  Ahead(src)'
<1>1. Len(evq) \in Nat /\ (NoneUnsent => NoneUnsent') /\ \A j : Unsent(j)' = Unsent(j)
  BY Elements DEF Known, NoneUnsent, Unsent
<1>2. CASE /\ \E i \in 1 .. Len(evq) : evq[i].src = src /\ \A j \in 1 .. Len(evq) : HostEv(j) => i < j
           /\ NoneUnsent
  <2>1. PICK i \in 1 .. Len(evq) : evq[i].src = src /\ \A j \in 1 .. Len(evq) : HostEv(j) => i < j
    BY <1>2
  <2>2. i \in 1 .. Len(evq') /\ evq'[i].src = src
    BY <2>1, AsideEvents
  <2>3. ASSUME NEW j \in 1 .. Len(evq'), HostEv(j)' PROVE i < j
    <3>1. j \in 1 .. Len(evq) /\ evq'[j] = evq[j]
      BY <2>3, AsideEvents
    <3> QED
      BY <2>1, <2>3, <3>1 DEF HostEv
  <2> QED
    BY <1>1, <1>2, <2>2, <2>3 DEF Ahead
<1>3. CASE \E i \in 1 .. Len(queue) : queue[i].src = src /\ \A j \in 1 .. Len(queue) : Unsent(j) => i < j
  BY <1>1, <1>3 DEF Ahead
<1> QED
  BY <1>2, <1>3 DEF Ahead

(* A step that leaves the data stage alone.                                *)
LEMMA PacketsStep ==
  ASSUME Data, UNCHANGED <<reqs, outFlag, outFrom>>, host'.n = host.n, host'.todo = host.todo,
         host'.open = host.open, UnderWay' => UnderWay, Waits' => Waits,
         Reading' => Reading /\ hand'.room = hand.room /\ hand'.from = hand.from,
         Reading /\ ~Reading' => ~UnderWay',
         \A i \in 1 .. Len(evq') : evq'[i].from \subseteq {evq'[i].hi}
  PROVE  Data'
<1>1. Packets' = Packets
  BY DEF Packets
<1> QED
  BY <1>1 DEF Data

LEMMA FromAside ==
  ASSUME Types, Data, Aside
  PROVE  \A i \in 1 .. Len(evq') : evq'[i].from \subseteq {evq'[i].hi}
<1> TAKE i \in 1 .. Len(evq')
<1>1. evq'[i].from = {} \/ (i \in 1 .. Len(evq) /\ evq'[i] = evq[i])
  BY AsideEvents
<1> QED
  BY <1>1 DEF Data

(* The host opens a request: none was under way.                           *)
LEMMA HostSetupR ==
  ASSUME Types, Types', Alone, NEW k \in Asks, HostSetup(k), Regular'
  PROVE  Alone'
<1>1. ~host.open /\ ~Pending
  BY DEF HostSetup, Regular
<1>2. ~UnderWay /\ wakeup = 0
  BY <1>1, NotPending
<1>3. /\ k \in AllKinds /\ k # "feature" /\ reqs' = Append(reqs, k) /\ PutSetup(cur + 1) /\ cur + 1 \in Nat
      /\ UNCHANGED <<hand, addressed, configured, wakeup, halted, evq, outFlag, outFrom, bus, taken>>
      /\ bus = "active"
  BY DEF HostSetup, SetupIsr, Asks, AllKinds, Kinds, Reads, stVars, stackVars, Types
<1>4. /\ Len(reqs') = Len(reqs) + 1 /\ Len(reqs') > 0 /\ reqs'[Len(reqs')] = k
      /\ \A n \in 1 .. Len(reqs') : n = Len(reqs') \/ (n \in 1 .. Len(reqs) /\ reqs'[n] = reqs[n])
  BY <1>3, Grown
<1>5. host'.n = Len(reqs') /\ host'.open /\ host'.todo = (IF k = "out" THEN OutPackets ELSE 0) /\ host'.got = {}
  BY <1>4 DEF HostSetup
<1>6. Single' /\ ~Carried'
  BY <1>2, <1>3, PutSingle
<1>7. hand.pc \notin Working /\ ~Reading /\ ~Reading'
  BY <1>2, <1>3 DEF UnderWay, Carried, Types, HandOK, Working, Reading
<1>8. ~Waits /\ ~outFlag
  BY <1>1 DEF Alone, Token, Data
<1>9. Order'
  <2>1. Copied'
    BY <1>3, <1>7 DEF Copied, Working
  <2> QED
    BY <1>2, <1>3, <1>4, <1>5, <1>6, <2>1 DEF Order, Alone
<1>10. Token' /\ ~Waits'
  <2>1. \A i \in 1 .. Len(evq') : HostEv(i)' => i + 0 \in 1 .. Len(evq) /\ evq'[i] = evq[i + 0]
    BY <1>3, AsideEvents DEF Aside
  <2>2. \A i \in 1 .. Len(queue') : i + 1 \in 1 .. Len(queue) /\ queue'[i] = queue[i + 1]
    <3>1. queue \in Seq(Buf) /\ queue' = IF queue = <<>> THEN <<>> ELSE Tail(queue)
      BY DEF Types, HostSetup, SetupIsr
    <3>2. CASE queue = <<>>
      BY <3>1, <3>2
    <3>3. CASE queue # <<>>
      <4>1. /\ Len(queue) \in Nat \ {0} /\ Len(queue') = Len(queue) - 1
            /\ \A i \in 1 .. Len(queue) - 1 : queue'[i] = queue[i + 1]
        BY <3>1, <3>3, TailFacts
      <4> QED
        BY <4>1
    <3> QED
      BY <3>2, <3>3
  <2> QED
    BY <1>8, <2>1, <2>2, TokenStep DEF Alone
<1>11. Data'
  <2>1. outFlag' = FALSE /\ Packets' = host'.todo + 0
    BY <1>3, <1>8 DEF Packets, Types
  <2>2. Packets' = IF reqs'[Len(reqs')] = "out" THEN OutPackets ELSE 0
    BY <1>4, <1>5, <2>1, Consts
  <2>3. \A i \in 1 .. Len(evq') : evq'[i].from \subseteq {evq'[i].hi}
    BY <1>3 DEF Alone, Data
  <2> QED
    BY <1>7, <1>10, <2>1, <2>2, <2>3 DEF Data
<1>12. Enumerate'
  <2>1. ~Addressing /\ ~Configuring
    BY <1>1 DEF Alone, Enumerate
  <2>2. ~Addressing' /\ ~Configuring'
    BY <1>3, <2>1 DEF Addressing, Configuring
  <2> QED
    BY <2>2 DEF Enumerate
<1>13. Answers'
  BY <1>3, <1>5 DEF Alone, Answers
<1> QED
  BY <1>9, <1>10, <1>11, <1>12, <1>13 DEF Alone

LEMMA HostDataR ==
  ASSUME Types, Types', Alone, HostData PROVE Alone'
<1>1. /\ host.open /\ host.todo \in Nat \ {0} /\ ~outFlag /\ outFlag' = TRUE /\ outFrom' = host.n
      /\ UNCHANGED <<reqs, hand, msgq, addressed, configured, wakeup, halted, evq, queue, bus, taken>>
  BY DEF HostData, Types, HostRec, pktVars, thrVars, stVars, epVars, stackVars, histVars
<1>2. host'.n = host.n /\ host'.open /\ host'.todo = host.todo - 1 /\ host'.got = host.got
  BY <1>1 DEF HostData, Types, HostRec
<1>3. UnderWay' = UnderWay /\ Carried' = Carried /\ Queued' = Queued /\ Reading' = Reading /\ Single' = Single
  BY <1>1 DEF UnderWay, Carried, Queued, Reading, Single
<1>4. Packets' = Packets /\ Packets # 0
  <2>1. Packets = host.todo + 0 /\ Packets' = (host.todo - 1) + 1
    BY <1>1, <1>2 DEF Packets
  <2> QED
    BY <1>1, <2>1
<1>5. /\ NoneSubmitted' = NoneSubmitted /\ NoneUnsent' = NoneUnsent /\ Waits' = Waits
      /\ \A i : HostEv(i)' = HostEv(i) /\ Unsent(i)' = Unsent(i)
  BY <1>1 DEF NoneSubmitted, NoneUnsent, Waits, HostEv, Unsent
<1>6. Order'
  BY <1>1, <1>2, <1>3 DEF Alone, Order, Copied
<1>7. Token'
  BY <1>1, <1>2, <1>3, <1>5 DEF Alone, Token
<1>8. Data'
  BY <1>1, <1>2, <1>3, <1>4, <1>5 DEF Alone, Data
<1>9. Enumerate'
  <2>1. Ahead("address") = Ahead("address")' /\ Ahead("configure") = Ahead("configure")'
    BY <1>1, <1>5 DEF Ahead
  <2> QED
    BY <1>1, <1>2, <2>1 DEF Alone, Enumerate, Addressing, Configuring
<1>10. Answers'
  BY <1>1, <1>2 DEF Alone, Answers
<1> QED
  BY <1>6, <1>7, <1>8, <1>9, <1>10 DEF Alone

(* A step that leaves the host, the requests and the buffers alone.        *)
LEMMA AsideR ==
  ASSUME Types, Alone, Single', Copied', Aside,
         UNCHANGED <<reqs, bus, host, queue, outFlag, outFrom, taken>>, UnderWay' => UnderWay,
         ~halted', wakeup' = wakeup \/ wakeup' = 0, configured = 3 => configured' = 3,
         Reading' => Reading /\ hand'.room = hand.room /\ hand'.from = hand.from,
         Reading /\ ~Reading' => ~UnderWay'
  PROVE  Order' /\ Token' /\ Data' /\ Answers' /\ \A src \in Sources : Ahead(src) => Ahead(src)'
<1>1. Order'
  BY OrderStep DEF Alone
<1>2. Token' /\ (Waits' => Waits)
  BY TokenAside DEF Alone
<1>3. \A i \in 1 .. Len(evq') : evq'[i].from \subseteq {evq'[i].hi}
  BY FromAside DEF Alone
<1>4. Data'
  BY <1>2, <1>3, PacketsStep DEF Alone
<1>5. Answers'
  BY DEF Alone, Answers
<1>6. \A src \in Sources : Ahead(src) => Ahead(src)'
  BY AheadAside
<1> QED
  BY <1>1, <1>2, <1>4, <1>5, <1>6

(* The host's answer is the first buffer.                                  *)
LEMMA HeadUnsent ==
  ASSUME Types, Alone, queue # <<>>, Head(queue).src = "host", ~Head(queue).sent
  PROVE  /\ Len(queue) \in Nat \ {0} /\ Head(queue) = queue[1] /\ Unsent(1) /\ Waits /\ host.open
         /\ ~UnderWay /\ NoneSubmitted
         /\ Packets = 0 /\ ~outFlag /\ ~Reading /\ queue[1].n = host.n /\ ~Addressing /\ ~Configuring
         /\ \A i \in 2 .. Len(queue) : ~Unsent(i) /\ ~queue[i].sent /\ queue[i].status
<1>1. Len(queue) \in Nat \ {0} /\ Head(queue) = queue[1] /\ 1 \in 1 .. Len(queue)
  <2>1. queue \in Seq(Buf)
    BY DEF Types
  <2> QED
    BY <2>1, TailFacts
<1>2. Unsent(1) /\ ~NoneUnsent /\ Waits
  BY <1>1 DEF Unsent, NoneUnsent, Waits
<1>3. host.open /\ ~UnderWay /\ NoneSubmitted /\ queue[1].n = host.n /\ Packets = 0
  BY <1>1, <1>2 DEF Alone, Token, Data
<1>4. ~outFlag
  <2>1. host.todo \in Nat
    BY DEF Types, HostRec
  <2> QED
    BY <1>3, <2>1 DEF Packets
<1>5. ~Reading
  BY <1>3 DEF UnderWay, Carried, Reading, Types, HandOK, Working
<1>6. \A i \in 2 .. Len(queue) : i # 1 /\ i \in 1 .. Len(queue)
  BY <1>1
<1>7. \A i \in 2 .. Len(queue) : ~Unsent(i) /\ ~queue[i].sent /\ queue[i].status
  BY <1>1, <1>2, <1>6 DEF Alone, Token
<1>8. \A src \in Sources : ~Ahead(src)
  <2>1. \A i \in 1 .. Len(queue) : ~(i < 1)
    BY <1>1
  <2> QED
    BY <1>1, <1>2, <2>1 DEF Ahead
<1>9. ~Addressing /\ ~Configuring
  BY <1>8 DEF Alone, Enumerate, Sources
<1> QED
  BY <1>1, <1>2, <1>3, <1>4, <1>5, <1>7, <1>9

(* The host takes what is at the front: its own answer.                    *)
LEMMA HostPollR ==
  ASSUME Types, Types', Alone, HostPoll, Regular'
  PROVE  Alone'
<1> DEFINE b == Head(queue)
<1>1. /\ host.open
      /\ UNCHANGED <<reqs, addressed, configured, wakeup, halted, msgq, hand, bus, outFlag, outFrom, taken>>
  BY DEF HostPoll, pktVars, stVars, thrVars
<1>2. /\ UnderWay' = UnderWay /\ Single' = Single /\ Reading' = Reading /\ (Addressing' <=> Addressing)
      /\ (Configuring' <=> Configuring) /\ (Copied' <=> Copied)
  BY <1>1 DEF UnderWay, Carried, Queued, Single, Reading, Addressing, Configuring, Copied
<1>3. ~halted /\ Single /\ Copied
  BY DEF Alone, Order
<1>4. CASE queue = <<>>
  <2>1. UNCHANGED <<queue, host, evq>>
    BY <1>4 DEF HostPoll
  <2>2. Aside
    BY <2>1 DEF Aside
  <2>3. Order' /\ Token' /\ Data' /\ Answers' /\ \A src \in Sources : Ahead(src) => Ahead(src)'
    BY <1>1, <1>2, <1>3, <2>1, <2>2, AsideR
  <2>4. Enumerate'
    BY <1>1, <1>2, <2>1, <2>3 DEF Alone, Enumerate, Sources
  <2> QED
    BY <2>3, <2>4 DEF Alone
<1>5. CASE queue # <<>>
  <2>1. b = queue[1] /\ queue[1] \in Buf /\ queue \in Seq(Buf) /\ 1 \in 1 .. Len(queue)
    <3>1. queue \in Seq(Buf)
      BY DEF Types
    <3>2. Len(queue) \in Nat \ {0} /\ b = queue[1] /\ b \in Buf
      BY <1>5, <3>1, TailFacts
    <3> QED
      BY <3>1, <3>2
  <2>2. b.src = "host" /\ ~b.sent
    <3>1. CASE b.status
      <4>1. "early" \notin gaps'
        BY DEF Regular
      <4>2. b.src = "host"
        BY <1>5, <3>1, <4>1 DEF HostPoll
      <4>3. ~b.sent
        BY <1>1, <2>1 DEF Alone, Token
      <4> QED
        BY <4>2, <4>3
    <3>2. CASE ~b.status
      BY <2>1, <3>2 DEF Alone, Token, Unsent
    <3> QED
      BY <3>1, <3>2
  <2>3. /\ Len(queue) \in Nat \ {0} /\ Unsent(1) /\ Waits
        /\ ~UnderWay /\ NoneSubmitted
        /\ Packets = 0 /\ ~outFlag /\ ~Reading /\ queue[1].n = host.n /\ ~Addressing /\ ~Configuring
        /\ \A i \in 2 .. Len(queue) : ~Unsent(i) /\ ~queue[i].sent /\ queue[i].status
    BY <1>5, <2>2, HeadUnsent
  <2> HIDE DEF b
  <2>4. \/ /\ b.status /\ queue' = <<[b EXCEPT !.sent = TRUE]>> \o Tail(queue)
           /\ Submit(Notice("status"))
           /\ host' = [host EXCEPT !.open = FALSE, !.got = host.got \cup {b.n}]
        \/ /\ ~b.status /\ b.left = 1 /\ queue' = Tail(queue)
           /\ host' = [host EXCEPT !.open = FALSE, !.got = host.got \cup {b.n}]
           /\ UNCHANGED evq
        \/ /\ ~b.status /\ b.left # 1 /\ queue' = <<[b EXCEPT !.left = b.left - 1]>> \o Tail(queue)
           /\ host' = [host EXCEPT !.open = TRUE, !.got = host.got \cup {b.n}]
           /\ UNCHANGED evq
    BY <1>5 DEF HostPoll, b
  <2>5. host'.n = host.n /\ host'.todo = host.todo /\ host'.got = host.got \cup {host.n}
    BY <2>1, <2>3, <2>4 DEF Types, HostRec
  <2>6. Aside /\ Packets' = Packets
    BY <1>1, <2>4, <2>5 DEF Aside, Sources, Packets
  <2>7. NoneSubmitted'
    BY <2>3, <2>6, AsideEvents DEF NoneSubmitted, HostEv
  <2>8. \A i \in 1 .. Len(evq') : evq'[i].from \subseteq {evq'[i].hi}
    BY <2>6, FromAside DEF Alone
  <2>9. Answers'
    BY <1>1, <2>5 DEF Alone, Answers
  <2>10. Enumerate'
    BY <1>2, <2>3 DEF Enumerate
  <2>11. ASSUME ~host'.open, NoneUnsent',
                \A i \in 1 .. Len(queue') : queue'[i].status /\ (queue'[i].sent => i = 1)
         PROVE  Order' /\ Token' /\ Data'
    <3>1. ~Waits'
      BY <2>7, <2>11 DEF Waits
    <3>2. Order'
      BY <1>1, <1>2, <1>3, <2>3, <2>11 DEF Alone, Order
    <3>3. Token'
      BY <2>7, <2>11, <3>1 DEF Token, NoneSubmitted, NoneUnsent
    <3>4. Data'
      BY <1>1, <1>2, <2>3, <2>8, <2>11, <3>1 DEF Data
    <3> QED
      BY <3>2, <3>3, <3>4
  <2>12. CASE /\ b.status /\ queue' = <<[b EXCEPT !.sent = TRUE]>> \o Tail(queue)
              /\ host' = [host EXCEPT !.open = FALSE, !.got = host.got \cup {b.n}]
    <3> DEFINE c == [b EXCEPT !.sent = TRUE]
    <3>1. c \in Buf /\ c.sent /\ c.status
      BY <2>1, <2>12 DEF Buf, BufRec
    <3>2. queue' = <<c>> \o Tail(queue)
      BY <2>12
    <3> HIDE DEF c
    <3>3. Len(queue') = Len(queue) /\ queue'[1] = c /\ \A i \in 2 .. Len(queue) : queue'[i] = queue[i]
      BY <1>5, <2>1, <3>1, <3>2, HeadChanged
    <3>4. \A i \in 1 .. Len(queue') : i = 1 \/ i \in 2 .. Len(queue)
      BY <2>3, <3>3
    <3>5. \A i \in 1 .. Len(queue') : ~Unsent(i)' /\ queue'[i].status /\ (queue'[i].sent => i = 1)
      BY <2>3, <3>1, <3>3, <3>4 DEF Unsent
    <3>6. NoneUnsent' /\ ~host'.open
      BY <2>12, <3>5 DEF NoneUnsent, Types, HostRec
    <3> QED
      BY <2>9, <2>10, <2>11, <3>5, <3>6 DEF Alone
  <2>13. CASE queue' = Tail(queue) /\ host' = [host EXCEPT !.open = FALSE, !.got = host.got \cup {b.n}]
    <3>1. Len(queue') = Len(queue) - 1 /\ \A i \in 1 .. Len(queue) - 1 : queue'[i] = queue[i + 1]
      BY <1>5, <2>1, <2>13, TailFacts
    <3>2. \A i \in 1 .. Len(queue') : i + 1 \in 2 .. Len(queue) /\ queue'[i] = queue[i + 1]
      BY <2>3, <3>1
    <3>3. \A i \in 1 .. Len(queue') : ~Unsent(i)' /\ queue'[i].status /\ ~queue'[i].sent
      BY <2>3, <3>2 DEF Unsent
    <3>4. NoneUnsent' /\ ~host'.open
      BY <2>13, <3>3 DEF NoneUnsent, Types, HostRec
    <3> QED
      BY <2>9, <2>10, <2>11, <3>3, <3>4 DEF Alone
  <2>14. CASE /\ ~b.status /\ b.left # 1 /\ queue' = <<[b EXCEPT !.left = b.left - 1]>> \o Tail(queue)
              /\ host' = [host EXCEPT !.open = TRUE, !.got = host.got \cup {b.n}]
    <3> DEFINE k == b.left - 1
    <3>1. k \in Nat \ {0}
      BY <2>1, <2>14 DEF Buf, BufRec
    <3> DEFINE c == [b EXCEPT !.left = k]
    <3>2. queue' = <<c>> \o Tail(queue)
      BY <2>14
    <3> HIDE DEF k
    <3>3. c \in Buf /\ c.sent = b.sent /\ c.status = b.status /\ c.src = b.src /\ c.n = b.n
      BY <2>1, <2>14, <3>1 DEF Buf, BufRec
    <3> HIDE DEF c
    <3>4. Len(queue') = Len(queue) /\ queue'[1] = c /\ \A i \in 2 .. Len(queue) : queue'[i] = queue[i]
      BY <1>5, <2>1, <3>2, <3>3, HeadChanged
    <3>5. \A i \in 1 .. Len(queue') : i = 1 \/ i \in 2 .. Len(queue)
      BY <2>3, <3>4
    <3>6. ~Unsent(1) \/ (Unsent(1)' /\ queue'[1].n = host'.n /\ ~queue'[1].sent)
      BY <2>1, <2>2, <2>3, <2>5, <3>3, <3>4 DEF Unsent
    <3>7. \A i \in 2 .. Len(queue) : ~Unsent(i)' /\ ~queue'[i].sent /\ queue'[i].status
      BY <2>3, <3>4 DEF Unsent
    <3>8. host'.open
      BY <2>14 DEF Types, HostRec
    <3>9. Token'
      BY <1>2, <2>3, <2>7, <3>5, <3>6, <3>7, <3>8 DEF Token, NoneSubmitted
    <3>10. Order'
      BY <1>1, <1>2, <1>3, <2>5, <3>8 DEF Alone, Order
    <3>11. Data'
      BY <1>1, <1>2, <2>3, <2>5, <2>6, <2>8, <3>8 DEF Data
    <3> QED
      BY <2>9, <2>10, <3>9, <3>10, <3>11 DEF Alone
  <2> QED
    BY <2>4, <2>12, <2>13, <2>14
<1> QED
  BY <1>4, <1>5

(* The bus sleeps or wakes up: no request of the host is open.             *)
LEMMA HostSleepR ==
  ASSUME Types, Types', Alone, HostSuspend \/ HostResume, Regular'
  PROVE  Alone'
<1>1. /\ ~host.open
      /\ UNCHANGED <<addressed, configured, halted, hand, evq, queue, host, outFlag, outFrom, taken>>
  BY DEF HostSuspend, HostResume, Alone, Order, stackVars
<1>2. ~Waits /\ ~outFlag /\ ~Addressing /\ ~Configuring
  BY <1>1 DEF Alone, Token, Data, Enumerate
<1>3. Feature(1) \/ Feature(2)
  BY DEF HostSuspend, HostResume
<1>4. ~Reading /\ ~Reading'
  BY <1>1 DEF Reading, Alone, Order, Copied, UnderWay, Carried, Types, HandOK, Working
<1>5. Order'
  <2>1. CASE configured = 3
    <3>1. /\ "feature" \in AllKinds /\ reqs' = Append(reqs, "feature") /\ PutSetup(cur + 1) /\ cur + 1 \in Nat
          /\ "hurried" \notin gaps' /\ gaps' = gaps \cup (IF QueueFull THEN {"lost"} ELSE {}) \cup (IF Pending THEN {"hurried"} ELSE {})
      BY <1>3, <2>1 DEF Feature, AllKinds, Types, Regular
    <3>2. ~Pending
      BY <3>1
    <3>3. ~UnderWay
      BY <3>2, NotPending
    <3>4. Single' /\ ~Carried'
      BY <1>1, <3>1, <3>3, PutSingle
    <3>5. /\ Len(reqs') = Len(reqs) + 1 /\ Len(reqs') > 0 /\ reqs'[Len(reqs')] = "feature"
      BY <3>1, Grown
    <3>6. hand.pc \notin Working
      BY <3>3 DEF UnderWay, Carried, Types, HandOK
    <3>7. Copied'
      BY <1>1, <3>6 DEF Copied, Working
    <3> QED
      BY <1>1, <2>1, <3>4, <3>5, <3>7 DEF Alone, Order
  <2>2. CASE configured # 3
    <3>1. UNCHANGED <<wakeup, reqs, msgq>>
      BY <1>3, <2>2 DEF Feature
    <3>2. UnderWay' = UnderWay /\ Single' = Single /\ Copied' = Copied
      BY <1>1, <3>1 DEF UnderWay, Carried, Queued, Single, Copied
    <3> QED
      BY <1>1, <3>1, <3>2 DEF Alone, Order
  <2> QED
    BY <2>1, <2>2
<1>6. Token' /\ ~Waits'
  <2>1. Len(queue) \in Nat /\ Aside
    BY <1>1, Elements DEF Known, Aside
  <2>2. \A i \in 1 .. Len(queue') : i + 0 \in 1 .. Len(queue) /\ queue'[i] = queue[i + 0]
    BY <1>1, <2>1
  <2>3. UNCHANGED host
    BY <1>1
  <2> QED
    BY <1>2, <2>1, <2>2, <2>3, AsideEvents, TokenStep DEF Alone
<1>7. Data'
  BY <1>1, <1>2, <1>4, <1>6 DEF Alone, Data
<1>8. Enumerate'
  BY <1>1, <1>2 DEF Enumerate, Addressing, Configuring
<1>9. Answers'
  BY <1>1 DEF Alone, Answers
<1> QED
  BY <1>5, <1>6, <1>7, <1>8, <1>9 DEF Alone

LEMMA SameMessage ==
  ASSUME Single, UNCHANGED msgq, hand'.msg = hand.msg \/ hand' = Idle
  PROVE  Single' /\ (UnderWay' => UnderWay)
BY DEF Single, UnderWay, Carried, Queued, Idle, NoMsg

(* The enumeration goes on where it was.                                   *)
LEMMA EnumerateSame ==
  ASSUME Alone, UNCHANGED <<reqs, host, addressed, configured>>, hand'.pc \notin {"addressed", "configured"},
         \A src \in Sources : Ahead(src) => Ahead(src)'
  PROVE  Enumerate'
BY DEF Alone, Enumerate, Addressing, Configuring, Sources

LEMMA QuietR ==
  ASSUME Types, Types', Alone, GetMsg \/ OtherMsg \/ TellSuspended \/ WakeupDone \/ TakeSetup \/ XferPlain
  PROVE  Alone'
<1>1. /\ UNCHANGED <<reqs, bus, host, queue, outFlag, outFrom, taken, evq, addressed, configured>>
      /\ wakeup' = wakeup \/ wakeup' = 0
      /\ halted' = halted \/ halted' = FALSE
  BY DEF GetMsg, OtherMsg, TellSuspended, WakeupDone, TakeSetup, XferPlain, pktVars, stVars, epVars,
         stackVars, hostVars, histVars
<1>2. Aside
  BY <1>1 DEF Aside
<1>3. hand.pc \in {"get", "held", "suspend", "take"} \/ hand.msg.type = "xfer"
  BY DEF GetMsg, OtherMsg, TellSuspended, WakeupDone, TakeSetup, XferPlain, Types, HandOK
<1>4. ~Reading
  BY <1>3 DEF Reading, Types, HandOK, Working
<1>5. /\ hand'.pc \in {"held", "get", "woken", "high"} /\ Single' /\ (UnderWay' => UnderWay)
      /\ (hand'.pc = "high" => hand'.lo = Len(reqs))
  <2>1. CASE GetMsg
    BY <2>1, GetSingle DEF Alone, Order
  <2>2. CASE TakeSetup
    <3>1. hand'.pc = "high" /\ hand'.lo = Len(reqs) /\ hand'.msg = hand.msg /\ UNCHANGED msgq
      BY <2>2, TakeHand DEF Types, TakeSetup
    <3> QED
      BY <3>1, SameMessage DEF Alone, Order
  <2>3. CASE TellSuspended
    <3>1. hand' = [hand EXCEPT !.pc = "woken"] /\ UNCHANGED msgq /\ hand \in Thread
      BY <2>3 DEF TellSuspended, Goto, Types, HandOK
    <3>2. hand'.pc = "woken" /\ hand'.msg = hand.msg
      BY <3>1 DEF Thread
    <3> QED
      BY <3>1, <3>2, SameMessage DEF Alone, Order
  <2>4. CASE OtherMsg \/ WakeupDone \/ XferPlain
    <3>1. hand' = Idle /\ UNCHANGED msgq
      BY <2>4 DEF OtherMsg, WakeupDone, XferPlain, Goto, epVars, thrVars
    <3> QED
      BY <3>1, SameMessage DEF Alone, Order, Idle
  <2> QED
    BY <2>1, <2>2, <2>3, <2>4
<1>6. ~Reading' /\ Copied'
  BY <1>1, <1>5 DEF Reading, Copied
<1>7. ~halted'
  BY <1>1 DEF Alone, Order
<1>8. Order' /\ Token' /\ Data' /\ Answers' /\ \A src \in Sources : Ahead(src) => Ahead(src)'
  BY <1>1, <1>2, <1>4, <1>5, <1>6, <1>7, AsideR
<1>9. Enumerate'
  BY <1>1, <1>5, <1>8, EnumerateSame
<1> QED
  BY <1>8, <1>9 DEF Alone

(* A notice submitted while a packet is under way is ahead of its answer.  *)
LEMMA AheadNotice ==
  ASSUME Types, Token, UnderWay, UNCHANGED queue, NEW src \in Sources \ {"host"}, Submit(Notice(src))
  PROVE  Ahead(src)'
<1>1. NoneSubmitted /\ NoneUnsent /\ Len(evq) \in Nat
  BY Elements DEF Token, Waits, Known
<1>2. Len(evq') = Len(evq) + 1 /\ evq'[Len(evq) + 1] = Notice(src)
  BY NoticeOK, Submitted
<1>3. NoneSubmitted'
  BY <1>1, AsideEvents DEF Aside, NoneSubmitted, HostEv
<1>4. NoneUnsent'
  BY <1>1 DEF NoneUnsent, Unsent
<1>5. evq'[Len(evq')].src = src /\ Len(evq') \in 1 .. Len(evq')
  BY <1>1, <1>2, NoticeOK
<1> QED
  BY <1>3, <1>4, <1>5 DEF Ahead, NoneSubmitted

(* The packet under way that is not the driver's own is an open request's. *)
LEMMA HostsOwn ==
  ASSUME Types, Order, UnderWay
  PROVE  KindOf(pkg) = reqs[Len(reqs)] /\ (host.open \/ reqs[Len(reqs)] = "feature") /\ (configured # 3 => host.open)
<1>1. Len(reqs) > 0 /\ (host.open \/ reqs[Len(reqs)] = "feature")
  BY DEF Order
<1>2. KindOf(pkg) = reqs[Len(reqs)] /\ Len(reqs) \in 1 .. Len(reqs)
  BY <1>1, LastKind
<1> QED
  BY <1>1, <1>2 DEF Order

(* The invented SET_ADDRESS and SET_CONFIGURATION.                         *)
LEMMA EnumerateR ==
  ASSUME Types, Types', Alone, EnumInv, Unbroken, AddressEvent \/ AddressDone \/ ConfigEvent \/ ConfigDone
  PROVE  Alone'
<1>1. UNCHANGED <<reqs, bus, host, queue, outFlag, outFrom, taken, wakeup, halted, msgq>>
  BY DEF AddressEvent, AddressDone, ConfigEvent, ConfigDone, pktVars, stVars, epVars, hostVars, histVars
<1>2. Carried /\ UnderWay /\ hand \in Thread
  BY DEF AddressEvent, AddressDone, ConfigEvent, ConfigDone, Types, HandOK, Working, Carried, UnderWay
<1>3. PICK pc \in {"addressed", "conf", "configured", "take"} : Goto(pc)
  BY DEF AddressEvent, AddressDone, ConfigEvent, ConfigDone
<1>4. hand'.pc = pc /\ hand'.msg = hand.msg
  <2>1. hand' = [hand EXCEPT !.pc = pc]
    BY <1>3 DEF Goto
  <2> QED
    BY <1>2, <2>1 DEF Thread
<1>5. ~Reading /\ ~Reading' /\ Copied'
  BY <1>1, <1>4 DEF Reading, Copied, AddressEvent, AddressDone, ConfigEvent, ConfigDone
<1>6. Single' /\ (UnderWay' => UnderWay)
  BY <1>1, <1>4, SameMessage DEF Alone, Order
<1>7. Aside
  BY DEF Aside, Sources, AddressEvent, AddressDone, ConfigEvent, ConfigDone, stackVars
<1>8. configured = 3 => configured' = 3
  BY DEF AddressEvent, AddressDone, ConfigEvent, ConfigDone, EnumInv
<1>9. Order' /\ Token' /\ Data' /\ Answers' /\ \A src \in Sources : Ahead(src) => Ahead(src)'
  BY <1>1, <1>5, <1>6, <1>7, <1>8, AsideR DEF Alone, Order
<1>10. KindOf(pkg) = reqs[Len(reqs)] /\ (host.open \/ reqs[Len(reqs)] = "feature") /\ (configured # 3 => host.open)
  BY <1>2, HostsOwn DEF Alone
<1>11. Enumerate'
  <2>1. CASE AddressEvent
    <3>1. CASE addressed = 0 /\ KindOf(pkg) = "dev"
      <4>1. Submit(Notice("address")) /\ Goto("addressed") /\ UNCHANGED <<addressed, configured>>
        BY <2>1, <3>1 DEF AddressEvent
      <4>2. configured = 0
        BY <3>1 DEF EnumInv
      <4>3. Ahead("address")'
        BY <1>1, <1>2, <4>1, AheadNotice DEF Alone, Sources
      <4>4. hand'.pc = "addressed"
        BY <1>2, <4>1 DEF Goto, Thread
      <4> QED
        BY <1>1, <1>10, <3>1, <4>1, <4>2, <4>3, <4>4 DEF Enumerate, Addressing, Configuring
    <3>2. CASE ~(addressed = 0 /\ KindOf(pkg) = "dev")
      <4>1. Goto("conf") /\ UNCHANGED <<addressed, configured>>
        BY <2>1, <3>2 DEF AddressEvent
      <4>2. hand'.pc = "conf"
        BY <1>2, <4>1 DEF Goto, Thread
      <4> QED
        BY <1>1, <1>9, <4>1, <4>2, EnumerateSame
    <3> QED
      BY <3>1, <3>2
  <2>2. CASE AddressDone
    <3>1. hand.pc = "addressed" /\ addressed' = 1 /\ UNCHANGED configured /\ Goto("conf")
      BY <2>2 DEF AddressDone
    <3>2. hand'.pc = "conf"
      BY <1>2, <3>1 DEF Goto, Thread
    <3>3. configured = 0 /\ host.open /\ reqs[Len(reqs)] = "dev" /\ Ahead("address")
      BY <3>1 DEF Alone, Enumerate, Addressing
    <3>4. Ahead("address")'
      BY <1>9, <3>3 DEF Sources
    <3> QED
      BY <1>1, <3>1, <3>2, <3>3, <3>4 DEF Enumerate, Addressing, Configuring
  <2>3. CASE ConfigEvent /\ configured = 0
    <3>1. configured' = (IF KindOf(pkg) = "conf" THEN 1 ELSE 0) /\ Goto("take") /\ UNCHANGED addressed
      BY <2>3 DEF ConfigEvent
    <3>2. hand'.pc = "take" /\ hand.pc = "conf"
      BY <1>2, <2>3, <3>1 DEF ConfigEvent, Goto, Thread
    <3>3. ~Configuring'
      BY <3>1, <3>2 DEF Configuring
    <3>4. Addressing' => Addressing /\ addressed = 1
      BY <3>1, <3>2 DEF Addressing
    <3>5. Addressing => host.open /\ reqs[Len(reqs)] = "dev" /\ Ahead("address")
      BY DEF Alone, Enumerate
    <3>6. Addressing => configured' = 0 /\ Ahead("address")'
      BY <1>9, <1>10, <3>1, <3>5 DEF Sources
    <3> QED
      BY <1>1, <3>3, <3>4, <3>5, <3>6 DEF Enumerate
  <2>4. CASE ConfigEvent /\ configured = 1
    <3>1. Submit(Notice("configure")) /\ Goto("configured") /\ UNCHANGED <<addressed, configured>>
      BY <2>4 DEF ConfigEvent
    <3>2. hand'.pc = "configured"
      BY <1>2, <3>1 DEF Goto, Thread
    <3>3. addressed # 1
      BY <2>4 DEF Alone, Enumerate, Addressing
    <3>4. Ahead("configure")'
      BY <1>1, <1>2, <3>1, AheadNotice DEF Alone, Sources
    <3> QED
      BY <1>1, <1>10, <2>4, <3>1, <3>2, <3>3, <3>4 DEF Enumerate, Addressing, Configuring
  <2>5. CASE ConfigEvent /\ configured > 1
    <3>1. Goto("take") /\ UNCHANGED <<addressed, configured>>
      BY <2>5 DEF ConfigEvent
    <3>2. hand'.pc = "take"
      BY <1>2, <3>1 DEF Goto, Thread
    <3> QED
      BY <1>1, <1>9, <3>1, <3>2, EnumerateSame
  <2>6. CASE ConfigDone
    <3>1. hand.pc = "configured" /\ configured' = 2 /\ UNCHANGED addressed /\ Goto("take")
      BY <2>6 DEF ConfigDone
    <3>2. hand'.pc = "take"
      BY <1>2, <3>1 DEF Goto, Thread
    <3>3. host.open /\ addressed # 1 /\ Ahead("configure")
      BY <3>1 DEF Alone, Enumerate, Configuring
    <3>4. Ahead("configure")'
      BY <1>9, <3>3 DEF Sources
    <3> QED
      BY <1>1, <3>1, <3>2, <3>3, <3>4 DEF Enumerate, Addressing, Configuring
  <2>7. configured = 0 \/ configured = 1 \/ configured > 1
    BY DEF Types
  <2> QED
    BY <2>1, <2>2, <2>3, <2>4, <2>5, <2>6, <2>7
<1> QED
  BY <1>9, <1>11 DEF Alone

(* A request of the host is submitted: nothing of it was before.           *)
LEMMA SubmitR ==
  ASSUME Types, Types', Alone, UnderWay, UNCHANGED <<reqs, bus, host, queue, outFlag, outFrom, taken, wakeup, msgq>>,
         UNCHANGED <<addressed, configured, halted>>, Carried, hand' = Idle,
         NEW e \in Event, Submit(e), e.src \in {"host", "feature"}, e.from \subseteq {e.hi}, e.hi = Len(reqs),
         e.src = "host" => host.open /\ Packets = 0
  PROVE  Alone'
<1>1. NoneSubmitted /\ NoneUnsent /\ Len(evq) \in Nat
  BY Elements DEF Alone, Token, Waits, Known
<1>2. /\ Len(evq') = Len(evq) + 1 /\ evq'[Len(evq) + 1] = e
      /\ \A i \in 1 .. Len(evq) : evq'[i] = evq[i]
  BY Submitted
<1>3. \A i \in 1 .. Len(evq') : (i = Len(evq) + 1 /\ evq'[i] = e) \/ (i \in 1 .. Len(evq) /\ evq'[i] = evq[i])
  BY <1>1, <1>2
<1>4. ~UnderWay' /\ ~Carried' /\ Single' /\ Copied' /\ ~Reading'
  BY DEF Alone, Order, Single, UnderWay, Carried, Queued, Copied, Reading, Idle, NoMsg
<1>5. Order'
  BY <1>4, OrderStep DEF Alone, Order
<1>6. \A i \in 1 .. Len(evq') : HostEv(i)' => i = Len(evq) + 1 /\ e.src = "host" /\ evq'[i] = e
  BY <1>1, <1>3 DEF HostEv, NoneSubmitted
<1>7. NoneUnsent' /\ \A i \in 1 .. Len(queue') : ~Unsent(i)'
  BY <1>1 DEF NoneUnsent, Unsent
<1>8. Waits' => e.src = "host"
  BY <1>6, <1>7 DEF Waits, NoneSubmitted
<1>9. Token'
  <2>1. \A i \in 1 .. Len(evq') : HostEv(i)' => evq'[i].hi = host'.n
    BY <1>6 DEF Alone, Order
  <2>2. \A i \in 1 .. Len(queue') : queue'[i].status /\ (queue'[i].sent => i = 1 /\ ~host'.open)
    BY <1>1 DEF Alone, Token, NoneUnsent
  <2>3. \A i, j \in 1 .. Len(evq') : HostEv(i)' /\ HostEv(j)' => i = j
    BY <1>6
  <2>4. Waits' => host'.open /\ ~UnderWay'
    BY <1>4, <1>8
  <2> QED
    BY <1>7, <2>1, <2>2, <2>3, <2>4 DEF Token
<1>10. Data'
  <2>1. Packets' = Packets
    BY DEF Packets
  <2>2. \A i \in 1 .. Len(evq') : evq'[i].from \subseteq {evq'[i].hi}
    BY <1>3 DEF Alone, Data
  <2>3. outFlag' => host'.open /\ outFrom' = host'.n
    BY DEF Alone, Data
  <2> QED
    BY <1>4, <1>8, <2>1, <2>2, <2>3 DEF Data
<1>11. \A src \in Sources \ {"host"} : Ahead(src) => Ahead(src)'
  <2> TAKE src \in Sources \ {"host"}
  <2>1. CASE \E i \in 1 .. Len(evq) : evq[i].src = src
    <3>1. PICK i \in 1 .. Len(evq) : evq[i].src = src
      BY <2>1
    <3>2. i \in 1 .. Len(evq') /\ evq'[i].src = src /\ i < Len(evq) + 1
      BY <1>1, <1>2, <3>1
    <3> QED
      BY <1>6, <1>7, <3>2 DEF Ahead
  <2>2. CASE \E i \in 1 .. Len(queue) : queue[i].src = src
    BY <1>7, <2>2 DEF Ahead
  <2> QED
    BY <2>1, <2>2 DEF Ahead
<1>12. Enumerate'
  BY <1>11 DEF Alone, Enumerate, Addressing, Configuring, Idle, Sources
<1>13. Answers'
  BY DEF Alone, Answers
<1> QED
  BY <1>5, <1>9, <1>10, <1>12, <1>13 DEF Alone

LEMMA CopyR ==
  ASSUME Types, Types', Alone, CopyHigh
  PROVE  Alone'
<1>1. /\ UNCHANGED <<reqs, bus, host, queue, outFlag, outFrom, taken, wakeup, msgq>>
      /\ UNCHANGED <<addressed, configured, halted>> /\ hand.pc = "high"
  BY DEF CopyHigh, pktVars, stVars, epVars, hostVars, histVars
<1>2. Carried /\ UnderWay /\ hand.lo = Len(reqs) /\ pkg = Len(reqs) /\ Len(reqs) > 0 /\ Len(reqs) \in Nat
  BY <1>1, CopyHand, LastKind DEF Carried, UnderWay, Alone, Order, Copied
<1>3. KindOf(pkg) = reqs[Len(reqs)] /\ (host.open \/ reqs[Len(reqs)] = "feature") /\ (configured # 3 => host.open)
  BY <1>2, HostsOwn DEF Alone
<1>4. reqs[Len(reqs)] \in AllKinds
  BY <1>2, LastKind
<1>5. StageOf(hand.lo, pkg) = "out" <=> reqs[Len(reqs)] = "out"
  BY <1>2, <1>3, <1>4 DEF StageOf, AllKinds, Kinds, Reads
<1>6. CASE /\ StageOf(hand.lo, pkg) = "out" /\ hand'.pc = "check" /\ hand'.lo = hand.lo /\ hand'.hi = pkg
           /\ hand'.room = OutPackets /\ hand'.from = {} /\ hand'.msg = hand.msg /\ UNCHANGED evq
  <2>1. host.open /\ ~Reading /\ Reading' /\ Packets' = Packets
    BY <1>1, <1>3, <1>5, <1>6 DEF Reading, Packets
  <2>2. Packets = OutPackets
    BY <1>2, <1>5, <1>6, <2>1 DEF Alone, Data
  <2>3. Aside
    BY <1>6 DEF Aside
  <2>4. Single' /\ (UnderWay' => UnderWay)
    BY <1>1, <1>6, SameMessage DEF Alone, Order
  <2>5. Copied'
    BY <1>1, <1>2, <1>5, <1>6 DEF Copied
  <2>6. Order'
    BY <1>1, <2>4, <2>5, OrderStep DEF Alone, Order
  <2>7. Token' /\ (Waits' => Waits)
    BY <1>1, <2>3, <2>4, TokenAside DEF Alone
  <2>8. Data'
    BY <1>1, <1>6, <2>1, <2>2, <2>7 DEF Alone, Data
  <2>9. Enumerate'
    <3>1. \A src \in Sources : Ahead(src) => Ahead(src)'
      BY <1>1, <2>3, AheadAside
    <3> QED
      BY <1>1, <1>6, <3>1, EnumerateSame
  <2>10. Answers'
    BY <1>1 DEF Alone, Answers
  <2> QED
    BY <2>6, <2>7, <2>8, <2>9, <2>10 DEF Alone
<1>7. CASE /\ StageOf(hand.lo, pkg) # "out" /\ hand' = Idle
           /\ Submit(SetupEvent(Source(pkg), hand.lo, pkg, {}))
  <2> DEFINE e == SetupEvent(Source(pkg), hand.lo, pkg, {})
  <2>1. Source(pkg) \in Sources /\ Source(pkg) \in {"host", "feature"} /\ {} \in SUBSET Nat
    BY SourceIs DEF Sources
  <2>2. e \in Event /\ e.src = Source(pkg) /\ e.hi = Len(reqs) /\ e.from = {}
    BY <1>2, <2>1, SetupEventOK
  <2>3. Source(pkg) = "host" => host.open /\ Packets = 0
    <3>1. Source(pkg) = "host" => host.open
      BY <1>3 DEF Source
    <3>2. host.open => Packets = 0
      BY <1>1, <1>2, <1>5, <1>7 DEF Alone, Data, Reading
    <3> QED
      BY <3>1, <3>2
  <2> HIDE DEF e
  <2>4. Submit(e) /\ hand' = Idle
    BY <1>7 DEF e
  <2> QED
    BY <1>1, <1>2, <2>1, <2>2, <2>3, <2>4, SubmitR
<1> QED
  BY <1>6, <1>7, CopyHand

LEMMA CheckR ==
  ASSUME Types, Types', Alone, CheckData
  PROVE  Alone'
<1>1. /\ UNCHANGED <<reqs, bus, host, queue, outFlag, outFrom, taken, wakeup, msgq>>
      /\ UNCHANGED <<addressed, configured, halted>> /\ hand.pc = "check" /\ hand.hi \in Nat /\ hand.from \in SUBSET Nat
      /\ hand.lo \in Nat
  BY CheckHand DEF CheckData, pktVars, stVars, epVars, hostVars, histVars
<1>2. Carried /\ UnderWay /\ Reading /\ hand.hi = Len(reqs) /\ reqs[Len(reqs)] = "out" /\ Len(reqs) > 0
  BY <1>1 DEF Carried, UnderWay, Reading, Alone, Order, Copied, Types, HandOK, Working
<1>3. host.open /\ hand.room = Packets /\ hand.from \subseteq {Len(reqs)}
  BY <1>2 DEF Alone, Order, Data
<1>4. CASE hand' = Idle /\ UNCHANGED evq
  <2>1. Aside
    BY <1>4 DEF Aside
  <2>2. Single' /\ ~UnderWay' /\ Copied' /\ ~Reading'
    BY <1>1, <1>2, <1>4 DEF Alone, Order, Single, UnderWay, Carried, Queued, Copied, Reading, Idle, NoMsg
  <2>3. Order' /\ Token' /\ Data' /\ Answers' /\ \A src \in Sources : Ahead(src) => Ahead(src)'
    BY <1>1, <1>2, <2>1, <2>2, AsideR DEF Alone, Order
  <2>4. Enumerate'
    BY <1>1, <1>4, <2>3, EnumerateSame DEF Idle
  <2> QED
    BY <2>3, <2>4 DEF Alone
<1>5. CASE hand.room = 0 /\ hand' = Idle /\ Submit(SetupEvent(Source(hand.hi), hand.lo, hand.hi, hand.from))
  <2> DEFINE e == SetupEvent(Source(hand.hi), hand.lo, hand.hi, hand.from)
  <2>1. Source(hand.hi) \in Sources /\ Source(hand.hi) \in {"host", "feature"}
    BY SourceIs DEF Sources
  <2>2. e \in Event /\ e.src = Source(hand.hi) /\ e.hi = Len(reqs) /\ e.from = hand.from
    BY <1>1, <1>2, <2>1, SetupEventOK
  <2>3. Packets = 0
    BY <1>3, <1>5
  <2> HIDE DEF e
  <2>4. Submit(e) /\ hand' = Idle
    BY <1>5 DEF e
  <2> QED
    BY <1>1, <1>2, <1>3, <2>1, <2>2, <2>3, <2>4, SubmitR
<1>6. CASE /\ hand'.pc = "read" /\ hand'.msg = hand.msg /\ hand'.lo = hand.lo /\ hand'.hi = hand.hi
           /\ hand'.room = hand.room /\ hand'.from = hand.from /\ UNCHANGED evq
  <2>1. Aside
    BY <1>6 DEF Aside
  <2>2. Single' /\ (UnderWay' => UnderWay)
    BY <1>1, <1>6, SameMessage DEF Alone, Order
  <2>3. Copied' /\ Reading'
    BY <1>1, <1>2, <1>6 DEF Copied, Reading, Alone, Order
  <2>4. Order' /\ Token' /\ Data' /\ Answers' /\ \A src \in Sources : Ahead(src) => Ahead(src)'
    BY <1>1, <1>2, <1>6, <2>1, <2>2, <2>3, AsideR DEF Alone, Order
  <2>5. Enumerate'
    BY <1>1, <1>6, <2>4, EnumerateSame
  <2> QED
    BY <2>4, <2>5 DEF Alone
<1> QED
  BY <1>4, <1>5, <1>6, CheckHand

(* A packet goes from the FIFO into the buffer.                            *)
LEMMA ReadR ==
  ASSUME Types, Types', Alone, ReadData
  PROVE  Alone'
<1>1. /\ UNCHANGED <<reqs, bus, host, queue, taken, wakeup, msgq, evq>>
      /\ UNCHANGED <<addressed, configured, halted>> /\ hand.pc = "read"
  BY DEF ReadData, pktVars, stVars, epVars, stackVars
<1>2. Carried /\ UnderWay /\ Reading /\ Reading' /\ hand.hi = Len(reqs) /\ reqs[Len(reqs)] = "out"
  BY <1>1, ReadHand DEF Carried, UnderWay, Reading, Alone, Order, Copied, Types, HandOK, Working
<1>3. host.open /\ hand.room = Packets /\ hand.from \subseteq {Len(reqs)} /\ host.todo \in Nat /\ host.n = Len(reqs)
  BY <1>2 DEF Alone, Order, Data, Types, HostRec
<1>4. hand'.msg = hand.msg /\ hand'.lo = hand.lo /\ hand'.hi = hand.hi /\ hand'.pc = "check"
  BY ReadHand
<1>5. Single' /\ (UnderWay' => UnderWay)
  BY <1>1, <1>4, SameMessage DEF Alone, Order
<1>6. Copied'
  BY <1>1, <1>2, <1>4 DEF Copied, Alone, Order
<1>7. Order'
  BY <1>1, <1>5, <1>6, OrderStep DEF Alone, Order
<1>8. Aside
  BY <1>1 DEF Aside
<1>9. Token' /\ (Waits' => Waits)
  BY <1>1, <1>5, <1>8, TokenAside DEF Alone
<1>10. Data'
  <2>1. ~Waits'
    BY <1>2, <1>9 DEF Alone, Token
  <2>2. CASE outFlag
    <3>1. outFlag' = FALSE /\ hand'.room = hand.room - 1 /\ hand'.from = hand.from \cup {outFrom}
      BY <2>2, ReadHand DEF ReadData
    <3>2. Packets = host.todo + 1 /\ Packets' = host.todo + 0 /\ outFrom = host.n
      BY <1>1, <2>2, <3>1 DEF Packets, Alone, Data
    <3>3. hand'.room = Packets'
      BY <1>3, <3>1, <3>2
    <3>4. hand'.from \subseteq {Len(reqs)}
      BY <1>3, <3>1, <3>2
    <3> QED
      BY <1>1, <1>2, <2>1, <3>1, <3>3, <3>4 DEF Alone, Data
  <2>3. CASE ~outFlag
    <3>1. UNCHANGED <<outFlag, outFrom>> /\ hand'.room = hand.room /\ hand'.from = hand.from
      BY <2>3, ReadHand DEF ReadData
    <3>2. Packets' = Packets
      BY <1>1, <3>1 DEF Packets
    <3> QED
      BY <1>1, <1>2, <1>3, <2>1, <3>1, <3>2 DEF Alone, Data
  <2> QED
    BY <2>2, <2>3
<1>11. Enumerate'
  <2>1. \A src \in Sources : Ahead(src) => Ahead(src)'
    BY <1>1, <1>8, AheadAside
  <2> QED
    BY <1>1, <1>4, <2>1, EnumerateSame
<1>12. Answers'
  BY <1>1 DEF Alone, Answers
<1> QED
  BY <1>7, <1>9, <1>10, <1>11, <1>12 DEF Alone

(* The driver thread completes the status stage of its own request.        *)
LEMMA XferR ==
  ASSUME Types, Types', Alone, XferAddress \/ XferConfigured \/ XferWakeup
  PROVE  Alone'
<1>1. /\ UNCHANGED <<reqs, bus, host, outFlag, outFrom, wakeup, msgq, halted>>
      /\ hand.pc = "held" /\ hand.msg.type = "xfer" /\ hand \in Thread
  BY DEF XferAddress, XferConfigured, XferWakeup, pktVars, stVars, hostVars, Types, HandOK
<1>2. PICK pc \in {"get", "suspend", "woken"} : Goto(pc)
  BY DEF XferAddress, XferConfigured, XferWakeup
<1>3. hand'.pc = pc /\ (hand' = Idle \/ hand'.msg = hand.msg)
  BY <1>1, <1>2 DEF Goto, Idle, Thread
<1>4. Single' /\ (UnderWay' => UnderWay) /\ ~Reading /\ ~Reading' /\ Copied'
  BY <1>1, <1>3, SameMessage DEF Alone, Order, Reading, Copied
<1>5. \/ addressed = 1 /\ addressed' = 2 /\ UNCHANGED configured
      \/ addressed # 1 /\ configured = 2 /\ configured' = 3 /\ UNCHANGED addressed
      \/ addressed # 1 /\ configured # 2 /\ wakeup > 0 /\ UNCHANGED <<addressed, configured>>
  BY DEF XferAddress, XferConfigured, XferWakeup, stVars
<1>6. Order'
  BY <1>1, <1>4, <1>5, OrderStep DEF Alone, Order
<1>7. NoneUnsent \/ Ahead("address") \/ Ahead("configure")
  <2>1. wakeup > 0 => NoneUnsent
    BY DEF Alone, Order, Token, Waits
  <2> QED
    BY <1>5, <2>1 DEF Alone, Enumerate, Addressing, Configuring
<1>8. queue # <<>> => ~Unsent(1) /\ Head(queue) = queue[1]
  <2> SUFFICES ASSUME queue # <<>> PROVE ~Unsent(1) /\ Head(queue) = queue[1]
    OBVIOUS
  <2>1. queue \in Seq(Buf)
    BY DEF Types
  <2>2. Len(queue) \in Nat \ {0} /\ Head(queue) = queue[1]
    BY <2>1, TailFacts
  <2>3. 1 \in 1 .. Len(queue) /\ \A i \in 1 .. Len(queue) : ~(i < 1)
    BY <2>2
  <2> QED
    BY <1>7, <2>2, <2>3 DEF Ahead, NoneUnsent
<1>9. Aside
  BY XferEvents DEF Aside, Sources
<1>10. \A i \in 1 .. Len(queue') : Unsent(i)' \/ queue'[i].sent \/ ~queue'[i].status =>
                                   i + 1 \in 1 .. Len(queue) /\ queue'[i] = queue[i + 1]
  <2>1. queue \in Seq(Buf) /\ queue' = IF queue = <<>> THEN queue ELSE Tail(queue)
    BY DEF Types, XferAddress, XferConfigured, XferWakeup, CompleteStatus
  <2>2. CASE queue = <<>>
    BY <2>1, <2>2
  <2>3. CASE queue # <<>>
    <3>1. /\ Len(queue) \in Nat \ {0} /\ Len(queue') = Len(queue) - 1
          /\ \A i \in 1 .. Len(queue) - 1 : queue'[i] = queue[i + 1]
      BY <2>1, <2>3, TailFacts
    <3> QED
      BY <3>1
  <2> QED
    BY <2>2, <2>3
<1>11. Token' /\ (Waits' => Waits)
  <2>1. Waits => host'.n = host.n /\ host'.open /\ ~UnderWay'
    BY <1>1, <1>4 DEF Alone, Token
  <2> QED
    BY <1>9, <1>10, <2>1, AsideEvents, TokenStep DEF Alone
<1>12. Data'
  <2>1. \A i \in 1 .. Len(evq') : evq'[i].from \subseteq {evq'[i].hi}
    BY <1>9, FromAside DEF Alone
  <2> QED
    BY <1>1, <1>4, <1>11, <2>1, PacketsStep DEF Alone
<1>13. Enumerate'
  <2>1. addressed = 1 => configured = 0
    BY DEF Alone, Enumerate, Addressing
  <2>2. ~Addressing' /\ ~Configuring'
    BY <1>3, <1>5, <2>1 DEF Addressing, Configuring
  <2> QED
    BY <2>2 DEF Enumerate
<1>14. Answers'
  <2>1. PICK want \in {"address", "configure", "feature"} :
          CompleteStatus(want) /\ (want # "feature" => addressed = 1 \/ configured = 2)
    BY DEF XferAddress, XferConfigured, XferWakeup
  <2> DEFINE s == [want |-> want, src |-> Head(queue).src, sent |-> Head(queue).sent]
  <2>2. UNCHANGED taken \/ (queue # <<>> /\ taken' = taken \cup {s})
    BY <2>1 DEF CompleteStatus
  <2>3. queue # <<>> /\ s.src = "host" => s.sent /\ want = "feature"
    <3>0. SUFFICES ASSUME queue # <<>>, s.src = "host" PROVE s.sent /\ want = "feature"
      OBVIOUS
    <3>1. s.sent /\ Head(queue) = queue[1]
      BY <1>8, <3>0 DEF Unsent
    <3>2. 1 \in 1 .. Len(queue)
      <4>1. queue \in Seq(Buf)
        BY DEF Types
      <4>2. Len(queue) \in Nat \ {0}
        BY <3>0, <4>1, TailFacts
      <4> QED
        BY <4>2
    <3>3. ~host.open
      BY <3>1, <3>2 DEF Alone, Token
    <3>4. ~(addressed = 1 \/ configured = 2)
      BY <3>3 DEF Alone, Enumerate, Addressing, Configuring
    <3> QED
      BY <2>1, <3>1, <3>4
  <2>4. s.want = want
    OBVIOUS
  <2> HIDE DEF s
  <2> QED
    BY <1>1, <2>2, <2>3, <2>4 DEF Alone, Answers
<1> QED
  BY <1>6, <1>11, <1>12, <1>13, <1>14 DEF Alone

(* What the stack makes of the first event.                                *)
AnswerTo(b, e) == b.src = e.src /\ b.n = e.hi /\ ~b.sent /\ (b.status \/ b.src = "host")

LEMMA PopR ==
  ASSUME Types, Types', Alone, evq # <<>>, evq' = Tail(evq),
         \/ UNCHANGED queue /\ Head(evq).src \in {"status", "reset"}
         \/ \E b \in Buf : queue' = Append(queue, b) /\ AnswerTo(b, Head(evq)),
         UNCHANGED host, UnderWay' => UnderWay
  PROVE  /\ Token' /\ (Waits' => Waits)
         /\ \A i \in 1 .. Len(evq') : evq'[i].from \subseteq {evq'[i].hi}
         /\ \A src \in {"address", "configure"} : Ahead(src) => Ahead(src)'
<1>1. /\ Len(evq) \in Nat \ {0} /\ Len(evq') = Len(evq) - 1 /\ Head(evq) = evq[1]
      /\ \A i \in 1 .. Len(evq) - 1 : evq'[i] = evq[i + 1]
  BY Popped
<1>2. \A i \in 1 .. Len(evq') : i + 1 \in 1 .. Len(evq) /\ evq'[i] = evq[i + 1] /\ i + 1 # 1
  BY <1>1
<1>3. \A i \in 1 .. Len(evq') : evq'[i].from \subseteq {evq'[i].hi}
  BY <1>2 DEF Alone, Data
<1>4. 1 \in 1 .. Len(evq) /\ Len(queue) \in Nat
  BY <1>1, Elements DEF Known
<1>5. CASE UNCHANGED queue /\ Head(evq).src \in {"status", "reset"}
  <2>1. \A i \in 1 .. Len(queue') : i + 0 \in 1 .. Len(queue) /\ queue'[i] = queue[i + 0]
    BY <1>4, <1>5
  <2>2. Waits => host'.n = host.n /\ host'.open /\ ~UnderWay'
    BY DEF Alone, Token
  <2>3. Token' /\ (Waits' => Waits) /\ (NoneUnsent => NoneUnsent')
    BY <1>2, <2>1, <2>2, TokenStep DEF Alone
  <2>4. ASSUME NEW src \in {"address", "configure"}, Ahead(src) PROVE Ahead(src)'
    <3>1. CASE \E i \in 1 .. Len(queue) : queue[i].src = src /\ \A j \in 1 .. Len(queue) : Unsent(j) => i < j
      BY <1>5, <3>1 DEF Ahead, Unsent
    <3>2. CASE /\ \E i \in 1 .. Len(evq) : evq[i].src = src /\ \A j \in 1 .. Len(evq) : HostEv(j) => i < j
               /\ NoneUnsent
      <4>1. PICK i \in 1 .. Len(evq) : evq[i].src = src /\ \A j \in 1 .. Len(evq) : HostEv(j) => i < j
        BY <3>2
      <4>2. i # 1
        BY <1>1, <1>5, <4>1
      <4>3. i - 1 \in 1 .. Len(evq') /\ (i - 1) + 1 = i
        BY <1>1, <4>2
      <4>4. evq'[i - 1].src = src
        BY <1>2, <4>1, <4>3
      <4>5. ASSUME NEW j \in 1 .. Len(evq'), HostEv(j)' PROVE i - 1 < j
        <5>1. HostEv(j + 1) /\ j + 1 \in 1 .. Len(evq)
          BY <1>2, <4>5 DEF HostEv
        <5>2. i < j + 1
          BY <4>1, <5>1
        <5> QED
          BY <5>2
      <4> QED
        BY <2>3, <3>2, <4>3, <4>4, <4>5 DEF Ahead
    <3> QED
      BY <2>4, <3>1, <3>2 DEF Ahead
  <2> QED
    BY <1>3, <2>3, <2>4
<1>6. CASE \E b \in Buf : queue' = Append(queue, b) /\ AnswerTo(b, Head(evq))
  <2>1. PICK b \in Buf : queue' = Append(queue, b) /\ AnswerTo(b, evq[1])
    BY <1>1, <1>6
  <2>2. /\ Len(queue') = Len(queue) + 1 /\ queue'[Len(queue) + 1] = b
        /\ \A i \in 1 .. Len(queue) : queue'[i] = queue[i]
    BY <2>1, AppendFacts DEF Types
  <2>3. \A i \in 1 .. Len(queue') : (i = Len(queue) + 1 /\ queue'[i] = b) \/ (i \in 1 .. Len(queue) /\ queue'[i] = queue[i])
    BY <1>4, <2>2
  <2>4. Len(queue) + 1 \in 1 .. Len(queue') /\ \A i \in 1 .. Len(queue) : i + 0 = i /\ i < Len(queue) + 1 /\ i \in 1 .. Len(queue')
    BY <1>4, <2>2
  <2>5. \A i \in 1 .. Len(queue') : Unsent(i)' => \/ i = Len(queue) + 1 /\ HostEv(1)
                                                  \/ i \in 1 .. Len(queue) /\ Unsent(i)
    BY <2>1, <2>3 DEF Unsent, HostEv, AnswerTo
  <2>6. Token' /\ (Waits' => Waits)
    <3>1. CASE b.src # "host"
      <4>1. \A i \in 1 .. Len(queue') : Unsent(i)' \/ queue'[i].sent \/ ~queue'[i].status =>
                                        i + 0 \in 1 .. Len(queue) /\ queue'[i] = queue[i + 0]
        BY <2>1, <2>3, <2>4, <3>1 DEF Unsent, AnswerTo
      <4>2. Waits => host'.n = host.n /\ host'.open /\ ~UnderWay'
        BY DEF Alone, Token
      <4> QED
        BY <1>2, <4>1, <4>2, TokenStep DEF Alone
    <3>2. CASE b.src = "host"
      <4>1. HostEv(1)
        BY <2>1, <3>2 DEF AnswerTo, HostEv
      <4>2. ~NoneSubmitted /\ Waits
        BY <1>4, <4>1 DEF NoneSubmitted, Waits
      <4>3. NoneUnsent /\ host.open /\ ~UnderWay /\ b.n = host.n
        BY <1>4, <2>1, <4>1, <4>2 DEF Alone, Token, AnswerTo
      <4>4. \A i \in 1 .. Len(evq') : ~HostEv(i)'
        <5> TAKE i \in 1 .. Len(evq')
        <5>1. ~HostEv(i + 1)
          BY <1>2, <1>4, <4>1 DEF Alone, Token
        <5> QED
          BY <1>2, <5>1 DEF HostEv
      <4>5. \A i \in 1 .. Len(queue') : Unsent(i)' => i = Len(queue) + 1 /\ queue'[i] = b
        BY <2>2, <2>5, <4>3 DEF NoneUnsent
      <4>6. \A i \in 1 .. Len(queue') : queue'[i].sent => i = 1 /\ ~host'.open
        BY <2>1, <2>3 DEF Alone, Token, AnswerTo
      <4>7. \A i \in 1 .. Len(queue') : ~queue'[i].status => Unsent(i)'
        <5> TAKE i \in 1 .. Len(queue')
        <5>1. CASE i = Len(queue) + 1 /\ queue'[i] = b
          BY <2>1, <3>2, <5>1 DEF Unsent, AnswerTo
        <5>2. CASE i \in 1 .. Len(queue) /\ queue'[i] = queue[i]
          BY <5>2 DEF Alone, Token, Unsent
        <5> QED
          BY <2>3, <5>1, <5>2
      <4>8. NoneSubmitted'
        BY <4>4 DEF NoneSubmitted
      <4> QED
        BY <4>2, <4>3, <4>4, <4>5, <4>6, <4>7, <4>8 DEF Token
    <3> QED
      BY <3>1, <3>2
  <2>7. ASSUME NEW src \in {"address", "configure"}, Ahead(src) PROVE Ahead(src)'
    <3>1. CASE \E i \in 1 .. Len(queue) : queue[i].src = src /\ \A j \in 1 .. Len(queue) : Unsent(j) => i < j
      <4>1. PICK i \in 1 .. Len(queue) : queue[i].src = src /\ \A j \in 1 .. Len(queue) : Unsent(j) => i < j
        BY <3>1
      <4>2. i \in 1 .. Len(queue') /\ queue'[i].src = src
        BY <2>2, <2>4, <4>1
      <4>3. \A j \in 1 .. Len(queue') : Unsent(j)' => i < j
        BY <2>4, <2>5, <4>1
      <4> QED
        BY <4>2, <4>3 DEF Ahead
    <3>2. CASE /\ \E i \in 1 .. Len(evq) : evq[i].src = src /\ \A j \in 1 .. Len(evq) : HostEv(j) => i < j
               /\ NoneUnsent
      <4>1. PICK i \in 1 .. Len(evq) : evq[i].src = src /\ \A j \in 1 .. Len(evq) : HostEv(j) => i < j
        BY <3>2
      <4>2. ~HostEv(1)
        <5>1. ~(i < 1)
          BY <1>1
        <5> QED
          BY <1>4, <4>1, <5>1
      <4>3. \A j \in 1 .. Len(queue') : ~Unsent(j)'
        BY <2>5, <3>2, <4>2 DEF NoneUnsent
      <4>4. CASE i = 1
        <5>1. queue'[Len(queue) + 1].src = src
          BY <2>1, <2>2, <4>1, <4>4 DEF AnswerTo
        <5>2. \E k \in 1 .. Len(queue') : queue'[k].src = src
          BY <2>4, <5>1
        <5> QED
          BY <4>3, <5>2 DEF Ahead
      <4>5. CASE i # 1
        <5>1. i - 1 \in 1 .. Len(evq') /\ (i - 1) + 1 = i
          BY <1>1, <4>5
        <5>2. evq'[i - 1].src = src
          BY <1>2, <4>1, <5>1
        <5>3. ASSUME NEW j \in 1 .. Len(evq'), HostEv(j)' PROVE i - 1 < j
          <6>1. HostEv(j + 1) /\ j + 1 \in 1 .. Len(evq)
            BY <1>2, <5>3 DEF HostEv
          <6>2. i < j + 1
            BY <4>1, <6>1
          <6> QED
            BY <6>2
        <5>4. NoneUnsent'
          BY <4>3 DEF NoneUnsent
        <5> QED
          BY <5>1, <5>2, <5>3, <5>4 DEF Ahead
      <4> QED
        BY <4>4, <4>5
    <3> QED
      BY <2>7, <3>1, <3>2 DEF Ahead
  <2> QED
    BY <1>3, <2>6, <2>7
<1> QED
  BY <1>5, <1>6

LEMMA StackR ==
  ASSUME Types, Types', Alone, StackAnswers \/ StackNotes \/ OtherEnqueue
  PROVE  Alone'
<1>1. /\ UNCHANGED <<reqs, bus, host, outFlag, outFrom, taken, wakeup, halted, addressed, configured, hand>>
      /\ ~Reading /\ ~Reading' /\ ~halted
  BY DEF StackAnswers, StackNotes, OtherEnqueue, pktVars, stVars, epVars, thrVars, hostVars, histVars,
         Reading, StackMayRun, Alone, Order
<1>2. UNCHANGED msgq \/ \E type \in {"xfer", "other"} : SendMsg(type)
  BY <1>1 DEF StackAnswers, StackNotes, OtherEnqueue, Enqueue, thrVars
<1>3. Single' /\ (UnderWay' => UnderWay)
  BY <1>1, <1>2, SendSingle, SameMessage DEF Alone, Order
<1>4. Copied'
  BY <1>1 DEF Alone, Order, Copied
<1>5. Order'
  BY <1>1, <1>3, <1>4, OrderStep DEF Alone, Order
<1>6. CASE OtherEnqueue
  <2>1. UNCHANGED queue /\ Aside
    BY <1>6 DEF OtherEnqueue, epVars, stackVars, Aside
  <2>2. Order' /\ Token' /\ Data' /\ Answers' /\ \A src \in Sources : Ahead(src) => Ahead(src)'
    BY <1>1, <1>3, <1>4, <2>1, AsideR
  <2>3. Enumerate'
    BY <1>1, <2>2 DEF Alone, Enumerate, Addressing, Configuring, Sources
  <2> QED
    BY <2>2, <2>3 DEF Alone
<1>7. CASE StackAnswers \/ StackNotes
  <2>1. evq # <<>> /\ evq' = Tail(evq)
    BY <1>7 DEF StackAnswers, StackNotes
  <2>2. \/ UNCHANGED queue /\ Head(evq).src \in {"status", "reset"}
        \/ \E b \in Buf : queue' = Append(queue, b) /\ AnswerTo(b, Head(evq))
    <3>1. CASE StackNotes
      BY <3>1 DEF StackNotes, epVars
    <3>2. CASE StackAnswers
      <4> DEFINE e == Head(evq)
      <4>1. PICK left \in Nat : /\ left # 0 <=> e.src = "host" /\ StageOf(e.lo, e.hi) = "in"
                                /\ Buffer(e, left) \in Buf /\ Enqueue(Buffer(e, left))
        BY <3>2, AnswerBuf
      <4> HIDE DEF e
      <4>2. AnswerTo(Buffer(e, left), e)
        BY <4>1 DEF AnswerTo, Buffer
      <4>3. queue' = Append(queue, Buffer(e, left))
        BY <4>1 DEF Enqueue
      <4> QED
        BY <4>1, <4>2, <4>3 DEF e
    <3> QED
      BY <1>7, <3>1, <3>2
  <2>3. /\ Token' /\ (Waits' => Waits)
        /\ \A i \in 1 .. Len(evq') : evq'[i].from \subseteq {evq'[i].hi}
        /\ \A src \in {"address", "configure"} : Ahead(src) => Ahead(src)'
    BY <1>1, <1>3, <2>1, <2>2, PopR
  <2>4. Data'
    BY <1>1, <1>3, <2>3, PacketsStep DEF Alone
  <2>5. Enumerate'
    BY <1>1, <2>3 DEF Alone, Enumerate, Addressing, Configuring
  <2>6. Answers'
    BY <1>1 DEF Alone, Answers
  <2> QED
    BY <1>5, <2>3, <2>4, <2>5, <2>6 DEF Alone
<1> QED
  BY <1>6, <1>7

LEMMA StepReg == Types /\ EnumInv /\ RegInv /\ [Next]_vars => RegInv'
<1> SUFFICES ASSUME Types, EnumInv, RegInv, [Next]_vars, Regular' PROVE Alone'
  BY DEF RegInv
<1>1. Types' /\ gaps \subseteq gaps'
  BY StepTypes, GapsGrow
<1>2. Alone /\ Unbroken
  BY <1>1 DEF RegInv, Regular, Unbroken
<1>3. CASE UNCHANGED vars
  <2>1. Aside /\ UNCHANGED <<reqs, bus, host, queue, outFlag, outFrom, taken, hand, msgq, halted, wakeup, addressed, configured>>
    BY <1>3 DEF vars, pktVars, stVars, epVars, thrVars, stackVars, hostVars, histVars, Aside
  <2>2. /\ UnderWay' = UnderWay /\ Single' = Single /\ Reading' = Reading /\ (Addressing' <=> Addressing)
        /\ (Configuring' <=> Configuring) /\ (Copied' <=> Copied)
    BY <2>1 DEF UnderWay, Carried, Queued, Single, Reading, Addressing, Configuring, Copied
  <2>3. ~halted /\ Single /\ Copied
    BY <1>2 DEF Alone, Order
  <2>4. Order' /\ Token' /\ Data' /\ Answers' /\ \A src \in Sources : Ahead(src) => Ahead(src)'
    BY <1>2, <2>1, <2>2, <2>3, AsideR
  <2>5. Enumerate'
    BY <1>2, <2>1, <2>2, <2>4 DEF Alone, Enumerate, Sources
  <2> QED
    BY <2>4, <2>5 DEF Alone
<1>4. CASE HostSteps
  <2>1. ~HostReset
    BY DEF HostReset, Regular
  <2>2. ~HostStalled
    BY <1>2 DEF HostStalled, Alone, Order
  <2> QED
    BY <1>1, <1>2, <1>4, <2>1, <2>2, HostSetupR, HostDataR, HostPollR, HostSleepR DEF HostSteps
<1>5. CASE Driver
  BY <1>1, <1>2, <1>5, QuietR, EnumerateR, CopyR, CheckR, ReadR, XferR DEF Driver
<1>6. CASE Stack \/ OtherEnqueue
  <2>1. ~StackRefuses
    BY DEF StackRefuses, Regular
  <2> QED
    BY <1>1, <1>2, <1>6, <2>1, StackR DEF Stack
<1> QED
  BY <1>3, <1>4, <1>5, <1>6 DEF Next

LEMMA InitReg == Init => RegInv
<1> SUFFICES ASSUME Init PROVE Alone
  BY DEF RegInv
<1>1. Len(reqs) = 0 /\ Len(msgq) = 0 /\ Len(evq) = 0 /\ Len(queue) = 0
  BY DEF Init
<1>2. ~UnderWay /\ ~Waits /\ ~Reading /\ ~Addressing /\ ~Configuring
  BY <1>1 DEF Init, UnderWay, Carried, Queued, Waits, NoneSubmitted, NoneUnsent, Reading, Addressing, Configuring, Idle, NoMsg
<1>3. Order
  BY <1>1, <1>2 DEF Init, Order, Single, Copied, UnderWay, NoHost, Idle
<1>4. Token
  BY <1>1, <1>2 DEF Token, Waits
<1>5. Data
  BY <1>1, <1>2 DEF Init, Data, NoHost
<1>6. Enumerate /\ Answers
  BY <1>2 DEF Init, Enumerate, Answers, NoHost
<1> QED
  BY <1>3, <1>4, <1>5, <1>6 DEF Alone

LEMMA Regularly == Spec => [](Types /\ EnumInv /\ RegInv)
<1>1. Init => EnumInv
  BY DEF Init, EnumInv, Addressed, Configured, AddressKnown, ConfigKnown, Idle
<1>2. Types /\ EnumInv /\ [Next]_vars => EnumInv'
  BY StepEnum
<1> QED
  BY <1>1, <1>2, InitReg, StepReg, Typed, PTL DEF Spec

(* The host gets nothing of an older request as the answer to its open one *)
(* (_e967_proc_ep0_d2h), for every size of the message queue, with messages *)
(* lost or not, and every number of requests; unless it gives up on a      *)
(* request, sends one while others are under way, resets the bus, or is    *)
(* refused.  A poll that meets the status stage of a request the driver    *)
(* invented is excepted too, since that is what `early' names.             *)
THEOREM AnswersAreOwn == Spec => []AnswerIsOwn
<1>1. RegInv => AnswerIsOwn
  BY DEF RegInv, Regular, Alone, Answers, AnswerIsOwn
<1> QED
  BY <1>1, Regularly, PTL

(* When the driver thread completes the status stage of the address or the *)
(* configuration (_usbd_ctrl_in), the buffer it takes is not one of the    *)
(* host's; when it completes that of a suspend or a resume, it is not one  *)
(* the host has still to poll.  This is about a host that polls and sends  *)
(* its packets when the driver is ready for them, and neither gives up nor *)
(* resets nor is refused: after these the thread may take the host's.      *)
THEOREM HostStatusIsKept == Spec => []NoStatusStolen
<1>1. RegInv => NoStatusStolen
  BY DEF RegInv, Regular, Alone, Answers, NoStatusStolen
<1> QED
  BY <1>1, Regularly, PTL

(* What is submitted with a control write (usbd_ctrl_feed_dout) holds no   *)
(* data of a later request, however many SETUP packets come while it is    *)
(* read, and only the request's own data unless the host was irregular:    *)
(* ep0_proc_ref and ep0_cur_ref differ as soon as one comes, and as long   *)
(* as one request is under way at a time the FIFO is empty when it starts. *)
THEOREM DataIsItsOwn == Spec => []DataIsOfRequest
<1>1. Init => DataInv
  BY DEF Init, DataInv, References, NotLater, NoHost, Idle
<1>2. Types /\ DataInv /\ [Next]_vars => DataInv'
  BY StepData
<1>3. Types /\ DataInv /\ RegInv => DataIsOfRequest
  <2> SUFFICES ASSUME Types, DataInv, RegInv, "reset" \notin gaps, NEW i \in DOMAIN evq
               PROVE  /\ evq[i].from \subseteq 0 .. evq[i].hi
                      /\ gaps \cap {"abort", "early", "stall", "hurried"} = {} => evq[i].from \subseteq {evq[i].hi}
    BY DEF DataIsOfRequest
  <2>1. i \in 1 .. Len(evq)
    BY Elements DEF Known
  <2>2. evq[i].from \subseteq 0 .. evq[i].hi
    BY <2>1 DEF DataInv, NotLater
  <2>3. gaps \cap {"abort", "early", "stall", "hurried"} = {} => Regular
    BY DEF Regular
  <2>4. Regular => evq[i].from \subseteq {evq[i].hi}
    BY <2>1 DEF RegInv, Alone, Data
  <2> QED
    BY <2>2, <2>3, <2>4
<1> QED
  BY <1>1, <1>2, <1>3, Typed, Regularly, PTL DEF Spec

-----------------------------------------------------------------------------
(* A suspend is reported.  Between the suspend and the report the driver's *)
(* own request is under way, or submitted, or its status stage lies on the *)
(* endpoint's queue and the message that makes the driver thread take it   *)
(* is on its way; the host asks for nothing meanwhile.                     *)

NoLoss == gaps \cap {"reset", "stall", "early", "hurried", "lost"} = {}

FeatureEv == \E i \in 1 .. Len(evq) : evq[i].src = "feature"
Answered  == queue # <<>> /\ (hand.msg.type = "xfer" \/ \E i \in 1 .. Len(msgq) : msgq[i].type = "xfer")
Coming    == UnderWay \/ FeatureEv \/ Answered
Untold    == bus = "suspended" /\ ~suspended
Telling   == hand.pc \in {"suspend", "woken"}

Sleep ==
  /\ "abort" \in gaps => bus = "active" /\ wakeup = 0
  /\ bus = "active" => ~suspended /\ wakeup # 1
  /\ Telling => wakeup > 0
  /\ hand.pc = "suspend" => wakeup = 1
  /\ Untold => wakeup = 1 /\ (hand.pc = "suspend" \/ (Coming /\ hand.pc # "woken"))

SuspInv == NoLoss => Sleep

(* What holds while the stack has still to be told.                        *)
LEMMA UntoldFacts ==
  ASSUME Types, RegInv, Sleep, NoLoss, Untold
  PROVE  /\ Alone /\ ~host.open /\ wakeup = 1 /\ ~Waits /\ ~Reading /\ ~Addressing /\ ~Configuring
         /\ (UnderWay => Len(reqs) > 0 /\ reqs[Len(reqs)] = "feature" /\ Source(pkg) = "feature")
<1>1. Alone
  BY DEF RegInv, Regular, NoLoss, Sleep, Untold
<1>2. ~host.open /\ wakeup = 1
  BY <1>1 DEF Alone, Order, Sleep, Untold
<1>3. ~Waits /\ ~Addressing /\ ~Configuring
  BY <1>1, <1>2 DEF Alone, Token, Enumerate
<1>4. UnderWay => Len(reqs) > 0 /\ reqs[Len(reqs)] = "feature"
  BY <1>1, <1>2 DEF Alone, Order
<1>5. UnderWay => Source(pkg) = "feature"
  BY <1>4, LastKind DEF Source
<1>6. ~Reading
  BY <1>1, <1>4 DEF Reading, Alone, Order, Copied, UnderWay, Carried, Types, HandOK, Working
<1> QED
  BY <1>1, <1>2, <1>3, <1>4, <1>5, <1>6

(* A step that has nothing to do with the suspend.                         *)
LEMMA SleepStep ==
  ASSUME Sleep, UNCHANGED <<wakeup, suspended, bus>>, gaps' \cap {"abort"} = gaps \cap {"abort"},
         ~Telling, ~Telling', Untold => (Coming => Coming')
  PROVE  Sleep'
BY DEF Sleep, Telling, Untold

LEMMA HostS ==
  ASSUME Types, Types', RegInv, Sleep, NoLoss, NoLoss', [Next]_vars, HostSteps
  PROVE  Sleep'
<1>1. CASE \E k \in Asks : HostSetup(k)
  <2>1. PICK k \in Asks : HostSetup(k)
    BY <1>1
  <2>2. /\ bus = "active" /\ UNCHANGED <<bus, wakeup, suspended, hand>>
        /\ gaps' = gaps \cup (IF host.open THEN {"abort"} ELSE {})
                        \cup (IF QueueFull THEN {"lost"} ELSE {})
                        \cup (IF Pending THEN {"hurried"} ELSE {})
    BY <2>1 DEF HostSetup, stVars
  <2>3. ~Pending
    BY <2>2 DEF NoLoss
  <2>4. wakeup = 0
    BY <2>3, NotPending
  <2> QED
    BY <2>2, <2>4 DEF Sleep, Telling, Untold
<1>2. CASE HostData \/ HostPoll \/ HostStalled
  <2>1. /\ host.open /\ UNCHANGED <<bus, wakeup, suspended, hand>>
        /\ gaps' = gaps \/ gaps' = gaps \cup {"early"}
    BY <1>2 DEF HostData, HostPoll, HostStalled, stVars, thrVars, histVars
  <2>2. ~Untold
    BY <2>1, UntoldFacts
  <2> QED
    BY <2>1, <2>2 DEF Sleep, Telling, Untold
<1>3. CASE HostReset
  BY <1>3 DEF HostReset, NoLoss
<1>4. CASE HostSuspend \/ HostResume
  <2>1. UNCHANGED <<hand, evq, queue, configured>> /\ (Feature(1) \/ Feature(2))
    BY <1>4 DEF HostSuspend, HostResume, stackVars
  <2>2. configured = 3 => ~Pending /\ ~QueueFull /\ gaps' = gaps
    <3>1. "hurried" \notin gaps' /\ "lost" \notin gaps'
      BY DEF NoLoss
    <3> QED
      BY <2>1, <3>1 DEF Feature
  <2>3. configured = 3 => wakeup = 0
    BY <2>2, NotPending
  <2>4. configured = 3 => ~Telling
    BY <2>3 DEF Sleep
  <2>5. CASE HostSuspend
    <3>1. "abort" \notin gaps /\ bus = "active" /\ bus' = "suspended" /\ Feature(1)
          /\ suspended' = IF configured = 3 THEN suspended ELSE TRUE
      BY <2>5 DEF HostSuspend, May, Causes
    <3>2. CASE configured = 3
      <4>1. wakeup' = 1 /\ PutSetup(cur + 1) /\ cur + 1 \in Nat
        BY <3>1, <3>2 DEF Feature, Types
      <4>2. Len(msgq') = Len(msgq) + 1 /\ msgq'[Len(msgq) + 1] = SetupMsg(cur + 1) /\ Len(msgq) \in Nat
        BY <2>2, <3>2, <4>1, PutEffect, Elements DEF Known
      <4>3. Len(msgq') \in 1 .. Len(msgq') /\ msgq'[Len(msgq')].type = "setup"
        BY <4>1, <4>2, SetupMsgOK
      <4>4. Coming'
        BY <4>3 DEF Coming, UnderWay, Queued
      <4> QED
        BY <2>1, <2>2, <2>4, <3>1, <3>2, <4>1, <4>4 DEF Sleep, Telling, Untold
    <3>3. CASE configured # 3
      <4>1. suspended' = TRUE /\ UNCHANGED <<wakeup, gaps>>
        BY <3>1, <3>3 DEF Feature
      <4> QED
        BY <2>1, <3>1, <4>1 DEF Sleep, Telling, Untold
    <3> QED
      BY <3>2, <3>3
  <2>6. CASE HostResume
    <3>1. bus = "suspended" /\ bus' = "active" /\ suspended' = FALSE /\ Feature(2)
      BY <2>6 DEF HostResume
    <3>2. CASE configured = 3
      <4>1. wakeup' = 2
        BY <3>1, <3>2 DEF Feature
      <4> QED
        BY <2>1, <2>2, <2>4, <3>1, <3>2, <4>1 DEF Sleep, Telling, Untold
    <3>3. CASE configured # 3
      <4>1. UNCHANGED <<wakeup, gaps>>
        BY <3>1, <3>3 DEF Feature
      <4>2. Alone
        BY <3>1 DEF RegInv, Regular, NoLoss, Sleep
      <4>3. wakeup = 0
        BY <3>3, <4>2 DEF Alone, Order, Types
      <4> QED
        BY <2>1, <3>1, <4>1, <4>3 DEF Sleep, Telling, Untold
    <3> QED
      BY <3>2, <3>3
  <2> QED
    BY <1>4, <2>5, <2>6
<1> QED
  BY <1>1, <1>2, <1>3, <1>4 DEF HostSteps

(* Nothing that is coming is lost on the way.                              *)
LEMMA SubmitFeature ==
  ASSUME Types, NEW e \in Event, Submit(e)
  PROVE  (FeatureEv => FeatureEv') /\ (e.src = "feature" => FeatureEv')
<1>1. Len(evq) \in Nat
  BY Elements DEF Known
<1>2. Len(evq') = Len(evq) + 1 /\ evq'[Len(evq) + 1] = e /\ \A i \in 1 .. Len(evq) : evq'[i] = evq[i]
  BY Submitted
<1>3. Len(evq) + 1 \in 1 .. Len(evq') /\ \A i \in 1 .. Len(evq) : i \in 1 .. Len(evq')
  BY <1>1, <1>2
<1> QED
  BY <1>2, <1>3 DEF FeatureEv

LEMMA SentXfer ==
  ASSUME Types, NEW type \in {"xfer", "other"}, SendMsg(type), "lost" \notin gaps', UNCHANGED hand
  PROVE  /\ UnderWay => UnderWay'
         /\ (\E i \in 1 .. Len(msgq) : msgq[i].type = "xfer") => \E i \in 1 .. Len(msgq') : msgq'[i].type = "xfer"
         /\ type = "xfer" => \E i \in 1 .. Len(msgq') : msgq'[i].type = "xfer"
<1>1. Len(msgq) \in Nat
  BY Elements DEF Known
<1>2. /\ Len(msgq') = Len(msgq) + 1 /\ msgq'[Len(msgq) + 1] = [type |-> type, ref |-> 0]
      /\ \A i \in 1 .. Len(msgq) : msgq'[i] = msgq[i]
  BY SendEffect
<1>3. Len(msgq) + 1 \in 1 .. Len(msgq') /\ \A i \in 1 .. Len(msgq) : i \in 1 .. Len(msgq')
  BY <1>1, <1>2
<1>4. msgq'[Len(msgq) + 1].type = type
  BY <1>2
<1> QED
  BY <1>2, <1>3, <1>4 DEF UnderWay, Carried, Queued

LEMMA GotComing == ASSUME Types, GetMsg PROVE Coming => Coming'
<1>1. /\ Len(msgq) \in Nat \ {0} /\ Len(msgq') = Len(msgq) - 1
      /\ \A i \in 1 .. Len(msgq) - 1 : msgq'[i] = msgq[i + 1]
      /\ hand = Idle /\ hand'.pc = "held" /\ hand'.msg = msgq[1]
  BY GotEffect
<1>2. ASSUME NEW i \in 1 .. Len(msgq)
      PROVE  hand'.msg = msgq[i] \/ \E j \in 1 .. Len(msgq') : msgq'[j] = msgq[i]
  <2>1. CASE i = 1
    BY <1>1, <2>1
  <2>2. CASE i # 1
    <3>1. i - 1 \in 1 .. Len(msgq') /\ i - 1 \in 1 .. Len(msgq) - 1 /\ (i - 1) + 1 = i
      BY <1>1, <2>2
    <3> QED
      BY <1>1, <3>1
  <2> QED
    BY <2>1, <2>2
<1>3. UnderWay => UnderWay'
  BY <1>1, <1>2 DEF UnderWay, Carried, Queued, Idle, NoMsg
<1>4. Answered => Answered'
  BY <1>1, <1>2 DEF Answered, Idle, NoMsg, GetMsg, epVars
<1>5. FeatureEv => FeatureEv'
  BY DEF FeatureEv, GetMsg, stackVars
<1> QED
  BY <1>3, <1>4, <1>5 DEF Coming

LEMMA ThreadS ==
  ASSUME Types, Types', RegInv, Sleep, NoLoss, NoLoss', [Next]_vars, Driver
  PROVE  Sleep'
<1>1. gaps' \cap {"abort"} = gaps \cap {"abort"}
  BY DEF Driver, GetMsg, OtherMsg, AddressEvent, AddressDone, ConfigEvent, ConfigDone, TakeSetup, CopyHigh,
         CheckData, ReadData, XferAddress, XferConfigured, XferWakeup, XferPlain, TellSuspended, WakeupDone,
         CompleteStatus, histVars
<1>2. UNCHANGED bus
  BY DEF Driver, GetMsg, OtherMsg, AddressEvent, AddressDone, ConfigEvent, ConfigDone, TakeSetup, CopyHigh,
         CheckData, ReadData, XferAddress, XferConfigured, XferWakeup, XferPlain, TellSuspended, WakeupDone,
         hostVars
<1>3. hand \in Thread
  BY DEF Types, HandOK
<1>4. CASE GetMsg
  <2>1. UNCHANGED <<wakeup, suspended>> /\ ~Telling
    BY <1>4 DEF GetMsg, stVars, Telling
  <2>2. ~Telling'
    BY <1>4, GotEffect DEF Telling
  <2> QED
    BY <1>1, <1>2, <1>4, <2>1, <2>2, GotComing, SleepStep
<1>5. CASE OtherMsg \/ AddressEvent \/ AddressDone \/ ConfigEvent \/ ConfigDone \/ TakeSetup \/ XferPlain
  <2>1. UNCHANGED <<wakeup, suspended, msgq, queue>> /\ ~Telling
    BY <1>5 DEF OtherMsg, AddressEvent, AddressDone, ConfigEvent, ConfigDone, TakeSetup, XferPlain,
         stVars, epVars, thrVars, Telling
  <2>2. ((OtherMsg \/ XferPlain) /\ hand' = Idle) \/ (hand'.msg = hand.msg /\ hand'.pc \in Working)
    <3>1. CASE TakeSetup
      BY <3>1, TakeHand DEF Working
    <3>2. CASE OtherMsg \/ XferPlain
      BY <3>2 DEF OtherMsg, XferPlain, Goto
    <3>3. CASE AddressEvent \/ AddressDone \/ ConfigEvent \/ ConfigDone
      <4>1. PICK pc \in {"addressed", "conf", "configured", "take"} : Goto(pc)
        BY <3>3 DEF AddressEvent, AddressDone, ConfigEvent, ConfigDone
      <4>2. hand' = [hand EXCEPT !.pc = pc]
        BY <4>1 DEF Goto
      <4> QED
        BY <1>3, <4>1, <4>2 DEF Thread, Working
    <3> QED
      BY <1>5, <3>1, <3>2, <3>3
  <2>3. ~Telling'
    BY <2>2 DEF Telling, Idle, Working
  <2>4. FeatureEv => FeatureEv'
    <3>1. UNCHANGED evq \/ \E src \in Sources : Submit(Notice(src))
      BY <1>5 DEF OtherMsg, AddressEvent, AddressDone, ConfigEvent, ConfigDone, TakeSetup, XferPlain, stackVars, Sources
    <3>2. UNCHANGED evq => FeatureEv' = FeatureEv
      BY DEF FeatureEv
    <3> QED
      BY <3>1, <3>2, NoticeOK, SubmitFeature
  <2>5. UnderWay => UnderWay'
    <3>1. (OtherMsg \/ XferPlain) => ~Carried
      BY DEF OtherMsg, XferPlain, Carried
    <3> QED
      BY <2>1, <2>2, <3>1 DEF UnderWay, Carried, Queued
  <2>6. Untold => (Answered => Answered')
    <3>1. OtherMsg => hand.msg.type # "xfer"
      BY DEF OtherMsg
    <3>2. XferPlain /\ Untold => queue = <<>>
      <4> SUFFICES ASSUME XferPlain, Untold, queue # <<>> PROVE FALSE
        OBVIOUS
      <4>1. Alone /\ wakeup = 1 /\ ~Waits
        BY UntoldFacts
      <4>2. ~Head(queue).status
        <5>1. wakeup # 0
          BY <4>1
        <5>2. FALSE \in StatusFirst
          BY <5>1 DEF XferPlain
        <5>3. StatusFirst = {Head(queue).status}
          BY DEF StatusFirst
        <5> QED
          BY <5>2, <5>3, Zenon
      <4>3. queue \in Seq(Buf)
        BY DEF Types
      <4>4. Head(queue) = queue[1] /\ Len(queue) \in Nat \ {0}
        BY <4>3, TailFacts
      <4>5. 1 \in 1 .. Len(queue)
        BY <4>4
      <4>6. Unsent(1)
        BY <4>1, <4>2, <4>4, <4>5 DEF Alone, Token
      <4> QED
        BY <4>1, <4>5, <4>6 DEF Waits, NoneUnsent
    <3> QED
      BY <2>1, <2>2, <3>1, <3>2 DEF Answered
  <2> QED
    BY <1>1, <1>2, <2>1, <2>3, <2>4, <2>5, <2>6, SleepStep DEF Coming
<1>6. CASE CopyHigh
  <2>1. UNCHANGED <<wakeup, suspended, msgq, queue>> /\ ~Telling /\ hand.msg.type = "setup"
    BY <1>6, CopyHand DEF CopyHigh, stVars, epVars, Telling
  <2>2. ~Telling'
    BY <1>6, CopyHand DEF Telling, Idle
  <2>3. Untold => Coming'
    <3> SUFFICES ASSUME Untold PROVE Coming'
      OBVIOUS
    <3>1. UnderWay
      BY <2>1 DEF UnderWay, Carried
    <3>2. Source(pkg) = "feature"
      BY <3>1, UntoldFacts
    <3>3. CASE hand'.msg = hand.msg
      BY <2>1, <3>3 DEF Coming, UnderWay, Carried
    <3>4. CASE Submit(SetupEvent(Source(pkg), hand.lo, pkg, {}))
      <4>1. hand.lo \in Nat /\ pkg \in Nat /\ {} \in SUBSET Nat /\ "feature" \in Sources
        BY <1>6, CopyHand, LastKind DEF Sources
      <4> DEFINE e == SetupEvent(Source(pkg), hand.lo, pkg, {})
      <4>2. e \in Event /\ e.src = "feature"
        BY <3>2, <4>1, SetupEventOK
      <4> HIDE DEF e
      <4>3. Submit(e)
        BY <3>4 DEF e
      <4> QED
        BY <4>2, <4>3, SubmitFeature DEF Coming
    <3> QED
      BY <1>6, <3>3, <3>4, CopyHand
  <2> QED
    BY <1>1, <1>2, <2>1, <2>2, <2>3, SleepStep
<1>7. CASE CheckData \/ ReadData
  <2>1. UNCHANGED <<wakeup, suspended>> /\ ~Telling /\ Reading
    BY <1>7 DEF CheckData, ReadData, stVars, Telling, Reading
  <2>2. ~Telling'
    BY <1>7, CheckHand, ReadHand DEF Telling, Idle
  <2>3. ~Untold
    BY <2>1, UntoldFacts
  <2> QED
    BY <1>1, <1>2, <2>1, <2>2, <2>3, SleepStep
<1>8. CASE XferAddress \/ XferConfigured
  <2>1. UNCHANGED <<wakeup, suspended>> /\ ~Telling /\ (Addressing \/ Configuring) /\ hand' = Idle
    BY <1>8 DEF XferAddress, XferConfigured, stVars, Telling, Addressing, Configuring, Goto
  <2>2. ~Telling'
    BY <2>1 DEF Telling, Idle
  <2>3. ~Untold
    BY <2>1, UntoldFacts
  <2> QED
    BY <1>1, <1>2, <2>1, <2>2, <2>3, SleepStep
<1>9. CASE XferWakeup
  <2>1. UNCHANGED <<wakeup, suspended>> /\ wakeup > 0 /\ Goto(IF wakeup = 1 THEN "suspend" ELSE "woken")
    BY <1>9 DEF XferWakeup, stVars
  <2>2. hand'.pc = IF wakeup = 1 THEN "suspend" ELSE "woken"
    BY <1>3, <2>1 DEF Goto, Thread
  <2> QED
    BY <1>1, <1>2, <2>1, <2>2 DEF Sleep, Telling, Untold
<1>10. CASE TellSuspended
  <2>1. hand.pc = "suspend" /\ suspended' = TRUE /\ UNCHANGED wakeup /\ Goto("woken")
    BY <1>10 DEF TellSuspended
  <2>2. hand'.pc = "woken"
    BY <1>3, <2>1 DEF Goto, Thread
  <2>3. wakeup = 1 /\ bus # "active"
    BY <2>1 DEF Sleep
  <2> QED
    BY <1>1, <1>2, <2>1, <2>2, <2>3 DEF Sleep, Telling, Untold
<1>11. CASE WakeupDone
  <2>1. hand.pc = "woken" /\ wakeup' = 0 /\ UNCHANGED suspended /\ hand' = Idle
    BY <1>11 DEF WakeupDone, Goto
  <2> QED
    BY <1>1, <1>2, <2>1 DEF Sleep, Telling, Untold, Idle
<1> QED
  BY <1>4, <1>5, <1>6, <1>7, <1>8, <1>9, <1>10, <1>11 DEF Driver

LEMMA StackS ==
  ASSUME Types, Types', RegInv, Sleep, NoLoss, NoLoss', [Next]_vars, Stack \/ OtherEnqueue
  PROVE  Sleep'
<1>1. ~StackRefuses
  BY DEF StackRefuses, NoLoss
<1>2. /\ UNCHANGED <<wakeup, suspended, bus, hand, halted>> /\ ~Telling /\ ~Telling'
  BY <1>1 DEF Stack, StackAnswers, StackNotes, OtherEnqueue, stVars, thrVars, hostVars, epVars, StackMayRun, Telling
<1>3. gaps' \cap {"abort"} = gaps \cap {"abort"}
  BY <1>1 DEF Stack, StackAnswers, StackNotes, OtherEnqueue, Enqueue, SendMsg, histVars
<1>4. Untold => (Coming => Coming')
  <2> SUFFICES ASSUME Untold, Coming PROVE Coming'
    OBVIOUS
  <2>1. ~halted /\ "lost" \notin gaps'
    BY UntoldFacts DEF Alone, Order, NoLoss
  <2>2. UNCHANGED msgq \/ \E type \in {"xfer", "other"} : SendMsg(type)
    BY <1>1, <2>1 DEF Stack, StackAnswers, StackNotes, OtherEnqueue, Enqueue, thrVars
  <2>3. UnderWay => UnderWay'
    BY <1>2, <2>1, <2>2, SentXfer DEF UnderWay, Carried, Queued
  <2>4. (\E i \in 1 .. Len(msgq) : msgq[i].type = "xfer") => \E i \in 1 .. Len(msgq') : msgq'[i].type = "xfer"
    BY <1>2, <2>1, <2>2, SentXfer
  <2>5. queue # <<>> => queue' # <<>>
    BY <1>1 DEF Stack, StackAnswers, StackNotes, OtherEnqueue, Enqueue, epVars, Types
  <2>6. Answered => Answered'
    BY <1>2, <2>4, <2>5 DEF Answered
  <2>7. FeatureEv => FeatureEv' \/ Answered'
    <3> SUFFICES ASSUME FeatureEv PROVE FeatureEv' \/ Answered'
      OBVIOUS
    <3>1. PICK i \in 1 .. Len(evq) : evq[i].src = "feature"
      BY DEF FeatureEv
    <3>2. CASE OtherEnqueue
      BY <3>2 DEF OtherEnqueue, FeatureEv, stackVars
    <3>3. CASE StackAnswers \/ StackNotes
      <4>1. evq # <<>> /\ evq' = Tail(evq)
        BY <3>3 DEF StackAnswers, StackNotes
      <4>2. /\ Len(evq) \in Nat \ {0} /\ Len(evq') = Len(evq) - 1 /\ Head(evq) = evq[1]
            /\ \A j \in 1 .. Len(evq) - 1 : evq'[j] = evq[j + 1]
        BY <4>1, Popped
      <4>3. CASE i = 1
        <5>1. StackAnswers
          BY <3>1, <3>3, <4>2, <4>3 DEF StackNotes
        <5>2. PICK left \in Nat : Buffer(Head(evq), left) \in Buf /\ Enqueue(Buffer(Head(evq), left))
          BY <5>1, AnswerBuf
        <5>3. queue' = Append(queue, Buffer(Head(evq), left)) /\ SendMsg("xfer")
          BY <2>1, <5>2 DEF Enqueue
        <5>4. queue' # <<>>
          <6>1. queue' \in Seq(Buf) /\ Len(queue') = Len(queue) + 1 /\ Len(queue) \in Nat
            BY <5>2, <5>3, AppendFacts DEF Types
          <6> QED
            BY <6>1
        <5>5. \E k \in 1 .. Len(msgq') : msgq'[k].type = "xfer"
          BY <1>2, <2>1, <5>3, SentXfer
        <5> QED
          BY <5>4, <5>5 DEF Answered
      <4>4. CASE i # 1
        <5>1. i - 1 \in 1 .. Len(evq') /\ i - 1 \in 1 .. Len(evq) - 1 /\ (i - 1) + 1 = i
          BY <4>2, <4>4
        <5> QED
          BY <3>1, <4>2, <5>1 DEF FeatureEv
      <4> QED
        BY <4>3, <4>4
    <3> QED
      BY <1>1, <3>2, <3>3 DEF Stack
  <2> QED
    BY <2>3, <2>6, <2>7 DEF Coming
<1> QED
  BY <1>2, <1>3, <1>4, SleepStep

(* When nothing is under way the stack knows whether the bus is suspended, *)
(* although a configured device tells it only when the status stage of the *)
(* SET_FEATURE that the suspend interrupt invents has come back            *)
(* (e967_usb_suspend_isr, _usbd_ctrl_in), and tells it of the resume at    *)
(* once: unless the bus was reset, a request refused, the endpoint polled  *)
(* early, a packet overtaken, or a message lost.                           *)
THEOREM SuspendIsTold == Spec => []SuspendIsReported
<1>1. Init => SuspInv
  BY DEF Init, SuspInv, Sleep, Untold, Telling, Idle
<1>2. Types /\ EnumInv /\ RegInv /\ SuspInv /\ [Next]_vars => SuspInv'
  <2> SUFFICES ASSUME Types, EnumInv, RegInv, SuspInv, [Next]_vars, NoLoss' PROVE Sleep'
    BY DEF SuspInv
  <2>1. Types' /\ gaps \subseteq gaps'
    BY StepTypes, GapsGrow
  <2>2. NoLoss /\ Sleep
    BY <2>1 DEF NoLoss, SuspInv
  <2>3. CASE UNCHANGED vars
    <3>1. UNCHANGED <<hand, msgq, evq, queue, bus, suspended, wakeup, gaps>>
      BY <2>3 DEF vars, stVars, epVars, thrVars, stackVars, hostVars, histVars
    <3>2. Coming' = Coming
      BY <3>1 DEF Coming, UnderWay, Carried, Queued, FeatureEv, Answered
    <3> QED
      BY <2>2, <3>1, <3>2 DEF Sleep, Telling, Untold
  <2> QED
    BY <2>1, <2>2, <2>3, HostS, ThreadS, StackS DEF Next
<1>3. Types /\ SuspInv => SuspendIsReported
  <2> SUFFICES ASSUME Types, SuspInv, Quiet, NoLoss PROVE suspended <=> bus = "suspended"
    BY DEF SuspendIsReported, NoLoss
  <2>1. hand = Idle /\ Len(msgq) = 0 /\ Len(evq) = 0
    BY DEF Types, HandOK, Quiet
  <2>2. ~Coming
    BY <2>1 DEF Coming, UnderWay, Carried, Queued, FeatureEv, Answered, Idle, NoMsg
  <2> QED
    BY <2>1, <2>2 DEF SuspInv, Sleep, Untold, Types, Idle
<1> QED
  BY <1>1, <1>2, <1>3, Typed, Regularly, PTL DEF Spec
=============================================================================
