----------------------------- MODULE Board_proofs -----------------------------
(***************************************************************************)
(* Proofs about Board: what the battery-backed RAM keeps over a restart at *)
(* any step, what the calls of the watchdog have done when they return,    *)
(* and when it resets the board, for every number of threads, size and     *)
(* timeout.                                                                *)
(***************************************************************************)
EXTENDS Board, TLAPS

-----------------------------------------------------------------------------
(* The battery-backed RAM.                                                 *)

Size == Registers * RegBytes

(* Where a caller can be and what it holds there. *)
Placed(c) ==
  /\ bpc[c] \in IF c = Kernel THEN {"boot", "probe", "restore", "power", "status", "up", "dead"}
                ELSE {"idle", "probe", "restore", "power", "byte", "merge"}
  /\ bpc[c] = "idle" \/ c = Kernel => req[c] = NoWrite
  /\ req[c].at + Len(req[c].data) <= Size
  /\ done[c] <= Len(req[c].data)
  /\ bpc[c] = "merge" => done[c] < Len(req[c].data)
  /\ bpc[c] \notin {"byte", "merge"} => done[c] = 0
  /\ bpc[c] = "restore" => old[c] \in [Last -> Values]
  /\ bpc[c] = "merge" => old[c] \in [BytesIn(RegOf(Target(c))) -> Values]

BbControl ==
  /\ old = [c \in Callers |-> old[c]]
  /\ \A c \in Callers : Placed(c)
  /\ bpc[Kernel] # "up" => \A c \in Users : bpc[c] = "idle"

Active(c) == bpc[c] \notin {"idle", "up", "dead"}
Alone(c)  == \A d \in Callers \ {c} : ~Active(d)

(* What a caller relies on: write access is open while it writes, its      *)
(* bytes may have their new values and have them if they are counted as    *)
(* done, and what it is about to put back is what is there, or what the    *)
(* test of write access replaced.                                          *)
Relies(c) ==
  /\ bpc[c] \in {"byte", "merge"} => open
  /\ \A b \in Covered(req[c]) :
       New(req[c], b) \in allowed[b] /\ (b < Target(c) => mem[b] = New(req[c], b))
  /\ bpc[c] = "merge" => \A b \in BytesIn(RegOf(Target(c))) : old[c][b] = mem[b]
  /\ bpc[c] = "restore" =>
       \A b \in Last : old[c][b] \in allowed[b] /\ mem[b] = IF Accepts THEN Pattern ELSE old[c][b]

(* As long as writes do not overlap, callers do not meet, and write access *)
(* is what the driver takes it for.                                        *)
BbData ==
  broken = {} =>
    /\ \A c \in Callers : Active(c) => Alone(c)
    /\ open => Accepts
    /\ \A c \in Callers : Relies(c)

BbInv == BbTypeOK /\ BbControl /\ BbData /\ BytesSurvive

LEMMA Sizes == Registers \in Nat \ {0} /\ RegBytes \in Nat \ {0} /\ Size \in Nat /\ Byte = 0 .. Size - 1
BY BbAssumption, SMT DEF Size, Byte

LEMMA InitBb == BbInit => BbInv
<1> SUFFICES ASSUME BbInit PROVE BbInv
  OBVIOUS
<1>1. Kernel \notin Users /\ Callers = Users \cup {Kernel}
  BY KernelAssumption DEF Callers
<1>2. BbTypeOK
  BY <1>1, BbAssumption DEF BbInit, BbTypeOK, NoStatus, NoWrite
<1>3. BbControl
  BY <1>1, Sizes DEF BbInit, BbControl, Placed, NoWrite
<1>4. BbData
  BY <1>1 DEF BbInit, BbData, Active, Alone, Relies, NoWrite, Covered
<1>5. BytesSurvive
  BY DEF BbInit, BytesSurvive
<1> QED
  BY <1>2, <1>3, <1>4, <1>5 DEF BbInv

LEMMA CallerSet == Kernel \notin Users /\ Callers = Users \cup {Kernel}
BY KernelAssumption DEF Callers

LEMMA Bytes == Last \subseteq Byte /\ \A n : BytesIn(n) \subseteq Byte
BY DEF Last, BytesIn

(* What a caller's write is made of. *)
LEMMA Requests ==
  ASSUME BbTypeOK, NEW c \in Callers
  PROVE  req[c].at \in Nat /\ req[c].data \in Seq(Values) /\ done[c] \in Nat
<1>1. req[c] \in Writes \cup {NoWrite} /\ done[c] \in Nat
  BY DEF BbTypeOK
<1>2. CASE req[c] = NoWrite
  BY <1>1, <1>2 DEF NoWrite
<1>3. CASE req[c] \in Writes
  BY <1>1, <1>3, BbAssumption
<1> QED
  BY <1>1, <1>2, <1>3

(* A write to a part of the memory changes nothing else. *)
LEMMA Stored ==
  ASSUME BbTypeOK, NEW S \in SUBSET Byte, NEW content \in [S -> Values], Store(content)
  PROVE  /\ mem' \in [Byte -> Values]
         /\ \A b \in Byte : mem'[b] = IF Accepts /\ b \in S THEN content[b] ELSE mem[b]
<1>1. mem \in [Byte -> Values] /\ DOMAIN content = S
  BY DEF BbTypeOK
<1> QED
  BY <1>1 DEF Store

(* The bytes of a write. *)
LEMMA WriteCoverage ==
  ASSUME NEW w, w.at \in Nat, w.data \in Seq(Values), w.at + Len(w.data) <= Size
  PROVE  /\ Covered(w) \subseteq Byte
         /\ \A b \in Covered(w) : New(w, b) \in Values
         /\ \A b : b \in Covered(w) <=> b \in Nat /\ w.at <= b /\ b < w.at + Len(w.data)
         /\ \A b \in Covered(w) : ~(b < w.at)
<1> DEFINE at == w.at
           data == w.data
<1>1. at \in Nat /\ data \in Seq(Values) /\ Len(data) \in Nat /\ at + Len(data) <= Size
  OBVIOUS
<1>2. \A b : b \in Covered(w) <=> b \in Nat /\ at <= b /\ b < at + Len(data)
  <2>1. ASSUME NEW b, b \in Nat, at <= b, b < at + Len(data) PROVE b \in Covered(w)
    <3>1. b - at + 1 \in 1 .. Len(data) /\ b = at + (b - at + 1) - 1
      BY <1>1, <2>1
    <3> QED
      BY <3>1 DEF Covered
  <2>2. ASSUME NEW b, b \in Covered(w) PROVE b \in Nat /\ at <= b /\ b < at + Len(data)
    <3>1. PICK i \in 1 .. Len(data) : b = at + i - 1
      BY <2>2 DEF Covered
    <3> QED
      BY <1>1, <3>1
  <2> QED
    BY <2>1, <2>2
<1>3. ASSUME NEW b \in Covered(w) PROVE b \in Byte /\ New(w, b) \in Values /\ ~(b < at)
  <2>1. b \in Nat /\ at <= b /\ b < at + Len(data)
    BY <1>2
  <2>2. b \in Byte /\ b - at + 1 \in 1 .. Len(data)
    BY <1>1, <2>1, Sizes
  <2> QED
    BY <1>1, <2>1, <2>2 DEF New
<1> QED
  BY <1>2, <1>3

LEMMA RestartBb == ASSUME BbInv, NEW battery \in BOOLEAN, BbRestart(battery) PROVE BbInv'
<1>1. Kernel \notin Users /\ Callers = Users \cup {Kernel}
  BY KernelAssumption DEF Callers
<1>2. BbTypeOK'
  <2>1. mem' \in [Byte -> Values] /\ allowed' \in [Byte -> SUBSET Values]
    <3>1. CASE battery
      <4>1. \A b \in Byte : allowed[b] \cup {Pattern} \in SUBSET Values
        BY BbAssumption DEF BbInv, BbTypeOK
      <4> QED
        BY <3>1, <4>1 DEF BbInv, BbRestart, BbTypeOK
    <3>2. CASE ~battery
      BY <3>2, BbAssumption DEF BbRestart
    <3> QED
      BY <3>1, <3>2
  <2>2. status' \in [magic : BOOLEAN, bits : SUBSET Flags] /\ lossFlag' \in BOOLEAN
    <3>1. CASE battery
      <4>1. status \in [magic : BOOLEAN, bits : SUBSET Flags] /\ lossFlag \in BOOLEAN
        BY DEF BbInv, BbTypeOK
      <4> QED
        BY <3>1, <4>1 DEF BbRestart
    <3>2. CASE ~battery
      <4>1. NoStatus \in [magic : BOOLEAN, bits : SUBSET Flags]
        BY SMT DEF NoStatus, Flags
      <4>2. status' = NoStatus /\ lossFlag' = TRUE
        BY <3>2 DEF BbRestart
      <4> QED
        BY <4>1, <4>2
    <3> QED
      BY <3>1, <3>2
  <2>3. flags' \in SUBSET Flags /\ broken' \in SUBSET {"overlap", "fooled"}
    BY DEF BbInv, BbRestart, BbTypeOK
  <2>4. guarded' \in BOOLEAN /\ dbp' \in BOOLEAN /\ open' \in BOOLEAN /\ domainReset' \in BOOLEAN
    BY DEF BbInv, BbRestart, BbTypeOK
  <2>5. bpc' \in [Callers -> {"boot", "idle"}]
    BY DEF BbRestart
  <2>6. req' \in [Callers -> Writes \cup {NoWrite}] /\ done' \in [Callers -> Nat]
    BY DEF BbRestart
  <2> QED
    BY <2>1, <2>2, <2>3, <2>4, <2>5, <2>6 DEF BbTypeOK
<1>3. BbControl'
  BY <1>1, Sizes DEF BbRestart, BbControl, Placed, NoWrite
<1>4. BbData'
  <2>1. \A c \in Callers : Covered(req'[c]) = {}
    BY <1>1 DEF BbRestart, NoWrite, Covered
  <2>2. \A c \in Callers : bpc'[c] = IF c = Kernel THEN "boot" ELSE "idle"
    BY <1>1 DEF BbRestart
  <2> QED
    BY <2>1, <2>2 DEF BbRestart, BbData, Active, Alone, Relies
<1>5. BytesSurvive'
  <2> SUFFICES ASSUME broken' = {}, NEW b \in Byte PROVE mem'[b] \in allowed'[b]
    BY DEF BytesSurvive, Byte
  <2>1. CASE battery
    <3>1. mem[b] \in allowed[b] \/ (b \in Last /\ Probing /\ mem[b] = Pattern)
      BY DEF BbInv, BbRestart, BytesSurvive
    <3>2. mem' = mem /\ allowed'[b] = IF b \in Last /\ Probing THEN allowed[b] \cup {Pattern} ELSE allowed[b]
      BY <2>1 DEF BbRestart
    <3> QED
      BY <3>1, <3>2
  <2>2. CASE ~battery
    BY <2>2 DEF BbRestart
  <2> QED
    BY <2>1, <2>2
<1> QED
  BY <1>2, <1>3, <1>4, <1>5 DEF BbInv
LEMMA Quiet == ASSUME BbInv, broken = {}, NEW c \in Callers, Active(c) PROVE Alone(c)
BY DEF BbInv, BbData

(* A step of one caller, with the others where they are, or idle where the *)
(* memory changes.                                                         *)
LEMMA Move ==
  ASSUME BbInv, NEW c \in Callers,
         c = Kernel => bpc[Kernel] # "up", c \in Users => bpc[Kernel] = "up",
         old' = [d \in Callers |-> old'[d]],
         \A d \in Callers \ {c} : bpc'[d] = bpc[d] /\ req'[d] = req[d] /\ done'[d] = done[d] /\ old'[d] = old[d],
         BbTypeOK', Placed(c)', BytesSurvive',
         broken' = {} => broken = {} /\ Alone(c) /\ (open' => Accepts') /\ Relies(c)'
  PROVE  BbInv'
<1> USE CallerSet
<1>1. BbControl /\ BbData
  BY DEF BbInv
<1>2. BbControl'
  <2>1. ASSUME NEW d \in Callers PROVE Placed(d)'
    <3>1. CASE d = c
      BY <3>1
    <3>2. CASE d # c
      <4>1. Placed(d)
        BY <1>1 DEF BbControl
      <4> QED
        BY <3>2, <4>1 DEF Placed, Last, Target
    <3> QED
      BY <3>1, <3>2
  <2>2. bpc'[Kernel] # "up" => \A d \in Users : bpc'[d] = "idle"
    BY <1>1 DEF BbControl
  <2> QED
    BY <2>1, <2>2 DEF BbControl
<1>3. BbData'
  <2> SUFFICES ASSUME broken' = {}
               PROVE  /\ \A d \in Callers : Active(d)' => Alone(d)'
                      /\ \A d \in Callers : Relies(d)'
    BY DEF BbData
  <2>1. Alone(c)
    OBVIOUS
  <2>2. \A d \in Callers \ {c} : ~Active(d)'
    BY <2>1 DEF Alone, Active
  <2>3. ASSUME NEW d \in Callers \ {c} PROVE Relies(d)'
    <3>1. Placed(d) /\ ~Active(d) /\ bpc'[d] \in {"idle", "up", "dead"} /\ req'[d] = req[d]
      BY <1>1, <2>1 DEF BbControl, Alone, Active
    <3>2. req[d] = NoWrite
      BY <3>1 DEF Placed, Active
    <3>3. Covered(req'[d]) = {}
      BY <3>1, <3>2 DEF NoWrite, Covered
    <3> QED
      BY <3>1, <3>3 DEF Relies
  <2> QED
    BY <2>2, <2>3 DEF Alone
<1> QED
  BY <1>2, <1>3 DEF BbInv

LEMMA ProbeBb == ASSUME BbInv, NEW c \in Callers, Probe(c) PROVE BbInv'
<1> USE CallerSet
<1>1. BbTypeOK /\ BbControl /\ BbData /\ BytesSurvive /\ Placed(c)
  BY DEF BbInv, BbControl
<1>2. /\ mem' \in [Byte -> Values]
      /\ \A b \in Byte : mem'[b] = IF Accepts /\ b \in Last THEN Pattern ELSE mem[b]
  <2>1. [b \in Last |-> Pattern] \in [Last -> Values] /\ Last \in SUBSET Byte
    BY BbAssumption, Bytes
  <2>2. Store([b \in Last |-> Pattern])
    BY DEF Probe
  <2> HIDE DEF Probe
  <2> QED
    BY <1>1, <2>1, <2>2, Stored
<1>3. BbTypeOK'
  BY <1>1, <1>2 DEF BbTypeOK, Probe, GotoB
<1>4. /\ bpc[c] = "probe" /\ bpc' = [bpc EXCEPT ![c] = "restore"]
      /\ old' = [old EXCEPT ![c] = [b \in Last |-> mem[b]]]
      /\ UNCHANGED <<guarded, dbp, open, req, done, allowed, broken>>
  BY DEF Probe, GotoB
<1>5. /\ bpc'[c] = "restore" /\ \A d \in Callers \ {c} : bpc'[d] = bpc[d]
      /\ old'[c] = [b \in Last |-> mem[b]] /\ \A d \in Callers \ {c} : old'[d] = old[d]
      /\ old' = [d \in Callers |-> old'[d]]
  BY <1>1, <1>4 DEF BbTypeOK, BbControl
<1>6. [b \in Last |-> mem[b]] \in [Last -> Values]
  BY <1>1, Bytes DEF BbTypeOK
<1>7. Placed(c)'
  BY <1>1, <1>4, <1>5, <1>6 DEF Placed, Last
<1>8. ASSUME broken' = {} PROVE broken = {} /\ Alone(c) /\ (open' => Accepts') /\ Relies(c)'
  <2>1. Active(c)
    BY <1>4 DEF Active
  <2>2. broken = {} /\ Alone(c) /\ (open => Accepts) /\ Relies(c)
    BY <1>1, <1>4, <1>8, <2>1, Quiet DEF BbData
  <2>3. ~Probing
    BY <1>4, <2>2 DEF Probing, Alone, Active
  <2>4. \A b \in Last : mem[b] \in allowed[b]
    BY <1>1, <2>2, <2>3, Bytes DEF BytesSurvive
  <2>5. \A b \in Covered(req[c]) : New(req[c], b) \in allowed[b] /\ ~(b < Target(c))
    <3>1. req[c].at \in Nat /\ req[c].data \in Seq(Values) /\ done[c] = 0
      BY <1>1, <1>4, Requests DEF Placed
    <3>2. ASSUME NEW b \in Covered(req[c]) PROVE ~(b < Target(c))
      BY <3>1 DEF Covered, Target
    <3> QED
      BY <2>2, <3>2 DEF Relies
  <2>6. \A b \in Last : mem'[b] = IF Accepts THEN Pattern ELSE mem[b]
    BY <1>2, Bytes
  <2> QED
    BY <1>4, <1>5, <2>2, <2>4, <2>5, <2>6 DEF Relies, Accepts, Target
<1>9. BytesSurvive'
  <2>1. Probing'
    BY <1>5 DEF Probing
  <2> QED
    BY <1>1, <1>2, <1>4, <2>1 DEF BytesSurvive, Probing, Byte
<1>10. (c = Kernel => bpc[Kernel] # "up") /\ (c \in Users => bpc[Kernel] = "up")
  BY <1>1, <1>4 DEF BbControl
<1> QED
  BY <1>3, <1>4, <1>5, <1>7, <1>8, <1>9, <1>10, Move

LEMMA RestoreBb == ASSUME BbInv, NEW c \in Callers, ProbeRestore(c) PROVE BbInv'
<1> USE CallerSet
<1>1. BbTypeOK /\ BbControl /\ BbData /\ BytesSurvive /\ Placed(c)
  BY DEF BbInv, BbControl
<1>2. /\ mem' \in [Byte -> Values]
      /\ \A b \in Byte : mem'[b] = IF Accepts /\ b \in Last THEN old[c][b] ELSE mem[b]
  <2>1. old[c] \in [Last -> Values] /\ Last \in SUBSET Byte
    BY <1>1, Bytes DEF Placed, ProbeRestore
  <2>2. Store(old[c])
    BY DEF ProbeRestore
  <2> QED
    BY <1>1, <2>1, <2>2, Stored
<1>3. BbTypeOK'
  BY <1>1, <1>2 DEF BbTypeOK, ProbeRestore, GotoB, AfterOpen
<1>4. /\ bpc[c] = "restore" /\ bpc'[c] \in {AfterOpen(c), "power"} /\ (bpc'[c] = "byte" => open')
      /\ old' = [old EXCEPT ![c] = <<>>]
      /\ broken' = {} => broken = {} /\ (open' => open \/ Accepts)
      /\ UNCHANGED <<guarded, dbp, req, done, allowed>>
  BY <1>1 DEF ProbeRestore, GotoB, BbTypeOK, AfterOpen
<1>5. /\ \A d \in Callers \ {c} : bpc'[d] = bpc[d] /\ old'[d] = old[d]
      /\ old' = [d \in Callers |-> old'[d]]
  BY <1>1, <1>4 DEF BbTypeOK, BbControl, ProbeRestore, GotoB
<1>6. Placed(c)'
  BY <1>1, <1>4 DEF Placed, AfterOpen
<1>7. ASSUME broken = {} PROVE Alone(c) /\ (open => Accepts) /\ Relies(c)
  <2>1. Active(c)
    BY <1>4 DEF Active
  <2> QED
    BY <1>1, <1>7, <2>1, Quiet DEF BbData
<1>8. ASSUME broken = {} PROVE \A b \in Last : mem'[b] = old[c][b] /\ mem'[b] \in allowed[b]
  BY <1>2, <1>4, <1>7, <1>8, Bytes DEF Relies
<1>9. ASSUME broken' = {} PROVE broken = {} /\ Alone(c) /\ (open' => Accepts') /\ Relies(c)'
  <2>1. \A b \in Covered(req[c]) : New(req[c], b) \in allowed[b] /\ ~(b < Target(c))
    <3>1. req[c].at \in Nat /\ req[c].data \in Seq(Values) /\ done[c] = 0
      BY <1>1, <1>4, Requests DEF Placed
    <3>2. ASSUME NEW b \in Covered(req[c]) PROVE ~(b < Target(c))
      BY <3>1 DEF Covered, Target
    <3> QED
      BY <1>4, <1>7, <1>9, <3>2 DEF Relies
  <2> QED
    BY <1>4, <1>7, <1>9, <2>1 DEF Relies, Accepts, Target, AfterOpen
<1>10. BytesSurvive'
  <2> SUFFICES ASSUME broken' = {}, NEW b \in Byte PROVE mem'[b] \in allowed'[b]
    BY DEF BytesSurvive, Byte
  <2>1. CASE b \in Last
    BY <1>4, <1>8, <2>1
  <2>2. CASE b \notin Last
    BY <1>1, <1>2, <1>4, <2>2 DEF BytesSurvive
  <2> QED
    BY <2>1, <2>2
<1>11. (c = Kernel => bpc[Kernel] # "up") /\ (c \in Users => bpc[Kernel] = "up")
  BY <1>1, <1>4 DEF BbControl
<1> QED
  BY <1>3, <1>4, <1>5, <1>6, <1>9, <1>10, <1>11, Move

(* Steps that leave the memory and the writes alone and make no caller     *)
(* hold a register.                                                        *)
LEMMA Still ==
  ASSUME BbInv, NEW c \in Callers, Active(c), bpc[c] # "restore",
         UNCHANGED <<mem, guarded, old, allowed, broken, done>>,
         \A d \in Callers \ {c} : bpc'[d] = bpc[d] /\ req'[d] = req[d],
         BbTypeOK', Placed(c)', bpc'[c] \notin {"restore", "merge"},
         done[c] = 0, req'[c] \in {req[c], NoWrite}, bpc'[c] = "byte" => open',
         broken = {} /\ open' => Accepts'
  PROVE  BbInv'
<1> USE CallerSet
<1>1. BbTypeOK /\ BbControl /\ BbData /\ BytesSurvive
  BY DEF BbInv
<1>2. BytesSurvive'
  <2> SUFFICES ASSUME broken' = {}, NEW b \in Byte PROVE mem'[b] \in allowed'[b] \/ (b \in Last /\ Probing' /\ mem'[b] = Pattern)
    BY DEF BytesSurvive, Byte, Last, BytesIn
  <2>1. Probing => Probing'
    BY DEF Probing
  <2> QED
    BY <1>1, <2>1 DEF BytesSurvive
<1>3. ASSUME broken' = {} PROVE broken = {} /\ Alone(c) /\ (open' => Accepts') /\ Relies(c)'
  <2>1. broken = {} /\ Alone(c) /\ Relies(c)
    BY <1>1, <1>3, Quiet DEF BbData
  <2>2. Covered(NoWrite) = {}
    BY DEF Covered, NoWrite
  <2>3. \A b \in Covered(req[c]) : New(req[c], b) \in allowed[b] /\ ~(b < req[c].at + 0)
    <3>1. req[c].at \in Nat /\ req[c].data \in Seq(Values)
      BY <1>1, Requests
    <3>2. ASSUME NEW b \in Covered(req[c]) PROVE ~(b < req[c].at + 0)
      BY <3>1 DEF Covered
    <3> QED
      BY <2>1, <3>2 DEF Relies
  <2> QED
    BY <2>1, <2>2, <2>3 DEF Relies, Target
<1>4. (c = Kernel => bpc[Kernel] # "up") /\ (c \in Users => bpc[Kernel] = "up")
  BY <1>1 DEF BbControl, Active
<1>5. old' = [d \in Callers |-> old'[d]]
  BY <1>1 DEF BbControl
<1> QED
  BY <1>2, <1>3, <1>4, <1>5, Move

(* The call that fails makes its caller give its write up. *)
LEMMA PowerBb == ASSUME BbInv, NEW c \in Callers, PowerOpen(c) PROVE BbInv'
<1> USE CallerSet
<1>1. BbTypeOK /\ BbControl /\ Placed(c)
  BY DEF BbInv, BbControl
<1>2. BbTypeOK'
  BY <1>1 DEF BbTypeOK, PowerOpen, GotoB, AfterOpen
<1>3. /\ bpc[c] = "power" /\ UNCHANGED <<mem, guarded, done, old, allowed, broken>>
      /\ \/ dbp' = TRUE /\ open' = TRUE /\ bpc' = [bpc EXCEPT ![c] = AfterOpen(c)] /\ req' = req
         \/ /\ bpc' = [bpc EXCEPT ![c] = IF c = Kernel THEN "dead" ELSE "idle"]
            /\ req' = [req EXCEPT ![c] = NoWrite] /\ dbp' = dbp /\ open' = open
  BY DEF PowerOpen, GotoB
<1>4. /\ \A d \in Callers \ {c} : bpc'[d] = bpc[d] /\ req'[d] = req[d]
      /\ bpc'[c] \in {AfterOpen(c), IF c = Kernel THEN "dead" ELSE "idle"}
      /\ bpc'[c] = "byte" => open'
      /\ req'[c] \in {req[c], NoWrite} /\ (bpc'[c] = "idle" => req'[c] = NoWrite)
      /\ done[c] = 0
  BY <1>1, <1>3 DEF BbTypeOK, AfterOpen, Placed
<1>5. Placed(c)'
  <2>1. req'[c].at + Len(req'[c].data) <= Size /\ done'[c] <= Len(req'[c].data)
    <3>1. NoWrite.at = 0 /\ Len(NoWrite.data) = 0
      BY DEF NoWrite
    <3> QED
      BY <1>1, <1>3, <1>4, <3>1, Sizes, Requests DEF Placed
  <2> QED
    BY <1>1, <1>3, <1>4, <2>1 DEF Placed, AfterOpen
<1>6. broken = {} /\ open' => Accepts'
  BY <1>3 DEF BbInv, BbData, Accepts
<1> QED
  BY <1>2, <1>3, <1>4, <1>5, <1>6, Still DEF Active, AfterOpen

LEMMA BootBb == ASSUME BbInv, Boot PROVE BbInv'
<1> USE CallerSet
<1>1. BbTypeOK /\ BbControl /\ Placed(Kernel)
  BY DEF BbInv, BbControl
<1>2. BbTypeOK'
  BY <1>1 DEF BbTypeOK, Boot, GotoB
<1>3. /\ bpc[Kernel] = "boot" /\ bpc' = [bpc EXCEPT ![Kernel] = "probe"]
      /\ UNCHANGED <<mem, guarded, dbp, open, req, done, old, allowed, broken>>
  BY DEF Boot, GotoB
<1>4. bpc'[Kernel] = "probe" /\ \A d \in Callers \ {Kernel} : bpc'[d] = bpc[d]
  BY <1>1, <1>3 DEF BbTypeOK
<1>5. Placed(Kernel)' /\ done[Kernel] = 0
  BY <1>1, <1>3, <1>4 DEF Placed
<1>6. broken = {} /\ open' => Accepts'
  BY <1>3 DEF BbInv, BbData, Accepts
<1> QED
  BY <1>2, <1>3, <1>4, <1>5, <1>6, Still DEF Active

LEMMA StatusBb == ASSUME BbInv, InitStatus PROVE BbInv'
<1> USE CallerSet
<1>1. BbTypeOK /\ BbControl /\ Placed(Kernel)
  BY DEF BbInv, BbControl
<1>2. flags' \in SUBSET Flags /\ status' \in [magic : BOOLEAN, bits : SUBSET Flags]
  <2>1. flags' \in SUBSET Flags
    BY <1>1 DEF BbTypeOK, InitStatus, Flags
  <2>2. StatusWord(flags') \in [magic : BOOLEAN, bits : SUBSET Flags]
    BY <2>1 DEF StatusWord
  <2>3. status' = status \/ status' = StatusWord(flags')
    BY DEF InitStatus
  <2> QED
    BY <1>1, <2>1, <2>2, <2>3 DEF BbTypeOK
<1>3. /\ bpc[Kernel] = "status" /\ bpc' = [bpc EXCEPT ![Kernel] = "up"]
      /\ UNCHANGED <<mem, lossFlag, guarded, dbp, open, req, done, old, allowed, broken>>
      /\ domainReset' = FALSE
  BY DEF InitStatus, GotoB
<1>4. BbTypeOK'
  BY <1>1, <1>2, <1>3 DEF BbTypeOK
<1>5. bpc'[Kernel] = "up" /\ \A d \in Callers \ {Kernel} : bpc'[d] = bpc[d]
  BY <1>1, <1>3 DEF BbTypeOK
<1>6. Placed(Kernel)' /\ done[Kernel] = 0
  BY <1>1, <1>3, <1>5 DEF Placed
<1>7. broken = {} /\ open' => Accepts'
  BY <1>3 DEF BbInv, BbData, Accepts
<1> QED
  BY <1>3, <1>4, <1>5, <1>6, <1>7, Still DEF Active

LEMMA FlagBb == ASSUME BbInv, NEW c \in Users, NEW f \in Flags, CheckFlag(c, f) PROVE BbInv'
<1>1. BbTypeOK /\ BbControl /\ BbData /\ BytesSurvive
  BY DEF BbInv
<1>2. flags' \in SUBSET Flags /\ status' \in [magic : BOOLEAN, bits : SUBSET Flags]
  <2>1. flags' \in SUBSET Flags
    BY <1>1 DEF BbTypeOK, CheckFlag
  <2>2. StatusWord(flags') \in [magic : BOOLEAN, bits : SUBSET Flags]
    BY <2>1 DEF StatusWord
  <2>3. status' = status \/ status' = StatusWord(flags')
    BY DEF CheckFlag
  <2> QED
    BY <1>1, <2>1, <2>2, <2>3 DEF BbTypeOK
<1>3. UNCHANGED <<mem, lossFlag, guarded, dbp, open, domainReset, bpc, req, done, old, allowed, broken>>
  BY DEF CheckFlag
<1>4. BbTypeOK'
  BY <1>1, <1>2, <1>3 DEF BbTypeOK
<1>5. BbControl'
  BY <1>1, <1>3 DEF BbControl, Placed, Last, Target
<1>6. BbData'
  BY <1>1, <1>3 DEF BbData, Active, Alone, Relies, Accepts, Target, Last
<1>7. BytesSurvive'
  BY <1>1, <1>3 DEF BytesSurvive, Probing, Last
<1> QED
  BY <1>4, <1>5, <1>6, <1>7 DEF BbInv

LEMMA BeginBb == ASSUME BbInv, NEW c \in Users, NEW w \in Writes, BeginWrite(c, w) PROVE BbInv'
<1> USE CallerSet
<1>1. BbTypeOK /\ BbControl /\ BbData /\ BytesSurvive /\ Placed(c)
  BY DEF BbInv, BbControl
<1>2. w.at \in Nat /\ w.data \in Seq(Values) /\ w.at + Len(w.data) <= Size
  BY BbAssumption DEF BeginWrite, Size
<1>3. Covered(w) \subseteq Byte /\ \A b \in Covered(w) : New(w, b) \in Values /\ ~(b < w.at)
  BY <1>2, WriteCoverage
<1>4. allowed' \in [Byte -> SUBSET Values]
  <2>1. allowed \in [Byte -> SUBSET Values]
    BY <1>1 DEF BbTypeOK
  <2> QED
    BY <1>3, <2>1 DEF BeginWrite
<1>5. BbTypeOK'
  BY <1>1, <1>4 DEF BbTypeOK, BeginWrite, GotoB
<1>6. /\ bpc[c] = "idle" /\ bpc[Kernel] = "up"
      /\ bpc' = [bpc EXCEPT ![c] = IF open THEN "byte" ELSE "probe"] /\ req' = [req EXCEPT ![c] = w]
      /\ UNCHANGED <<mem, guarded, dbp, open, done, old>>
      /\ broken' = {} => broken = {} /\ \A d \in Users : bpc[d] = "idle"
      /\ \A b \in Byte : allowed'[b] = IF b \in Covered(w) THEN allowed[b] \cup {New(w, b)} ELSE allowed[b]
  BY DEF BeginWrite, GotoB, Up
<1>7. /\ bpc'[c] = IF open THEN "byte" ELSE "probe"
      /\ req'[c] = w
      /\ \A d \in Callers \ {c} : bpc'[d] = bpc[d] /\ req'[d] = req[d]
      /\ done[c] = 0
  BY <1>1, <1>6 DEF BbTypeOK, Placed
<1>8. Placed(c)'
  BY <1>1, <1>2, <1>6, <1>7 DEF Placed
<1>9. ASSUME broken' = {} PROVE broken = {} /\ Alone(c) /\ (open' => Accepts') /\ Relies(c)'
  <2>1. Alone(c)
    BY <1>6, <1>9 DEF Alone, Active
  <2>2. Target(c)' = w.at
    BY <1>2, <1>6, <1>7 DEF Target
  <2>3. \A b \in Covered(w) : New(w, b) \in allowed'[b] /\ ~(b < Target(c)')
    BY <1>3, <1>6, <2>2
  <2>4. broken = {} /\ (open => Accepts)
    BY <1>1, <1>6, <1>9 DEF BbData
  <2> QED
    BY <1>6, <1>7, <2>1, <2>3, <2>4 DEF Relies, Accepts
<1>10. BytesSurvive'
  <2> SUFFICES ASSUME broken' = {}, NEW b \in Byte PROVE mem'[b] \in allowed'[b]
    BY DEF BytesSurvive, Byte
  <2>1. ~Probing
    BY <1>6 DEF Probing
  <2> QED
    BY <1>1, <1>6, <2>1 DEF BytesSurvive
<1> QED
  <2>1. old' = [d \in Callers |-> old'[d]]
    BY <1>1, <1>6 DEF BbControl
  <2> QED
    BY <1>5, <1>6, <1>7, <1>8, <1>9, <1>10, <2>1, Move

LEMMA ReadBb == ASSUME BbInv, NEW c \in Users, ReadByte(c) PROVE BbInv'
<1> USE CallerSet
<1>1. BbTypeOK /\ BbControl /\ BbData /\ BytesSurvive /\ Placed(c)
  BY DEF BbInv, BbControl
<1>2. BbTypeOK'
  BY <1>1 DEF BbTypeOK, ReadByte, GotoB
<1>3. /\ bpc[c] = "byte" /\ done[c] < Len(req[c].data) /\ bpc' = [bpc EXCEPT ![c] = "merge"]
      /\ old' = [old EXCEPT ![c] = [b \in BytesIn(RegOf(Target(c))) |-> mem[b]]]
      /\ UNCHANGED <<mem, guarded, dbp, open, req, done, allowed, broken>>
  BY DEF ReadByte, GotoB
<1>4. /\ bpc'[c] = "merge" /\ \A d \in Callers \ {c} : bpc'[d] = bpc[d]
      /\ old'[c] = [b \in BytesIn(RegOf(Target(c))) |-> mem[b]]
      /\ \A d \in Callers \ {c} : old'[d] = old[d]
      /\ old' = [d \in Callers |-> old'[d]]
  BY <1>1, <1>3 DEF BbTypeOK, BbControl
<1>5. [b \in BytesIn(RegOf(Target(c))) |-> mem[b]] \in [BytesIn(RegOf(Target(c))) -> Values]
  BY <1>1, Bytes DEF BbTypeOK
<1>6. Target(c)' = Target(c)
  BY <1>3 DEF Target
<1>7. Placed(c)'
  BY <1>1, <1>3, <1>4, <1>5, <1>6 DEF Placed
<1>8. ASSUME broken' = {} PROVE broken = {} /\ Alone(c) /\ (open' => Accepts') /\ Relies(c)'
  <2>1. broken = {} /\ Alone(c) /\ (open => Accepts) /\ Relies(c)
    BY <1>1, <1>3, <1>8, Quiet DEF BbData, Active
  <2> QED
    BY <1>3, <1>4, <1>6, <2>1 DEF Relies, Accepts
<1>9. BytesSurvive'
  <2> SUFFICES ASSUME broken' = {}, NEW b \in Byte PROVE mem'[b] \in allowed'[b]
    BY DEF BytesSurvive, Byte
  <2>1. Alone(c)
    BY <1>3, <1>8
  <2>2. ~Probing
    BY <1>3, <2>1 DEF Probing, Alone, Active
  <2> QED
    BY <1>1, <1>3, <2>2 DEF BytesSurvive
<1> QED
  <2>1. bpc[Kernel] = "up"
    BY <1>1, <1>3 DEF BbControl
  <2> QED
    BY <1>2, <1>3, <1>4, <1>7, <1>8, <1>9, <2>1, Move

LEMMA WriteBb == ASSUME BbInv, NEW c \in Users, WriteByte(c) PROVE BbInv'
<1> USE CallerSet
<1> DEFINE t == Target(c)
           R == BytesIn(RegOf(t))
<1>1. BbTypeOK /\ BbControl /\ BbData /\ BytesSurvive /\ Placed(c)
  BY DEF BbInv, BbControl
<1>2. /\ bpc[c] = "merge" /\ bpc' = [bpc EXCEPT ![c] = "byte"]
      /\ Store([old[c] EXCEPT ![t] = New(req[c], t)])
      /\ done' = [done EXCEPT ![c] = @ + 1] /\ old' = [old EXCEPT ![c] = <<>>]
      /\ UNCHANGED <<status, lossFlag, guarded, dbp, flags, open, domainReset, req, allowed, broken>>
  BY DEF WriteByte, GotoB
<1>3. /\ req[c].at \in Nat /\ req[c].data \in Seq(Values) /\ done[c] \in Nat
      /\ done[c] < Len(req[c].data) /\ req[c].at + Len(req[c].data) <= Size
      /\ old[c] \in [R -> Values]
  BY <1>1, <1>2, Requests DEF Placed
<1>4. t \in Byte /\ t \in R /\ t \in Covered(req[c]) /\ New(req[c], t) \in Values
  <2>1. t \in Covered(req[c])
    BY <1>3, WriteCoverage DEF Target
  <2>2. t \in Byte /\ New(req[c], t) \in Values
    BY <1>3, <2>1, WriteCoverage
  <2> QED
    BY <2>1, <2>2 DEF BytesIn
<1>5. /\ mem' \in [Byte -> Values]
      /\ \A b \in Byte : mem'[b] = IF Accepts /\ b \in R THEN IF b = t THEN New(req[c], t) ELSE old[c][b]
                                   ELSE mem[b]
  <2> DEFINE content == [old[c] EXCEPT ![t] = New(req[c], t)]
  <2>1. content \in [R -> Values] /\ \A b \in R : content[b] = IF b = t THEN New(req[c], t) ELSE old[c][b]
    BY <1>3, <1>4
  <2>2. Store(content) /\ R \in SUBSET Byte
    BY <1>2, Bytes
  <2> HIDE DEF content, R
  <2> QED
    BY <1>1, <2>1, <2>2, Stored
<1>6. BbTypeOK'
  BY <1>1, <1>2, <1>3, <1>5 DEF BbTypeOK
<1>7. /\ bpc'[c] = "byte" /\ done'[c] = done[c] + 1
      /\ \A d \in Callers \ {c} : bpc'[d] = bpc[d] /\ done'[d] = done[d] /\ old'[d] = old[d]
      /\ old' = [d \in Callers |-> old'[d]]
  BY <1>1, <1>2 DEF BbTypeOK, BbControl
<1>8. Placed(c)'
  BY <1>1, <1>2, <1>3, <1>7 DEF Placed
<1>9. ASSUME broken = {}
      PROVE  /\ Alone(c) /\ open /\ Accepts /\ Relies(c)
             /\ \A b \in Byte : mem'[b] = IF b = t THEN New(req[c], t) ELSE mem[b]
  <2>1. Alone(c) /\ open /\ Accepts /\ Relies(c)
    BY <1>1, <1>2, <1>9, Quiet DEF BbData, Active, Relies
  <2>2. \A b \in R : old[c][b] = mem[b]
    BY <1>2, <2>1 DEF Relies
  <2> QED
    BY <1>4, <1>5, <2>1, <2>2
<1>10. ASSUME broken' = {} PROVE broken = {} /\ Alone(c) /\ (open' => Accepts') /\ Relies(c)'
  <2>1. ASSUME NEW b \in Covered(req[c])
        PROVE  New(req[c], b) \in allowed[b] /\ (b < Target(c)' => mem'[b] = New(req[c], b))
    <3>1. b \in Byte /\ b \in Nat
      BY <1>3, WriteCoverage
    <3>2. Target(c)' = t + 1 /\ t \in Nat
      BY <1>2, <1>3, <1>7 DEF Target
    <3>3. New(req[c], b) \in allowed[b] /\ (b < t => mem[b] = New(req[c], b))
      BY <1>2, <1>9, <1>10 DEF Relies
    <3> QED
      BY <1>2, <1>9, <1>10, <3>1, <3>2, <3>3
  <2>2. broken = {} /\ Alone(c) /\ open /\ Accepts
    BY <1>2, <1>9, <1>10
  <2> QED
    BY <1>2, <1>7, <2>1, <2>2 DEF Relies, Accepts
<1>11. BytesSurvive'
  <2> SUFFICES ASSUME broken' = {}, NEW b \in Byte PROVE mem'[b] \in allowed'[b]
    BY DEF BytesSurvive, Byte
  <2>1. Alone(c) /\ Relies(c) /\ mem'[b] = IF b = t THEN New(req[c], t) ELSE mem[b]
    BY <1>2, <1>9
  <2>2. ~Probing
    BY <1>2, <2>1 DEF Probing, Alone, Active
  <2>3. mem[b] \in allowed[b]
    BY <1>1, <1>2, <2>2 DEF BytesSurvive
  <2>4. New(req[c], t) \in allowed[t]
    BY <1>4, <2>1 DEF Relies
  <2> QED
    BY <1>2, <2>1, <2>3, <2>4
<1> QED
  <2>1. bpc[Kernel] = "up"
    BY <1>1, <1>2 DEF BbControl
  <2> QED
    BY <1>2, <1>6, <1>7, <1>8, <1>10, <1>11, <2>1, Move

LEMMA CloseBb == ASSUME BbInv, NEW c \in Users, Close(c) PROVE BbInv'
<1> USE CallerSet
<1>1. BbTypeOK /\ BbControl /\ BbData /\ BytesSurvive /\ Placed(c)
  BY DEF BbInv, BbControl
<1>2. /\ bpc[c] = "byte" /\ done[c] = Len(req[c].data) /\ bpc' = [bpc EXCEPT ![c] = "idle"]
      /\ open' = FALSE /\ dbp' = IF open THEN FALSE ELSE dbp
      /\ allowed' = [b \in Byte |-> IF b \in Covered(req[c]) THEN {New(req[c], b)} ELSE allowed[b]]
      /\ req' = [req EXCEPT ![c] = NoWrite] /\ done' = [done EXCEPT ![c] = 0]
      /\ UNCHANGED <<mem, status, lossFlag, guarded, flags, domainReset, old, broken>>
  BY DEF Close, GotoB
<1>3. /\ req[c].at \in Nat /\ req[c].data \in Seq(Values)
      /\ req[c].at + Len(req[c].data) <= Size
  BY <1>1, Requests DEF Placed
<1>4. /\ \A b \in Covered(req[c]) : New(req[c], b) \in Values
      /\ \A b \in Covered(req[c]) : b < Target(c)
  BY <1>2, <1>3, WriteCoverage DEF Target
<1>5. allowed' \in [Byte -> SUBSET Values]
  BY <1>1, <1>2, <1>4 DEF BbTypeOK
<1>6. BbTypeOK'
  BY <1>1, <1>2, <1>5 DEF BbTypeOK
<1>7. /\ bpc'[c] = "idle" /\ req'[c] = NoWrite /\ done'[c] = 0
      /\ \A d \in Callers \ {c} : bpc'[d] = bpc[d] /\ req'[d] = req[d] /\ done'[d] = done[d]
      /\ old' = [d \in Callers |-> old'[d]]
  BY <1>1, <1>2 DEF BbTypeOK, BbControl
<1>8. NoWrite.at = 0 /\ Len(NoWrite.data) = 0 /\ Covered(NoWrite) = {}
  BY DEF NoWrite, Covered
<1>9. Placed(c)'
  BY <1>1, <1>2, <1>7, <1>8, Sizes DEF Placed
<1>10. ASSUME broken = {} PROVE Alone(c) /\ Relies(c)
  BY <1>1, <1>2, <1>10, Quiet DEF BbData, Active
<1>11. broken' = {} => broken = {} /\ Alone(c) /\ (open' => Accepts') /\ Relies(c)'
  BY <1>2, <1>7, <1>8, <1>10 DEF Relies
<1>12. BytesSurvive'
  <2> SUFFICES ASSUME broken' = {}, NEW b \in Byte PROVE mem'[b] \in allowed'[b]
    BY DEF BytesSurvive, Byte
  <2>1. Alone(c) /\ Relies(c)
    BY <1>2, <1>10
  <2>2. ~Probing
    BY <1>2, <2>1 DEF Probing, Alone, Active
  <2>3. mem[b] \in allowed[b]
    BY <1>1, <1>2, <2>2 DEF BytesSurvive
  <2>4. b \in Covered(req[c]) => mem[b] = New(req[c], b)
    BY <1>4, <2>1 DEF Relies
  <2> QED
    BY <1>2, <2>3, <2>4
<1> QED
  <2>1. bpc[Kernel] = "up"
    BY <1>1, <1>2 DEF BbControl
  <2> QED
    BY <1>2, <1>6, <1>7, <1>9, <1>11, <1>12, <2>1, Move

(* Every step of the driver, whether the watchdog takes part or not.       *)
LEMMA StutterBb == ASSUME BbInv, UNCHANGED bbVars PROVE BbInv'
<1>1. BbTypeOK /\ BbControl /\ BbData /\ BytesSurvive
  BY DEF BbInv
<1>2. UNCHANGED <<mem, status, lossFlag, guarded, dbp, flags, open, domainReset, bpc, req, done, old, allowed, broken>>
  BY DEF bbVars
<1>3. BbTypeOK'
  BY <1>1, <1>2 DEF BbTypeOK
<1>4. BbControl'
  BY <1>1, <1>2 DEF BbControl, Placed, Last, Target
<1>5. BbData'
  BY <1>1, <1>2 DEF BbData, Active, Alone, Relies, Accepts, Target, Last
<1>6. BytesSurvive'
  BY <1>1, <1>2 DEF BytesSurvive, Probing, Last
<1> QED
  BY <1>3, <1>4, <1>5, <1>6 DEF BbInv

LEMMA CallerBb == ASSUME BbInv, NEW c \in Users, BbCaller(c) PROVE BbInv'
<1>1. c \in Callers
  BY CallerSet
<1>2. CASE \E f \in Flags : CheckFlag(c, f)
  BY <1>2, FlagBb
<1>3. CASE \E w \in Writes : BeginWrite(c, w)
  BY <1>3, BeginBb
<1>4. CASE Probe(c) \/ ProbeRestore(c) \/ PowerOpen(c)
  BY <1>1, <1>4, ProbeBb, RestoreBb, PowerBb
<1>5. CASE ReadByte(c) \/ WriteByte(c) \/ Close(c)
  BY <1>5, ReadBb, WriteBb, CloseBb
<1> QED
  BY <1>2, <1>3, <1>4, <1>5 DEF BbCaller

LEMMA KernelBb == ASSUME BbInv, BbKernel PROVE BbInv'
<1>1. Kernel \in Callers
  BY CallerSet
<1> QED
  BY <1>1, BootBb, ProbeBb, RestoreBb, PowerBb, StatusBb DEF BbKernel

LEMMA StepBb == ASSUME BbInv, [Next]_vars PROVE BbInv'
<1>1. ASSUME NEW t \in Threads, ThreadStep(t) PROVE BbInv'
  BY <1>1, CallerBb, StutterBb DEF ThreadStep
<1>2. CASE KernelStep
  BY <1>2, KernelBb DEF KernelStep
<1>3. CASE IsrStep \/ Tick \/ Hang
  BY <1>3, StutterBb DEF IsrStep, Tick, Hang
<1>4. CASE Expire \/ PowerCycle
  BY <1>4, RestartBb DEF Expire, PowerCycle, Restart
<1>5. CASE UNCHANGED vars
  BY <1>5, StutterBb DEF vars
<1> QED
  BY <1>1, <1>2, <1>3, <1>4, <1>5 DEF Next

-----------------------------------------------------------------------------
(* The watchdog.                                                           *)

(* What can be left of a call. *)
Rests(c) ==
  CASE c = "setup"   -> {<<"unlock", "check", "stop", "load", "start", "lock">>,
                         <<"check", "stop", "load", "start", "lock">>,
                         <<"stop", "load", "start", "lock">>, <<"load", "start", "lock">>,
                         <<"start", "lock">>, <<"lock">>}
    [] c = "feed"    -> {<<"unlock", "check", "clear", "load", "lock">>,
                         <<"check", "clear", "load", "lock">>,
                         <<"clear", "load", "lock">>, <<"load", "lock">>, <<"lock">>}
    [] c = "disable" -> {<<"unlock", "check", "stop", "lock">>, <<"check", "stop", "lock">>,
                         <<"stop", "lock">>, <<"lock">>}

Inside(t)  == todo[t] # <<>>
Entered(t) == Inside(t) /\ Head(todo[t]) \notin {"unlock", "check"}

(* A call that has passed its check either has the registers unlocked or   *)
(* has been interrupted by a feed, which has done what a feed and a setup  *)
(* still have to do: it interrupts no setup that has stopped the counter.  *)
Carried(t) ==
  Entered(t) =>
    /\ wdt.locked => fresh /\ fedInside /\ (call[t] = "setup" => wdt.resen)
    /\ call[t] = "setup" /\ ~wdt.locked /\ Head(todo[t]) \in {"load", "start"} => ~wdt.inten
    /\ call[t] = "setup" /\ Head(todo[t]) = "start" => fresh
    /\ todo[t] = <<"lock">> =>
         /\ call[t] \in {"feed", "setup"} => fresh
         /\ call[t] = "setup" => wdt.resen
         /\ call[t] = "disable" => ~wdt.inten \/ fedInside

WdtInv ==
  /\ WdtTypeOK
  /\ wdt.inten => wdt.resen
  /\ \A t \in Threads : Inside(t) => call[t] \in Calls /\ todo[t] \in Rests(call[t])
  /\ ~crossed => \A t \in Threads : Inside(t) => Carried(t) /\ \A u \in Threads \ {t} : ~Inside(u)

(* What is left after each write. *)
Follows(c, s) ==
  /\ s # <<>> /\ s \in Seq(Ops) /\ Head(s) \in Ops
  /\ Head(s) = "lock" <=> s = <<"lock">>
  /\ Head(s) # "lock" => Tail(s) # <<>> /\ Tail(s) \in Rests(c)
  /\ Head(s) = "unlock" => Head(Tail(s)) = "check"
  /\ Head(s) = "check" => Head(Tail(s)) \in {"stop", "clear"} /\ Tail(s) # <<"lock">>
  /\ Head(s) = "stop" => IF c = "setup" THEN Head(Tail(s)) = "load" /\ Tail(s) # <<"lock">>
                         ELSE c = "disable" /\ Tail(s) = <<"lock">>
  /\ Head(s) = "clear" => c = "feed" /\ Head(Tail(s)) = "load" /\ Tail(s) # <<"lock">>
  /\ Head(s) = "load" => IF c = "setup" THEN Head(Tail(s)) = "start" /\ Tail(s) # <<"lock">>
                         ELSE c = "feed" /\ Tail(s) = <<"lock">>
  /\ Head(s) = "start" => c = "setup" /\ Tail(s) = <<"lock">>

LEMMA Remains == ASSUME NEW c \in Calls, NEW s \in Rests(c) PROVE Follows(c, s)
<1>1. CASE c = "setup"
  <2>1. CASE s = <<"unlock", "check", "stop", "load", "start", "lock">>
    <3>1. s # <<>> /\ s \in Seq(Ops) /\ Head(s) = "unlock" /\ Head(s) \in Ops
      BY <2>1 DEF Ops
    <3> DEFINE r == <<"check", "stop", "load", "start", "lock">>
    <3>2. Tail(s) = r /\ s # <<"lock">>
      BY <2>1
    <3>3. r \in Rests(c) /\ r # <<>> /\ Head(r) = "check" /\ r # <<"lock">>
      BY <1>1 DEF Rests
    <3> HIDE DEF r
    <3> QED
      BY <1>1, <3>1, <3>2, <3>3 DEF Follows
  <2>2. CASE s = <<"check", "stop", "load", "start", "lock">>
    <3>1. s # <<>> /\ s \in Seq(Ops) /\ Head(s) = "check" /\ Head(s) \in Ops
      BY <2>2 DEF Ops
    <3> DEFINE r == <<"stop", "load", "start", "lock">>
    <3>2. Tail(s) = r /\ s # <<"lock">>
      BY <2>2
    <3>3. r \in Rests(c) /\ r # <<>> /\ Head(r) = "stop" /\ r # <<"lock">>
      BY <1>1 DEF Rests
    <3> HIDE DEF r
    <3> QED
      BY <1>1, <3>1, <3>2, <3>3 DEF Follows
  <2>3. CASE s = <<"stop", "load", "start", "lock">>
    <3>1. s # <<>> /\ s \in Seq(Ops) /\ Head(s) = "stop" /\ Head(s) \in Ops
      BY <2>3 DEF Ops
    <3> DEFINE r == <<"load", "start", "lock">>
    <3>2. Tail(s) = r /\ s # <<"lock">>
      BY <2>3
    <3>3. r \in Rests(c) /\ r # <<>> /\ Head(r) = "load" /\ r # <<"lock">>
      BY <1>1 DEF Rests
    <3> HIDE DEF r
    <3> QED
      BY <1>1, <3>1, <3>2, <3>3 DEF Follows
  <2>4. CASE s = <<"load", "start", "lock">>
    <3>1. s # <<>> /\ s \in Seq(Ops) /\ Head(s) = "load" /\ Head(s) \in Ops
      BY <2>4 DEF Ops
    <3> DEFINE r == <<"start", "lock">>
    <3>2. Tail(s) = r /\ s # <<"lock">>
      BY <2>4
    <3>3. r \in Rests(c) /\ r # <<>> /\ Head(r) = "start" /\ r # <<"lock">>
      BY <1>1 DEF Rests
    <3> HIDE DEF r
    <3> QED
      BY <1>1, <3>1, <3>2, <3>3 DEF Follows
  <2>5. CASE s = <<"start", "lock">>
    <3>1. s # <<>> /\ s \in Seq(Ops) /\ Head(s) = "start" /\ Head(s) \in Ops
      BY <2>5 DEF Ops
    <3> DEFINE r == <<"lock">>
    <3>2. Tail(s) = r /\ s # <<"lock">>
      BY <2>5
    <3>3. r \in Rests(c) /\ r # <<>> /\ Head(r) = "lock" /\ r = <<"lock">>
      BY <1>1 DEF Rests
    <3> HIDE DEF r
    <3> QED
      BY <1>1, <3>1, <3>2, <3>3 DEF Follows
  <2>6. CASE s = <<"lock">>
    <3>1. s # <<>> /\ s \in Seq(Ops) /\ Head(s) = "lock" /\ Head(s) \in Ops
      BY <2>6 DEF Ops
    <3> QED
      BY <1>1, <2>6, <3>1 DEF Follows
  <2> QED
    BY <1>1, <2>1, <2>2, <2>3, <2>4, <2>5, <2>6 DEF Rests
<1>2. CASE c = "feed"
  <2>1. CASE s = <<"unlock", "check", "clear", "load", "lock">>
    <3>1. s # <<>> /\ s \in Seq(Ops) /\ Head(s) = "unlock" /\ Head(s) \in Ops
      BY <2>1 DEF Ops
    <3> DEFINE r == <<"check", "clear", "load", "lock">>
    <3>2. Tail(s) = r /\ s # <<"lock">>
      BY <2>1
    <3>3. r \in Rests(c) /\ r # <<>> /\ Head(r) = "check" /\ r # <<"lock">>
      BY <1>2 DEF Rests
    <3> HIDE DEF r
    <3> QED
      BY <1>2, <3>1, <3>2, <3>3 DEF Follows
  <2>2. CASE s = <<"check", "clear", "load", "lock">>
    <3>1. s # <<>> /\ s \in Seq(Ops) /\ Head(s) = "check" /\ Head(s) \in Ops
      BY <2>2 DEF Ops
    <3> DEFINE r == <<"clear", "load", "lock">>
    <3>2. Tail(s) = r /\ s # <<"lock">>
      BY <2>2
    <3>3. r \in Rests(c) /\ r # <<>> /\ Head(r) = "clear" /\ r # <<"lock">>
      BY <1>2 DEF Rests
    <3> HIDE DEF r
    <3> QED
      BY <1>2, <3>1, <3>2, <3>3 DEF Follows
  <2>3. CASE s = <<"clear", "load", "lock">>
    <3>1. s # <<>> /\ s \in Seq(Ops) /\ Head(s) = "clear" /\ Head(s) \in Ops
      BY <2>3 DEF Ops
    <3> DEFINE r == <<"load", "lock">>
    <3>2. Tail(s) = r /\ s # <<"lock">>
      BY <2>3
    <3>3. r \in Rests(c) /\ r # <<>> /\ Head(r) = "load" /\ r # <<"lock">>
      BY <1>2 DEF Rests
    <3> HIDE DEF r
    <3> QED
      BY <1>2, <3>1, <3>2, <3>3 DEF Follows
  <2>4. CASE s = <<"load", "lock">>
    <3>1. s # <<>> /\ s \in Seq(Ops) /\ Head(s) = "load" /\ Head(s) \in Ops
      BY <2>4 DEF Ops
    <3> DEFINE r == <<"lock">>
    <3>2. Tail(s) = r /\ s # <<"lock">>
      BY <2>4
    <3>3. r \in Rests(c) /\ r # <<>> /\ Head(r) = "lock" /\ r = <<"lock">>
      BY <1>2 DEF Rests
    <3> HIDE DEF r
    <3> QED
      BY <1>2, <3>1, <3>2, <3>3 DEF Follows
  <2>5. CASE s = <<"lock">>
    <3>1. s # <<>> /\ s \in Seq(Ops) /\ Head(s) = "lock" /\ Head(s) \in Ops
      BY <2>5 DEF Ops
    <3> QED
      BY <1>2, <2>5, <3>1 DEF Follows
  <2> QED
    BY <1>2, <2>1, <2>2, <2>3, <2>4, <2>5 DEF Rests
<1>3. CASE c = "disable"
  <2>1. CASE s = <<"unlock", "check", "stop", "lock">>
    <3>1. s # <<>> /\ s \in Seq(Ops) /\ Head(s) = "unlock" /\ Head(s) \in Ops
      BY <2>1 DEF Ops
    <3> DEFINE r == <<"check", "stop", "lock">>
    <3>2. Tail(s) = r /\ s # <<"lock">>
      BY <2>1
    <3>3. r \in Rests(c) /\ r # <<>> /\ Head(r) = "check" /\ r # <<"lock">>
      BY <1>3 DEF Rests
    <3> HIDE DEF r
    <3> QED
      BY <1>3, <3>1, <3>2, <3>3 DEF Follows
  <2>2. CASE s = <<"check", "stop", "lock">>
    <3>1. s # <<>> /\ s \in Seq(Ops) /\ Head(s) = "check" /\ Head(s) \in Ops
      BY <2>2 DEF Ops
    <3> DEFINE r == <<"stop", "lock">>
    <3>2. Tail(s) = r /\ s # <<"lock">>
      BY <2>2
    <3>3. r \in Rests(c) /\ r # <<>> /\ Head(r) = "stop" /\ r # <<"lock">>
      BY <1>3 DEF Rests
    <3> HIDE DEF r
    <3> QED
      BY <1>3, <3>1, <3>2, <3>3 DEF Follows
  <2>3. CASE s = <<"stop", "lock">>
    <3>1. s # <<>> /\ s \in Seq(Ops) /\ Head(s) = "stop" /\ Head(s) \in Ops
      BY <2>3 DEF Ops
    <3> DEFINE r == <<"lock">>
    <3>2. Tail(s) = r /\ s # <<"lock">>
      BY <2>3
    <3>3. r \in Rests(c) /\ r # <<>> /\ Head(r) = "lock" /\ r = <<"lock">>
      BY <1>3 DEF Rests
    <3> HIDE DEF r
    <3> QED
      BY <1>3, <3>1, <3>2, <3>3 DEF Follows
  <2>4. CASE s = <<"lock">>
    <3>1. s # <<>> /\ s \in Seq(Ops) /\ Head(s) = "lock" /\ Head(s) \in Ops
      BY <2>4 DEF Ops
    <3> QED
      BY <1>3, <2>4, <3>1 DEF Follows
  <2> QED
    BY <1>3, <2>1, <2>2, <2>3, <2>4 DEF Rests
<1> QED
  BY <1>1, <1>2, <1>3 DEF Calls

LEMMA Starts ==
  ASSUME NEW c \in Calls
  PROVE  Script(c) \in Rests(c) /\ Script(c) \in Seq(Ops) /\ Script(c) # <<>> /\ Head(Script(c)) = "unlock"
<1>1. Script(c) \in Rests(c) /\ Script(c) # <<>> /\ Head(Script(c)) = "unlock"
  BY DEF Calls, Script, Rests
<1> QED
  BY <1>1, Remains DEF Follows

LEMMA Loads == ASSUME WdtTypeOK PROVE LoadValue \in 0 .. Width - 1
<1>1. Scale * timeout \in Nat /\ Width \in Nat \ {0}
  BY WdtAssumption DEF WdtTypeOK
<1>2. \A n \in Nat : n % Width \in 0 .. Width - 1
  BY <1>1
<1> QED
  BY <1>1, <1>2 DEF LoadValue

(* A write changes no more than its registers, and none if they are locked *)
Regs == [load : 0 .. Width - 1, value : 0 .. Width - 1, inten : BOOLEAN,
         resen : BOOLEAN, ris : BOOLEAN, locked : BOOLEAN]

LEMMA Writings ==
  ASSUME NEW w \in Regs
  PROVE  /\ \A n \in 0 .. Width - 1 :
              PutLoad(w, n) \in Regs /\ PutLoad(w, n) = [w EXCEPT !.load = PutLoad(w, n).load, !.value = PutLoad(w, n).value]
         /\ \A i, r \in BOOLEAN :
              /\ PutControl(w, i, r) \in Regs /\ PutControl(w, i, r).locked = w.locked
              /\ PutControl(w, i, r).inten = IF w.locked THEN w.inten ELSE i
              /\ PutControl(w, i, r).resen = IF w.locked THEN w.resen ELSE r
         /\ PutIntClr(w) \in Regs
         /\ PutIntClr(w) = [w EXCEPT !.ris = PutIntClr(w).ris, !.value = PutIntClr(w).value]
         /\ [w EXCEPT !.locked = TRUE] \in Regs /\ [w EXCEPT !.locked = FALSE] \in Regs
BY DEF PutLoad, PutControl, PutIntClr, Regs

(* A step of one thread inside a call, with the others where they are. *)
LEMMA WdtMove ==
  ASSUME WdtInv, NEW t \in Threads, Inside(t), WdtTypeOK', wdt'.inten => wdt'.resen, crossed' = crossed,
         \A u \in Threads \ {t} : todo'[u] = todo[u] /\ call'[u] = call[u],
         todo'[t] = <<>> \/ (call'[t] = call[t] /\ todo'[t] \in Rests(call[t]) /\ (~crossed => Carried(t)'))
  PROVE  WdtInv'
<1>1. \A u \in Threads : Inside(u)' => call'[u] \in Calls /\ todo'[u] \in Rests(call'[u])
  BY DEF WdtInv, Inside
<1>2. ASSUME ~crossed', NEW u \in Threads, Inside(u)'
      PROVE  Carried(u)' /\ \A v \in Threads \ {u} : ~Inside(v)'
  <2>1. \A v \in Threads \ {t} : ~Inside(v)'
    BY <1>2 DEF WdtInv, Inside
  <2> QED
    BY <1>2, <2>1 DEF Inside
<1> QED
  BY <1>1, <1>2 DEF WdtInv

(* What a thread inside a call knows. *)
LEMMA Known ==
  ASSUME WdtInv, NEW t \in Threads, Inside(t)
  PROVE  /\ call[t] \in Calls /\ todo[t] \in Rests(call[t]) /\ Follows(call[t], todo[t])
         /\ ~crossed => Carried(t)
         /\ wdt \in Regs /\ todo \in [Threads -> Seq(Ops)] /\ call \in [Threads -> Calls \cup {"none"}]
BY Remains DEF WdtInv, WdtTypeOK, Regs

LEMMA TailTyped ==
  ASSUME WdtInv, NEW t \in Threads, Inside(t), Head(todo[t]) # "lock"
  PROVE  /\ [todo EXCEPT ![t] = Tail(@)] \in [Threads -> Seq(Ops)]
         /\ [todo EXCEPT ![t] = Tail(@)][t] = Tail(todo[t])
         /\ Tail(todo[t]) # <<>> /\ Tail(todo[t]) \in Rests(call[t])
<1>1. Tail(todo[t]) # <<>> /\ Tail(todo[t]) \in Rests(call[t])
  BY Known DEF Follows
<1>2. Tail(todo[t]) \in Seq(Ops)
  BY <1>1, Known, Remains DEF Follows
<1> QED
  BY <1>1, <1>2, Known

LEMMA UnlockW == ASSUME WdtInv, NEW t \in Threads, Unlock(t) PROVE WdtInv'
<1>1. Inside(t) /\ Head(todo[t]) = "unlock" /\ todo' = [todo EXCEPT ![t] = Tail(@)]
      /\ wdt' = [wdt EXCEPT !.locked = FALSE] /\ call' = call /\ crossed' = crossed
  BY DEF Unlock, At, Done, Inside
<1>2. todo' \in [Threads -> Seq(Ops)] /\ todo'[t] = Tail(todo[t]) /\ todo'[t] \in Rests(call[t])
  BY <1>1, TailTyped
<1>3. wdt' \in Regs /\ (wdt'.inten => wdt'.resen)
  BY <1>1, Known, Writings DEF WdtInv, Regs
<1>4. WdtTypeOK'
  BY <1>2, <1>3 DEF WdtInv, WdtTypeOK, Unlock, Regs
<1>5. ~Entered(t)'
  BY <1>1, <1>2, Known DEF Follows, Entered
<1> QED
  BY <1>1, <1>2, <1>3, <1>4, <1>5, WdtMove, Known DEF Carried

LEMMA CheckW == ASSUME WdtInv, NEW t \in Threads, Check(t) PROVE WdtInv'
<1>1. Inside(t) /\ Head(todo[t]) = "check" /\ UNCHANGED <<wdt, installed, callback, timeout, crossed, age>>
  BY DEF Check, At, Inside
<1>2. wdt' \in Regs /\ (wdt'.inten => wdt'.resen)
  BY <1>1, Known DEF WdtInv
<1>3. CASE wdt.locked /\ Return(t)
  <2>1. todo' \in [Threads -> Seq(Ops)] /\ todo'[t] = <<>> /\ call' \in [Threads -> Calls \cup {"none"}]
    BY <1>1, <1>3, Known DEF Return
  <2>2. WdtTypeOK'
    <3>1. fresh' = FALSE /\ fedInside' = FALSE /\ since' = 0
      BY <1>3 DEF Return
    <3>2. 0 \in 0 .. MaxAge
      BY WdtAssumption
    <3> QED
      BY <1>1, <1>2, <2>1, <3>1, <3>2 DEF WdtInv, WdtTypeOK, Regs
  <2>3. \A u \in Threads \ {t} : todo'[u] = todo[u] /\ call'[u] = call[u]
    BY <1>1, <1>3, Known DEF Return
  <2> QED
    BY <1>1, <1>2, <2>1, <2>2, <2>3, WdtMove
<1>4. CASE ~wdt.locked /\ Done(t) /\ UNCHANGED <<call, fresh, fedInside, since>>
  <2>1. /\ todo' = [todo EXCEPT ![t] = Tail(@)] /\ todo' \in [Threads -> Seq(Ops)]
        /\ todo'[t] = Tail(todo[t]) /\ todo'[t] \in Rests(call[t])
    BY <1>1, <1>4, TailTyped DEF Done
  <2>2. WdtTypeOK'
    BY <1>1, <1>2, <1>4, <2>1 DEF WdtInv, WdtTypeOK, Regs
  <2>3. Head(todo'[t]) \in {"stop", "clear"} /\ todo'[t] # <<"lock">>
    BY <1>1, <2>1, Known DEF Follows
  <2>4. Carried(t)'
    BY <1>1, <1>4, <2>3 DEF Carried
  <2> QED
    BY <1>1, <1>2, <1>4, <2>1, <2>2, <2>4, WdtMove
<1> QED
  BY <1>3, <1>4 DEF Check

LEMMA StopW == ASSUME WdtInv, NEW t \in Threads, Stop(t) PROVE WdtInv'
<1>1. /\ Inside(t) /\ Head(todo[t]) = "stop" /\ todo' = [todo EXCEPT ![t] = Tail(@)]
      /\ wdt' = PutControl(wdt, FALSE, FALSE)
      /\ UNCHANGED <<installed, callback, timeout, call, fresh, fedInside, crossed, age, since>>
  BY DEF Stop, At, Done, Inside
<1>2. todo' \in [Threads -> Seq(Ops)] /\ todo'[t] = Tail(todo[t]) /\ todo'[t] \in Rests(call[t])
  BY <1>1, TailTyped
<1>3. /\ wdt' \in Regs /\ wdt'.locked = wdt.locked
      /\ wdt'.inten = (wdt.locked /\ wdt.inten) /\ wdt'.resen = (wdt.locked /\ wdt.resen)
      /\ wdt'.inten => wdt'.resen
  <2>1. wdt \in Regs /\ (wdt.inten => wdt.resen)
    BY <1>1, Known DEF WdtInv
  <2> QED
    BY <1>1, <2>1 DEF PutControl, Regs
<1>4. WdtTypeOK'
  BY <1>1, <1>2, <1>3 DEF WdtInv, WdtTypeOK, Regs
<1>5. ASSUME ~crossed PROVE Carried(t)'
  <2>1. Entered(t) /\ Carried(t)
    BY <1>1, <1>5, Known DEF Entered
  <2>2. /\ call[t] = "setup" => Head(todo'[t]) = "load" /\ todo'[t] # <<"lock">>
        /\ call[t] # "setup" => call[t] = "disable" /\ todo'[t] = <<"lock">>
    BY <1>1, <1>2, Known DEF Follows
  <2> QED
    BY <1>1, <1>3, <2>1, <2>2 DEF Carried
<1> QED
  BY <1>1, <1>2, <1>3, <1>4, <1>5, WdtMove

LEMMA ClearW == ASSUME WdtInv, NEW t \in Threads, Clear(t) PROVE WdtInv'
<1>1. /\ Inside(t) /\ Head(todo[t]) = "clear" /\ todo' = [todo EXCEPT ![t] = Tail(@)]
      /\ wdt' = PutIntClr(wdt)
      /\ UNCHANGED <<installed, callback, timeout, call, fresh, fedInside, crossed, age, since>>
  BY DEF Clear, At, Done, Inside
<1>2. todo' \in [Threads -> Seq(Ops)] /\ todo'[t] = Tail(todo[t]) /\ todo'[t] \in Rests(call[t])
  BY <1>1, TailTyped
<1>3. /\ wdt' \in Regs /\ wdt'.locked = wdt.locked /\ wdt'.inten = wdt.inten /\ wdt'.resen = wdt.resen
      /\ wdt'.inten => wdt'.resen
  <2>1. wdt \in Regs /\ (wdt.inten => wdt.resen)
    BY <1>1, Known DEF WdtInv
  <2> QED
    BY <1>1, <2>1 DEF PutIntClr, Regs
<1>4. WdtTypeOK'
  BY <1>1, <1>2, <1>3 DEF WdtInv, WdtTypeOK, Regs
<1>5. ASSUME ~crossed PROVE Carried(t)'
  <2>1. Entered(t) /\ Carried(t)
    BY <1>1, <1>5, Known DEF Entered
  <2>2. call[t] = "feed" /\ Head(todo'[t]) = "load" /\ todo'[t] # <<"lock">>
    BY <1>1, <1>2, Known DEF Follows
  <2> QED
    BY <1>1, <1>3, <2>1, <2>2 DEF Carried
<1> QED
  BY <1>1, <1>2, <1>3, <1>4, <1>5, WdtMove

LEMMA LoadW == ASSUME WdtInv, NEW t \in Threads, Load(t) PROVE WdtInv'
<1>1. /\ Inside(t) /\ Head(todo[t]) = "load" /\ todo' = [todo EXCEPT ![t] = Tail(@)]
      /\ wdt' = PutLoad(wdt, LoadValue) /\ fresh' = (fresh \/ ~wdt.locked)
      /\ UNCHANGED <<installed, callback, timeout, call, fedInside, crossed, age, since>>
  BY DEF Load, At, Done, Inside
<1>2. todo' \in [Threads -> Seq(Ops)] /\ todo'[t] = Tail(todo[t]) /\ todo'[t] \in Rests(call[t])
  BY <1>1, TailTyped
<1>3. /\ wdt' \in Regs /\ wdt'.locked = wdt.locked /\ wdt'.inten = wdt.inten /\ wdt'.resen = wdt.resen
      /\ wdt'.inten => wdt'.resen
  <2>1. wdt \in Regs /\ (wdt.inten => wdt.resen) /\ LoadValue \in 0 .. Width - 1
    BY <1>1, Known, Loads DEF WdtInv
  <2> QED
    BY <1>1, <2>1 DEF PutLoad, Regs
<1>4. WdtTypeOK'
  BY <1>1, <1>2, <1>3 DEF WdtInv, WdtTypeOK, Regs
<1>5. ASSUME ~crossed PROVE Carried(t)'
  <2>1. Entered(t) /\ Carried(t)
    BY <1>1, <1>5, Known DEF Entered
  <2>2. /\ call[t] = "setup" => Head(todo'[t]) = "start" /\ todo'[t] # <<"lock">>
        /\ call[t] # "setup" => call[t] = "feed" /\ todo'[t] = <<"lock">>
    BY <1>1, <1>2, Known DEF Follows
  <2>3. fresh' /\ (wdt.locked => fresh /\ fedInside)
    BY <1>1, <2>1 DEF Carried
  <2> QED
    BY <1>1, <1>3, <2>1, <2>2, <2>3 DEF Carried
<1> QED
  BY <1>1, <1>2, <1>3, <1>4, <1>5, WdtMove

LEMMA StartW == ASSUME WdtInv, NEW t \in Threads, Start(t) PROVE WdtInv'
<1>1. /\ Inside(t) /\ Head(todo[t]) = "start" /\ todo' = [todo EXCEPT ![t] = Tail(@)]
      /\ wdt' = PutControl(wdt, callback # "none", TRUE)
      /\ UNCHANGED <<installed, callback, timeout, call, fresh, fedInside, crossed, age, since>>
  BY DEF Start, At, Done, Inside
<1>2. todo' \in [Threads -> Seq(Ops)] /\ todo'[t] = Tail(todo[t]) /\ todo'[t] \in Rests(call[t])
  BY <1>1, TailTyped
<1>3. /\ wdt' \in Regs /\ wdt'.locked = wdt.locked
      /\ wdt'.resen = (~wdt.locked \/ wdt.resen)
      /\ wdt'.inten => wdt'.resen
  <2>1. wdt \in Regs /\ (wdt.inten => wdt.resen)
    BY <1>1, Known DEF WdtInv
  <2>2. (callback # "none") \in BOOLEAN
    OBVIOUS
  <2> QED
    BY <1>1, <2>1, <2>2 DEF PutControl, Regs
<1>4. WdtTypeOK'
  BY <1>1, <1>2, <1>3 DEF WdtInv, WdtTypeOK, Regs
<1>5. ASSUME ~crossed PROVE Carried(t)'
  <2>1. Entered(t) /\ Carried(t)
    BY <1>1, <1>5, Known DEF Entered
  <2>2. call[t] = "setup" /\ todo'[t] = <<"lock">>
    BY <1>1, <1>2, Known DEF Follows
  <2>3. Head(todo'[t]) = "lock"
    BY <2>2
  <2> QED
    BY <1>1, <1>3, <2>1, <2>2, <2>3 DEF Carried
<1> QED
  BY <1>1, <1>2, <1>3, <1>4, <1>5, WdtMove

LEMMA LockW == ASSUME WdtInv, NEW t \in Threads, Lock(t) PROVE WdtInv'
<1>1. Inside(t) /\ Return(t) /\ wdt' = [wdt EXCEPT !.locked = TRUE] /\ crossed' = crossed
  BY DEF Lock, At, Inside
<1>2. /\ todo' \in [Threads -> Seq(Ops)] /\ todo'[t] = <<>> /\ call' \in [Threads -> Calls \cup {"none"}]
      /\ \A u \in Threads \ {t} : todo'[u] = todo[u] /\ call'[u] = call[u]
  BY <1>1, Known DEF Return
<1>3. wdt' \in Regs /\ (wdt'.inten => wdt'.resen)
  BY <1>1, Known DEF WdtInv, Regs
<1>4. age' \in 0 .. MaxAge /\ since' \in 0 .. MaxAge
  BY <1>1, WdtAssumption DEF WdtInv, WdtTypeOK, Lock, Return
<1>5. WdtTypeOK'
  BY <1>1, <1>2, <1>3, <1>4 DEF WdtInv, WdtTypeOK, Lock, Return, Regs
<1> QED
  BY <1>1, <1>2, <1>3, <1>5, WdtMove

(* Steps that no call takes: what is left of each call stays. *)
LEMMA WdtAside ==
  ASSUME WdtInv, WdtTypeOK', wdt'.inten => wdt'.resen, UNCHANGED <<todo, call, crossed>>,
         \A t \in Threads : Entered(t) /\ Carried(t) => Carried(t)'
  PROVE  WdtInv'
<1>1. \A t \in Threads : Inside(t)' = Inside(t) /\ Entered(t)' = Entered(t)
  BY DEF Inside, Entered
<1>2. ASSUME ~crossed', NEW t \in Threads, Inside(t)'
      PROVE  Carried(t)' /\ \A u \in Threads \ {t} : ~Inside(u)'
  <2>1. Carried(t) /\ \A u \in Threads \ {t} : ~Inside(u)
    BY <1>1, <1>2 DEF WdtInv
  <2>2. ~Entered(t) => Carried(t)'
    BY <1>1 DEF Carried
  <2> QED
    BY <1>1, <2>1, <2>2
<1> QED
  BY <1>1, <1>2 DEF WdtInv

LEMMA InstallW == ASSUME WdtInv, NEW t \in Threads, NEW ms \in Timeouts, NEW cb \in Callbacks, Install(t, ms, cb) PROVE WdtInv'
<1>1. WdtTypeOK' /\ (wdt'.inten => wdt'.resen) /\ UNCHANGED <<todo, call, crossed, wdt, fresh, fedInside>>
  BY DEF WdtInv, WdtTypeOK, Install
<1> QED
  BY <1>1, WdtAside DEF Carried, Entered, Inside

LEMMA BeginW == ASSUME WdtInv, NEW t \in Threads, NEW c \in Calls, BeginCall(t, c) PROVE WdtInv'
<1>1. /\ todo[t] = <<>> /\ call' = [call EXCEPT ![t] = c] /\ todo' = [todo EXCEPT ![t] = Script(c)]
      /\ crossed' = (crossed \/ InCall)
      /\ UNCHANGED <<wdt, installed, callback, timeout, fresh, fedInside, age, since>>
  BY DEF BeginCall
<1>2. Script(c) \in Rests(c) /\ Script(c) \in Seq(Ops) /\ Script(c) # <<>> /\ Head(Script(c)) = "unlock"
  BY Starts
<1>3. WdtTypeOK'
  BY <1>1, <1>2 DEF WdtInv, WdtTypeOK
<1>4. /\ todo'[t] = Script(c) /\ call'[t] = c
      /\ \A u \in Threads \ {t} : todo'[u] = todo[u] /\ call'[u] = call[u]
  BY <1>1 DEF WdtInv, WdtTypeOK
<1>5. \A u \in Threads : Inside(u)' => call'[u] \in Calls /\ todo'[u] \in Rests(call'[u])
  BY <1>2, <1>4 DEF WdtInv, Inside
<1>6. ASSUME ~crossed', NEW u \in Threads, Inside(u)'
      PROVE  Carried(u)' /\ \A v \in Threads \ {u} : ~Inside(v)'
  <2>1. \A v \in Threads \ {t} : ~Inside(v)'
    BY <1>1, <1>4, <1>6 DEF InCall, Inside
  <2>2. u = t /\ ~Entered(t)'
    BY <1>2, <1>4, <1>6, <2>1 DEF Entered
  <2> QED
    BY <2>1, <2>2 DEF Carried
<1> QED
  BY <1>1, <1>3, <1>5, <1>6 DEF WdtInv

LEMMA IsrW == ASSUME WdtInv, WdtIsr PROVE WdtInv'
<1> DEFINE cleared == PutIntClr(wdt)
<1>1. wdt \in Regs /\ wdt.inten /\ wdt.resen
  BY DEF WdtInv, WdtTypeOK, Regs, WdtIsr, Interrupt
<1>2. cleared \in Regs /\ cleared.locked = wdt.locked /\ cleared.inten = wdt.inten /\ cleared.resen = wdt.resen
  BY <1>1 DEF PutIntClr, Regs
<1>3. UNCHANGED <<installed, callback, timeout, todo, call, crossed, since>>
  BY DEF WdtIsr
<1>4. CASE wdt' = cleared /\ UNCHANGED <<fresh, fedInside, age>>
  <2> HIDE DEF cleared
  <2>1. WdtTypeOK'
    BY <1>2, <1>3, <1>4 DEF WdtInv, WdtTypeOK, Regs
  <2>2. \A t \in Threads : Entered(t) /\ Carried(t) => Carried(t)'
    BY <1>2, <1>3, <1>4 DEF Carried, Entered, Inside
  <2> QED
    BY <1>1, <1>2, <1>3, <1>4, <2>1, <2>2, WdtAside
<1>5. CASE wdt' = Feed(cleared) /\ fresh' = InCall /\ fedInside' = InCall /\ age' = 0
  <2> HIDE DEF cleared
  <2>1. wdt' \in Regs /\ wdt'.locked /\ wdt'.inten = wdt.inten /\ wdt'.resen = wdt.resen
    <3> DEFINE w1 == [cleared EXCEPT !.locked = FALSE]
               w2 == PutIntClr(w1)
               w3 == PutLoad(w2, LoadValue)
    <3>1. w1 \in Regs /\ ~w1.locked /\ w1.inten = wdt.inten /\ w1.resen = wdt.resen
      BY <1>2 DEF Regs
    <3> HIDE DEF w1
    <3>2. w2 \in Regs /\ ~w2.locked /\ w2.inten = wdt.inten /\ w2.resen = wdt.resen
      BY <3>1 DEF Regs, PutIntClr
    <3> HIDE DEF w2
    <3>3. w3 \in Regs /\ ~w3.locked /\ w3.inten = wdt.inten /\ w3.resen = wdt.resen
      <4>1. LoadValue \in 0 .. Width - 1
        BY Loads DEF WdtInv
      <4> QED
        BY <3>2, <4>1 DEF Regs, PutLoad
    <3> HIDE DEF w3
    <3>4. wdt' = [w3 EXCEPT !.locked = TRUE]
      BY <1>5 DEF Feed, w1, w2, w3
    <3> QED
      BY <3>3, <3>4 DEF Regs
  <2>2. WdtTypeOK'
    <3>1. InCall \in BOOLEAN /\ 0 \in 0 .. MaxAge
      BY WdtAssumption DEF InCall
    <3> QED
      BY <1>3, <1>5, <2>1, <3>1 DEF WdtInv, WdtTypeOK, Regs
  <2>3. ASSUME NEW t \in Threads, Entered(t) PROVE Carried(t)'
    <3>1. fresh' /\ fedInside'
      BY <1>5, <2>3 DEF Entered, Inside, InCall
    <3> QED
      BY <1>1, <2>1, <3>1 DEF Carried
  <2> QED
    BY <1>1, <1>3, <2>1, <2>2, <2>3, WdtAside
<1> QED
  BY <1>4, <1>5 DEF WdtIsr

LEMMA CounterW == ASSUME WdtInv, Count \/ FirstZero PROVE WdtInv'
<1>1. UNCHANGED <<installed, callback, timeout, todo, call, fresh, fedInside, crossed>> /\ Ages
  BY DEF Count, FirstZero
<1>2. /\ wdt' \in Regs /\ wdt'.locked = wdt.locked /\ wdt'.inten = wdt.inten /\ wdt'.resen = wdt.resen
  <2>1. wdt \in Regs /\ Width \in Nat \ {0}
    BY WdtAssumption DEF WdtInv, WdtTypeOK, Regs
  <2>2. CASE Count
    <3>1. wdt.value - 1 \in 0 .. Width - 1 /\ wdt' = [wdt EXCEPT !.value = wdt.value - 1]
      BY <2>1, <2>2 DEF Count, Regs
    <3> QED
      BY <2>1, <3>1 DEF Regs
  <2>3. CASE FirstZero
    BY <2>1, <2>3 DEF FirstZero, Regs
  <2> QED
    BY <2>2, <2>3
<1>3. age' \in 0 .. MaxAge /\ since' \in 0 .. MaxAge
  BY <1>1, WdtAssumption DEF WdtInv, WdtTypeOK, Ages, Older
<1>4. WdtTypeOK'
  BY <1>1, <1>2, <1>3 DEF WdtInv, WdtTypeOK, Regs
<1>5. \A t \in Threads : Entered(t) /\ Carried(t) => Carried(t)'
  BY <1>1, <1>2 DEF Carried, Entered, Inside
<1> QED
  BY <1>1, <1>2, <1>4, <1>5, WdtAside DEF WdtInv

(* The registers after a restart are those of the start.                   *)
LEMMA FirstW ==
  ASSUME WdtInit PROVE WdtInv
<1>1. wdt \in Regs /\ ~wdt.inten
  BY WdtAssumption DEF WdtInit, RegistersAfterInit, Regs
<1>2. <<>> \in Seq(Ops)
  OBVIOUS
<1>3. WdtTypeOK
  <2>1. todo \in [Threads -> Seq(Ops)] /\ call \in [Threads -> Calls \cup {"none"}]
    BY <1>2 DEF WdtInit
  <2>2. age \in 0 .. MaxAge /\ since \in 0 .. MaxAge /\ timeout \in Timeouts \cup {0}
    BY WdtAssumption DEF WdtInit
  <2>3. /\ installed \in BOOLEAN /\ callback \in Callbacks
        /\ fresh \in BOOLEAN /\ fedInside \in BOOLEAN /\ crossed \in BOOLEAN
    BY DEF WdtInit, Callbacks
  <2> QED
    BY <1>1, <2>1, <2>2, <2>3 DEF WdtTypeOK, Regs
<1>4. \A t \in Threads : ~Inside(t)
  BY DEF WdtInit, Inside
<1> QED
  BY <1>1, <1>3, <1>4 DEF WdtInv

LEMMA RestartW == ASSUME WdtRestart PROVE WdtInv'
<1>1. wdt' \in Regs /\ ~wdt'.inten
  BY WdtAssumption DEF WdtRestart, RegistersAfterInit, Regs
<1>2. <<>> \in Seq(Ops)
  OBVIOUS
<1>3. WdtTypeOK'
  <2>1. todo' \in [Threads -> Seq(Ops)] /\ call' \in [Threads -> Calls \cup {"none"}]
    BY <1>2 DEF WdtRestart
  <2>2. age' \in 0 .. MaxAge /\ since' \in 0 .. MaxAge /\ timeout' \in Timeouts \cup {0}
    BY WdtAssumption DEF WdtRestart
  <2>3. /\ installed' \in BOOLEAN /\ callback' \in Callbacks
        /\ fresh' \in BOOLEAN /\ fedInside' \in BOOLEAN /\ crossed' \in BOOLEAN
    BY DEF WdtRestart, Callbacks
  <2> QED
    BY <1>1, <2>1, <2>2, <2>3 DEF WdtTypeOK, Regs
<1>4. \A t \in Threads : ~Inside(t)'
  BY DEF WdtRestart, Inside
<1> QED
  BY <1>1, <1>3, <1>4 DEF WdtInv

LEMMA StutterW == ASSUME WdtInv, UNCHANGED wdtVars PROVE WdtInv'
<1>1. UNCHANGED <<wdt, installed, callback, timeout, todo, call, fresh, fedInside, crossed, age, since>>
  BY DEF wdtVars
<1>2. WdtTypeOK'
  BY <1>1 DEF WdtInv, WdtTypeOK
<1> QED
  BY <1>1, <1>2, WdtAside DEF WdtInv, Carried, Entered, Inside

LEMMA ThreadW == ASSUME WdtInv, NEW t \in Threads, WdtThread(t) PROVE WdtInv'
<1>1. CASE \E ms \in Timeouts, cb \in Callbacks : Install(t, ms, cb)
  BY <1>1, InstallW
<1>2. CASE \E c \in Calls : BeginCall(t, c)
  BY <1>2, BeginW
<1>3. CASE Unlock(t) \/ Check(t) \/ Stop(t) \/ Clear(t) \/ Load(t) \/ Start(t) \/ Lock(t)
  BY <1>3, UnlockW, CheckW, StopW, ClearW, LoadW, StartW, LockW
<1> QED
  BY <1>1, <1>2, <1>3 DEF WdtThread

LEMMA StepW == ASSUME WdtInv, [Next]_vars PROVE WdtInv'
<1>1. ASSUME NEW t \in Threads, ThreadStep(t) PROVE WdtInv'
  BY <1>1, ThreadW, StutterW DEF ThreadStep
<1>2. CASE KernelStep \/ Hang
  BY <1>2, StutterW DEF KernelStep, Hang, wdtVars
<1>3. CASE IsrStep \/ Tick
  BY <1>3, IsrW, CounterW DEF IsrStep, Tick
<1>4. CASE Expire \/ PowerCycle
  BY <1>4, RestartW DEF Expire, PowerCycle, Restart
<1>5. CASE UNCHANGED vars
  BY <1>5, StutterW DEF vars
<1> QED
  BY <1>1, <1>2, <1>3, <1>4, <1>5 DEF Next

-----------------------------------------------------------------------------
(* The board.                                                              *)

LEMMA Invariants == Spec => [](WdtInv /\ BbInv /\ hung \in BOOLEAN)
<1>1. Init => WdtInv /\ BbInv /\ hung \in BOOLEAN
  BY FirstW, InitBb DEF Init
<1>2. WdtInv /\ BbInv /\ hung \in BOOLEAN /\ [Next]_vars => (WdtInv /\ BbInv /\ hung \in BOOLEAN)'
  <2>1. ASSUME hung \in BOOLEAN, [Next]_vars PROVE hung' \in BOOLEAN
    BY <2>1 DEF Next, vars, ThreadStep, KernelStep, IsrStep, Tick, Hang, Expire, PowerCycle, Restart
  <2> QED
    BY <2>1, StepW, StepBb
<1> QED
  BY <1>1, <1>2, PTL DEF Spec

(* The variables of the watchdog, the RAM and the board have their types,  *)
(* and a write to the RAM takes no byte from beyond the data it was given, *)
(* for every number of threads and every size of the counter and the RAM.  *)
THEOREM TypeCorrect == Spec => []TypeOK
<1>1. WdtInv /\ BbInv /\ hung \in BOOLEAN => TypeOK
  <2> SUFFICES ASSUME WdtInv, BbInv, hung \in BOOLEAN PROVE TypeOK
    OBVIOUS
  <2>1. WdtTypeOK /\ BbTypeOK /\ BbControl
    BY DEF WdtInv, BbInv
  <2>2. ASSUME NEW c \in Callers
        PROVE  /\ done[c] \in 0 .. Len(req[c].data)
               /\ bpc[c] = "merge" => done[c] < Len(req[c].data)
    <3>1. Placed(c)
      BY <2>1 DEF BbControl
    <3>2. done[c] \in Nat /\ done[c] <= Len(req[c].data)
      BY <2>1, <3>1, Requests DEF Placed
    <3>3. Len(req[c].data) \in Nat
      BY <2>1, Requests
    <3> QED
      BY <3>1, <3>2, <3>3 DEF Placed
  <2> QED
    BY <2>1, <2>2 DEF TypeOK, WithinData
<1> QED
  BY <1>1, Invariants, PTL

(* What the battery-backed RAM holds is what was last written to it, up to *)
(* a restart at any step of the start-up or of a write                     *)
(* (em32_bbram_write, em32_bbram_init): true of every memory and every set *)
(* of clients and writes.                                                  *)
THEOREM BytesAreKept == Spec => []BytesSurvive
<1>1. BbInv => BytesSurvive
  BY DEF BbInv
<1> QED
  BY <1>1, Invariants, PTL

(* A call of wdt_em32_setup, wdt_em32_feed or wdt_em32_disable that gets   *)
(* as far as its last write has done what it says, whatever the interrupt  *)
(* handler did in between: true of every number of threads whose calls do  *)
(* not overlap, and of every timeout.                                      *)
THEOREM CallsAreEffective == Spec => []CallsTakeEffect
<1>1. WdtInv => CallsTakeEffect
  <2> SUFFICES ASSUME WdtInv, NEW t \in Threads, todo[t] = <<"lock">>, ~crossed
               PROVE  /\ call[t] \in {"feed", "setup"} => fresh
                      /\ call[t] = "setup" => wdt.resen
                      /\ call[t] = "disable" => ~wdt.inten \/ fedInside
    BY DEF CallsTakeEffect
  <2>1. <<"lock">> # <<>> /\ Head(<<"lock">>) = "lock"
    OBVIOUS
  <2>2. Entered(t) /\ Inside(t)
    BY <2>1 DEF Entered, Inside
  <2> QED
    BY <2>2 DEF WdtInv, Carried
<1> QED
  BY <1>1, Invariants, PTL

-----------------------------------------------------------------------------
(* The age of the counter.                                                 *)

(* The bound of the history variables is high enough to count two whole    *)
(* timeouts, of those that fit into the counter.                           *)
AgesSuffice == \A ms \in Timeouts : Scale * ms < Width => 2 * (Scale * ms) <= MaxAge

(* The counts of one timeout.                                              *)
Turn == Scale * timeout

(* What is left in the counter and what has passed since the last feed or  *)
(* setup make up one timeout before the interrupt and two after it; and    *)
(* one since the call in progress began, once it has reloaded the counter. *)
Counted ==
  /\ wdt.inten \/ fresh => wdt.load = Turn
  /\ wdt.inten /\ wdt.ris => wdt.value + age >= 2 * Turn
  /\ wdt.inten /\ ~wdt.ris => wdt.value + age >= Turn /\ (fresh => wdt.value + since >= Turn)

AgeInv ==
  /\ wdt.ris => wdt.inten
  /\ fresh => InCall
  /\ ~installed => /\ ~wdt.inten /\ ~fresh
                   /\ \A t \in Threads : Inside(t) => call[t] = "disable"
  /\ ~crossed /\ Turn < Width => Counted

LEMMA Turns ==
  ASSUME WdtTypeOK, AgesSuffice
  PROVE  Turn \in Nat /\ (Turn < Width => 2 * Turn <= MaxAge /\ LoadValue = Turn)
<1>1. Scale \in Nat \ {0} /\ Width \in Nat \ {0} /\ MaxAge \in Nat /\ timeout \in Timeouts \cup {0} /\ Timeouts \subseteq Nat
  BY WdtAssumption DEF WdtTypeOK
<1>2. Turn \in Nat
  BY <1>1 DEF Turn
<1>3. \A n \in Nat : n < Width => n % Width = n
  BY <1>1
<1>4. timeout = 0 => Turn = 0
  BY <1>1 DEF Turn
<1>5. timeout \in Timeouts /\ Turn < Width => 2 * Turn <= MaxAge
  BY DEF Turn, AgesSuffice
<1> QED
  BY <1>1, <1>2, <1>3, <1>4, <1>5 DEF LoadValue, Turn

LEMMA Numbers ==
  ASSUME WdtInv
  PROVE  /\ wdt \in Regs /\ wdt.value \in Nat /\ wdt.load \in Nat
         /\ age \in 0 .. MaxAge /\ since \in 0 .. MaxAge /\ MaxAge \in Nat
BY WdtAssumption DEF WdtInv, WdtTypeOK, Regs

(* Steps that leave the installed timeout alone. *)
LEMMA AgeMove ==
  ASSUME AgeInv, wdt'.ris => wdt'.inten, UNCHANGED <<installed, timeout>>,
         ~installed => ~wdt'.inten /\ ~fresh', fresh' => InCall',
         \A t \in Threads : Inside(t)' => Inside(t) /\ call'[t] = call[t],
         ~crossed' => ~crossed,
         ~crossed /\ Turn < Width /\ Counted => Counted'
  PROVE  AgeInv'
<1>1. Turn' = Turn
  BY DEF Turn
<1> QED
  BY <1>1 DEF AgeInv

(* A thread's call goes on, or returns.                                    *)
LEMMA GoesOn ==
  ASSUME WdtInv, NEW t \in Threads, Inside(t),
         (Done(t) /\ call' = call) \/ Return(t)
  PROVE  /\ \A u \in Threads : Inside(u)' => Inside(u) /\ call'[u] = call[u]
         /\ Done(t) /\ Head(todo[t]) # "lock" => InCall'
<1>1. todo \in [Threads -> Seq(Ops)] /\ call \in [Threads -> Calls \cup {"none"}]
  BY DEF WdtInv, WdtTypeOK
<1>2. ASSUME Done(t), call' = call PROVE \A u \in Threads : Inside(u)' => Inside(u) /\ call'[u] = call[u]
  BY <1>1, <1>2 DEF Done, Inside
<1>3. ASSUME Return(t) PROVE \A u \in Threads : Inside(u)' => Inside(u) /\ call'[u] = call[u]
  BY <1>1, <1>3 DEF Return, Inside
<1>4. Done(t) /\ Head(todo[t]) # "lock" => InCall'
  BY TailTyped DEF Done, InCall
<1> QED
  BY <1>2, <1>3, <1>4

LEMMA UnlockA == ASSUME WdtInv, AgeInv, NEW t \in Threads, Unlock(t) PROVE AgeInv'
<1>1. /\ Inside(t) /\ Head(todo[t]) = "unlock" /\ Done(t) /\ wdt' = [wdt EXCEPT !.locked = FALSE]
      /\ UNCHANGED <<installed, timeout, call, fresh, crossed, age, since>>
  BY DEF Unlock, At, Inside
<1>2. /\ wdt'.load = wdt.load /\ wdt'.value = wdt.value /\ wdt'.inten = wdt.inten /\ wdt'.ris = wdt.ris
  BY <1>1, Numbers DEF Regs
<1>3. InCall' /\ \A u \in Threads : Inside(u)' => Inside(u) /\ call'[u] = call[u]
  BY <1>1, GoesOn
<1>4. Counted => Counted'
  BY <1>1, <1>2 DEF Counted, Turn
<1> QED
  BY <1>1, <1>2, <1>3, <1>4, AgeMove DEF AgeInv

LEMMA CheckA == ASSUME WdtInv, AgeInv, NEW t \in Threads, Check(t) PROVE AgeInv'
<1>1. Inside(t) /\ UNCHANGED <<wdt, installed, timeout, crossed, age>>
  BY DEF Check, At, Inside
<1>2. (Done(t) /\ call' = call) \/ Return(t)
  BY DEF Check
<1>3. (fresh' = fresh /\ since' = since) \/ ~fresh'
  BY DEF Check, Return
<1>4. \A u \in Threads : Inside(u)' => Inside(u) /\ call'[u] = call[u]
  BY <1>1, <1>2, GoesOn
<1>5. Counted => Counted'
  BY <1>1, <1>3 DEF Counted, Turn
<1>6. (fresh' => fresh) /\ (fresh' => InCall')
  <2>1. CASE Return(t)
    BY <2>1 DEF Return
  <2>2. CASE Done(t) /\ UNCHANGED <<call, fresh, fedInside, since>>
    BY <1>1, <2>2, GoesOn DEF Check, At
  <2> QED
    BY <2>1, <2>2 DEF Check
<1> QED
  BY <1>1, <1>4, <1>5, <1>6, AgeMove DEF AgeInv

LEMMA StopA == ASSUME WdtInv, AgeInv, ~Interrupt, NEW t \in Threads, Stop(t) PROVE AgeInv'
<1>1. /\ Inside(t) /\ Head(todo[t]) = "stop" /\ Done(t) /\ wdt' = PutControl(wdt, FALSE, FALSE)
      /\ UNCHANGED <<installed, timeout, call, fresh, crossed, age, since>>
  BY DEF Stop, At, Inside
<1>2. ~wdt.ris
  BY DEF AgeInv, Interrupt
<1>3. wdt'.load = wdt.load /\ wdt'.ris = wdt.ris /\ (wdt' = wdt \/ ~wdt'.inten)
  BY <1>1, Numbers DEF PutControl, Regs
<1>4. InCall' /\ \A u \in Threads : Inside(u)' => Inside(u) /\ call'[u] = call[u]
  BY <1>1, GoesOn
<1>5. Counted => Counted'
  <2>1. CASE wdt' = wdt
    BY <1>1, <2>1 DEF Counted, Turn
  <2>2. CASE ~wdt'.inten
    BY <1>1, <1>3, <2>2 DEF Counted, Turn
  <2> QED
    BY <1>3, <2>1, <2>2
<1>6. wdt'.inten => wdt.inten
  BY <1>3
<1> QED
  BY <1>1, <1>2, <1>3, <1>4, <1>5, <1>6, AgeMove DEF AgeInv

LEMMA ClearA == ASSUME WdtInv, AgeInv, AgesSuffice, NEW t \in Threads, Clear(t) PROVE AgeInv'
<1>1. /\ Inside(t) /\ Head(todo[t]) = "clear" /\ Done(t) /\ wdt' = PutIntClr(wdt)
      /\ UNCHANGED <<installed, timeout, call, fresh, crossed, age, since>>
  BY DEF Clear, At, Inside
<1>2. /\ wdt'.load = wdt.load /\ wdt'.inten = wdt.inten
      /\ wdt' = wdt \/ (~wdt'.ris /\ wdt'.value = wdt.load)
  BY <1>1, Numbers DEF PutIntClr, Regs
<1>3. InCall' /\ \A u \in Threads : Inside(u)' => Inside(u) /\ call'[u] = call[u]
  BY <1>1, GoesOn
<1>4. Counted => Counted'
  <2>1. CASE wdt' = wdt
    BY <1>1, <2>1 DEF Counted, Turn
  <2>2. CASE ~wdt'.ris /\ wdt'.value = wdt.load
    BY <1>1, <1>2, <2>2, Numbers DEF Counted, Turn
  <2> QED
    BY <1>2, <2>1, <2>2
<1>5. wdt'.ris => wdt.ris
  BY <1>2
<1> QED
  BY <1>1, <1>2, <1>3, <1>4, <1>5, AgeMove DEF AgeInv

LEMMA LoadA == ASSUME WdtInv, AgeInv, AgesSuffice, ~Interrupt, NEW t \in Threads, Load(t) PROVE AgeInv'
<1>1. /\ Inside(t) /\ Head(todo[t]) = "load" /\ Done(t) /\ wdt' = PutLoad(wdt, LoadValue)
      /\ fresh' = (fresh \/ ~wdt.locked)
      /\ UNCHANGED <<installed, timeout, call, crossed, age, since>>
  BY DEF Load, At, Inside
<1>2. /\ wdt'.inten = wdt.inten /\ wdt'.ris = wdt.ris
      /\ (wdt' = wdt /\ fresh' = fresh) \/ (wdt'.load = LoadValue /\ wdt'.value = LoadValue)
  <2>1. CASE wdt.locked
    <3>1. wdt' = wdt
      BY <1>1, <2>1 DEF PutLoad
    <3>2. fresh \in BOOLEAN
      BY DEF WdtInv, WdtTypeOK
    <3>3. fresh' = fresh
      BY <1>1, <2>1, <3>2
    <3> QED
      BY <3>1, <3>3
  <2>2. CASE ~wdt.locked
    BY <1>1, <2>2, Numbers DEF PutLoad, Regs
  <2> QED
    BY <2>1, <2>2
<1>3. InCall' /\ \A u \in Threads : Inside(u)' => Inside(u) /\ call'[u] = call[u]
  BY <1>1, GoesOn
<1>4. Turn < Width /\ Counted => Counted'
  <2>1. CASE wdt' = wdt /\ fresh' = fresh
    BY <1>1, <2>1 DEF Counted, Turn
  <2>2. CASE wdt'.load = LoadValue /\ wdt'.value = LoadValue
    <3>1. ~(wdt'.inten /\ wdt'.ris)
      BY <1>2 DEF Interrupt
    <3>2. Turn' = Turn /\ Turn \in Nat /\ (Turn < Width => LoadValue = Turn)
      BY <1>1, Turns DEF WdtInv, Turn
    <3> QED
      BY <1>1, <2>2, <3>1, <3>2, Numbers DEF Counted
  <2> QED
    BY <1>2, <2>1, <2>2
<1>5. installed
  <2>1. call[t] # "disable"
    BY <1>1, Known DEF Follows
  <2> QED
    BY <1>1, <2>1 DEF AgeInv
<1>6. wdt'.ris => wdt'.inten
  BY <1>2 DEF AgeInv
<1> QED
  BY <1>1, <1>2, <1>3, <1>4, <1>5, <1>6, AgeMove

LEMMA StartA == ASSUME WdtInv, AgeInv, AgesSuffice, ~Interrupt, NEW t \in Threads, Start(t) PROVE AgeInv'
<1>1. /\ Inside(t) /\ Head(todo[t]) = "start" /\ Done(t) /\ wdt' = PutControl(wdt, callback # "none", TRUE)
      /\ UNCHANGED <<installed, timeout, call, fresh, crossed, age, since>>
  BY DEF Start, At, Inside
<1>2. ~wdt.ris
  BY DEF AgeInv, Interrupt
<1>3. /\ wdt'.load = wdt.load /\ wdt'.ris = wdt.ris
      /\ wdt'.inten /\ ~wdt.inten => wdt'.value = wdt.load
      /\ wdt'.inten /\ wdt.inten => wdt'.value = wdt.value
  <2>1. (callback # "none") \in BOOLEAN
    OBVIOUS
  <2> QED
    BY <1>1, <2>1, Numbers DEF PutControl, Regs
<1>4. InCall' /\ \A u \in Threads : Inside(u)' => Inside(u) /\ call'[u] = call[u]
  BY <1>1, GoesOn
<1>5. call[t] = "setup"
  BY <1>1, Known DEF Follows
<1>6. ~crossed => fresh
  BY <1>1, <1>5, Known DEF Carried, Entered
<1>7. ~crossed /\ Counted => Counted'
  <2> SUFFICES ASSUME ~crossed, Counted PROVE Counted'
    OBVIOUS
  <2>1. wdt'.load = Turn /\ Turn' = Turn
    BY <1>1, <1>3, <1>6 DEF Counted, Turn
  <2>2. ~wdt'.ris
    BY <1>2, <1>3
  <2>3. CASE wdt'.inten /\ ~wdt.inten
    <3>1. wdt'.value = Turn
      BY <1>3, <2>1, <2>3
    <3>2. Turn \in Nat /\ age \in Nat /\ since \in Nat
      BY Turns, Numbers DEF WdtInv
    <3>3. Turn + age >= Turn /\ Turn + since >= Turn
      BY <3>2
    <3>4. wdt'.value + age' >= Turn' /\ wdt'.value + since' >= Turn'
      BY <1>1, <2>1, <3>1, <3>3
    <3> QED
      BY <2>1, <2>2, <3>4 DEF Counted
  <2>4. CASE wdt'.inten /\ wdt.inten
    BY <1>1, <1>2, <1>3, <2>1, <2>2, <2>4 DEF Counted
  <2>5. CASE ~wdt'.inten
    BY <2>1, <2>5 DEF Counted
  <2> QED
    BY <2>3, <2>4, <2>5
<1>8. installed
  BY <1>1, <1>5 DEF AgeInv
<1>9. ~wdt'.ris
  BY <1>2, <1>3
<1> QED
  BY <1>1, <1>4, <1>7, <1>8, <1>9, AgeMove

LEMMA LockA == ASSUME WdtInv, AgeInv, ~Interrupt, NEW t \in Threads, Lock(t) PROVE AgeInv'
<1>1. /\ Inside(t) /\ Head(todo[t]) = "lock" /\ Return(t) /\ wdt' = [wdt EXCEPT !.locked = TRUE]
      /\ age' = IF call[t] = "disable" \/ age < since THEN age ELSE since
      /\ UNCHANGED <<installed, timeout, crossed>>
  BY DEF Lock, At, Inside
<1>2. wdt'.load = wdt.load /\ wdt'.value = wdt.value /\ wdt'.inten = wdt.inten /\ wdt'.ris = wdt.ris
  BY <1>1, Numbers DEF Regs
<1>3. \A u \in Threads : Inside(u)' => Inside(u) /\ call'[u] = call[u]
  BY <1>1, GoesOn
<1>4. ~fresh' /\ ~wdt.ris
  BY <1>1 DEF Return, AgeInv, Interrupt
<1>5. ~crossed /\ call[t] # "disable" => fresh
  BY <1>1, Known DEF Follows, Carried, Entered, Calls
<1>6. ~crossed /\ Counted => Counted'
  <2> SUFFICES ASSUME ~crossed, Counted PROVE Counted'
    OBVIOUS
  <2>1. CASE age' = age
    BY <1>1, <1>2, <1>4, <2>1 DEF Counted, Turn
  <2>2. CASE call[t] # "disable" /\ age' = since
    BY <1>1, <1>2, <1>4, <1>5, <2>2 DEF Counted, Turn
  <2> QED
    BY <1>1, <2>1, <2>2
<1> QED
  BY <1>1, <1>2, <1>3, <1>4, <1>6, AgeMove DEF AgeInv

LEMMA InstallA == ASSUME AgeInv, NEW t \in Threads, NEW ms \in Timeouts, NEW cb \in Callbacks, Install(t, ms, cb) PROVE AgeInv'
<1>1. ~installed /\ installed' /\ UNCHANGED <<wdt, todo, call, fresh, crossed, age, since>>
  BY DEF Install
<1>2. ~wdt'.inten /\ ~fresh' /\ ~wdt'.ris
  BY <1>1 DEF AgeInv
<1>3. Counted'
  BY <1>2 DEF Counted
<1> QED
  BY <1>1, <1>2, <1>3 DEF AgeInv

LEMMA BeginA == ASSUME WdtInv, AgeInv, NEW t \in Threads, NEW c \in Calls, BeginCall(t, c) PROVE AgeInv'
<1>1. /\ installed \/ c = "disable"
      /\ call' = [call EXCEPT ![t] = c] /\ todo' = [todo EXCEPT ![t] = Script(c)]
      /\ crossed' = (crossed \/ InCall)
      /\ UNCHANGED <<wdt, installed, timeout, fresh, age, since>>
  BY DEF BeginCall
<1>2. /\ call'[t] = c /\ todo'[t] = Script(c) /\ Script(c) # <<>>
      /\ \A u \in Threads \ {t} : call'[u] = call[u] /\ todo'[u] = todo[u]
  BY <1>1, Starts DEF WdtInv, WdtTypeOK
<1>3. InCall'
  BY <1>2 DEF InCall
<1>4. ~installed => \A u \in Threads : Inside(u)' => call'[u] = "disable"
  BY <1>1, <1>2 DEF AgeInv, Inside
<1>5. Counted' = Counted /\ Turn' = Turn
  BY <1>1 DEF Counted, Turn
<1> QED
  BY <1>1, <1>3, <1>4, <1>5 DEF AgeInv

(* What is cleared or fed has one timeout to run, before an interrupt.     *)
LEMMA Refilled ==
  ASSUME WdtInv, AgesSuffice, AgeInv, wdt.inten, Turn < Width, ~crossed, UNCHANGED <<timeout, since>>,
         age' \in Nat, ~wdt'.ris, wdt'.load = Turn, wdt'.value = Turn
  PROVE  Counted'
<1>1. Turn \in Nat /\ Turn' = Turn /\ since \in Nat
  BY Turns, Numbers DEF WdtInv, Turn
<1>2. \A n \in Nat : Turn + n >= Turn
  BY <1>1
<1>3. Turn + age' >= Turn /\ Turn + since >= Turn
  BY <1>1, <1>2
<1> QED
  BY <1>1, <1>3 DEF Counted

LEMMA IsrA == ASSUME WdtInv, AgeInv, AgesSuffice, WdtIsr PROVE AgeInv'
<1> DEFINE cleared == PutIntClr(wdt)
<1>1. wdt \in Regs /\ wdt.inten /\ wdt.ris /\ installed
  BY Numbers DEF WdtIsr, Interrupt, AgeInv
<1>2. UNCHANGED <<installed, timeout, todo, call, crossed, since>>
  BY DEF WdtIsr
<1>3. /\ cleared \in Regs /\ cleared.load = wdt.load /\ cleared.inten = wdt.inten
      /\ cleared = wdt \/ (~cleared.ris /\ cleared.value = wdt.load)
  BY <1>1 DEF PutIntClr, Regs
<1>4. InCall' = InCall
  BY <1>2 DEF InCall
<1>5. \A u \in Threads : Inside(u)' => Inside(u) /\ call'[u] = call[u]
  BY <1>2 DEF Inside
<1>6. CASE wdt' = cleared /\ UNCHANGED <<fresh, fedInside, age>>
  <2> HIDE DEF cleared
  <2>1. ~crossed /\ Turn < Width /\ Counted => Counted'
    <3> SUFFICES ASSUME ~crossed, Turn < Width, Counted PROVE Counted'
      OBVIOUS
    <3>1. CASE cleared = wdt
      BY <1>2, <1>6, <3>1 DEF Counted, Turn
    <3>2. CASE ~cleared.ris /\ cleared.value = wdt.load
      <4>1. wdt.load = Turn
        BY <1>1 DEF Counted
      <4>2. age' \in Nat
        BY <1>6, Numbers
      <4> QED
        BY <1>1, <1>2, <1>3, <1>6, <3>2, <4>1, <4>2, Refilled
    <3> QED
      BY <1>3, <3>1, <3>2
  <2>2. (wdt'.ris => wdt'.inten) /\ (fresh' => InCall')
    BY <1>1, <1>3, <1>4, <1>6 DEF AgeInv
  <2> QED
    BY <1>1, <1>2, <1>5, <2>1, <2>2, AgeMove
<1>7. CASE wdt' = Feed(cleared) /\ fresh' = InCall /\ fedInside' = InCall /\ age' = 0
  <2> HIDE DEF cleared
  <2>1. wdt'.load = LoadValue /\ wdt'.value = LoadValue /\ wdt'.inten /\ ~wdt'.ris
    <3> DEFINE w1 == [cleared EXCEPT !.locked = FALSE]
               w2 == PutIntClr(w1)
               w3 == PutLoad(w2, LoadValue)
    <3>1. w1 \in Regs /\ ~w1.locked /\ w1.inten
      BY <1>1, <1>3 DEF Regs
    <3> HIDE DEF w1
    <3>2. w2 \in Regs /\ ~w2.locked /\ w2.inten /\ ~w2.ris
      BY <3>1 DEF Regs, PutIntClr
    <3> HIDE DEF w2
    <3>3. LoadValue \in 0 .. Width - 1
      BY Loads DEF WdtInv
    <3>4. w3 \in Regs /\ w3.inten /\ ~w3.ris /\ w3.load = LoadValue /\ w3.value = LoadValue
      BY <3>2, <3>3 DEF Regs, PutLoad
    <3> HIDE DEF w3
    <3>5. wdt' = [w3 EXCEPT !.locked = TRUE]
      BY <1>7 DEF Feed, w1, w2, w3
    <3> QED
      BY <3>4, <3>5 DEF Regs
  <2>2. ~crossed /\ Turn < Width /\ Counted => Counted'
    <3> SUFFICES ASSUME ~crossed, Turn < Width, Counted PROVE Counted'
      OBVIOUS
    <3>1. LoadValue = Turn
      BY Turns DEF WdtInv
    <3>2. age' \in Nat
      BY <1>7
    <3> QED
      BY <1>1, <1>2, <2>1, <3>1, <3>2, Refilled
  <2>3. fresh' => InCall'
    BY <1>4, <1>7
  <2> QED
    BY <1>1, <1>2, <1>5, <2>1, <2>2, <2>3, AgeMove
<1> QED
  BY <1>6, <1>7 DEF WdtIsr

(* A count takes one from the counter and adds one to what has passed,     *)
(* unless the bound of the history says that enough has passed already.    *)
LEMMA CountA == ASSUME WdtInv, AgeInv, AgesSuffice, Count PROVE AgeInv'
<1>1. /\ wdt.inten /\ wdt.value > 0 /\ wdt' = [wdt EXCEPT !.value = @ - 1] /\ Ages
      /\ UNCHANGED <<installed, timeout, todo, call, fresh, crossed>>
  BY DEF Count
<1>2. /\ wdt'.load = wdt.load /\ wdt'.inten = wdt.inten /\ wdt'.ris = wdt.ris
      /\ wdt'.value = wdt.value - 1
  BY <1>1, Numbers DEF Regs
<1>3. InCall' = InCall
  BY <1>1 DEF InCall
<1>4. \A u \in Threads : Inside(u)' => Inside(u) /\ call'[u] = call[u]
  BY <1>1 DEF Inside
<1>5. ASSUME Turn < Width, Counted PROVE Counted'
  <2>1. Turn \in Nat /\ 2 * Turn <= MaxAge
    BY <1>5, Turns DEF WdtInv
  <2>2. age' = age + 1 \/ (age' = MaxAge)
    BY <1>1, Numbers DEF Ages, Older
  <2>3. fresh => since' = since + 1 \/ since' = MaxAge
    BY <1>1, Numbers DEF Ages, Older, AgeInv
  <2>4. Turn' = Turn
    BY <1>1 DEF Turn
  <2> DEFINE v == wdt.value
             w == wdt'.value
             n == Turn
  <2>5. v \in Nat /\ w = v - 1 /\ w \in Nat
    BY <1>1, <1>2, Numbers
  <2>6. n \in Nat /\ 2 * n <= MaxAge /\ age \in Nat /\ since \in Nat /\ MaxAge \in Nat
    BY <2>1, Numbers
  <2> HIDE DEF v, w, n
  <2>7. v + age >= 2 * n => w + age' >= 2 * n
    BY <2>2, <2>5, <2>6
  <2>8. v + age >= n => w + age' >= n
    BY <2>2, <2>5, <2>6
  <2>9. fresh /\ v + since >= n => w + since' >= n
    BY <2>3, <2>5, <2>6
  <2>10. /\ wdt'.inten /\ wdt'.ris => w + age' >= 2 * n
         /\ wdt'.inten /\ ~wdt'.ris => w + age' >= n /\ (fresh' => w + since' >= n)
    BY <1>1, <1>2, <1>5, <2>7, <2>8, <2>9 DEF Counted, v, n
  <2>11. wdt'.inten \/ fresh' => wdt'.load = n
    BY <1>1, <1>2, <1>5 DEF Counted, n
  <2> QED
    BY <2>4, <2>10, <2>11 DEF Counted, w, n
<1>6. (wdt'.ris => wdt'.inten) /\ installed
  BY <1>1, <1>2 DEF AgeInv
<1>7. fresh' => InCall'
  BY <1>1, <1>3 DEF AgeInv
<1> QED
  BY <1>1, <1>4, <1>5, <1>6, <1>7, AgeMove

LEMMA FirstZeroA == ASSUME WdtInv, AgeInv, AgesSuffice, FirstZero PROVE AgeInv'
<1>1. /\ wdt.inten /\ wdt.value = 0 /\ ~wdt.ris /\ wdt' = [wdt EXCEPT !.ris = TRUE, !.value = wdt.load]
      /\ Ages /\ UNCHANGED <<installed, timeout, todo, call, fresh, crossed>>
  BY DEF FirstZero
<1>2. wdt'.load = wdt.load /\ wdt'.inten /\ wdt'.ris /\ wdt'.value = wdt.load
  BY <1>1, Numbers DEF Regs
<1>3. InCall' = InCall
  BY <1>1 DEF InCall
<1>4. \A u \in Threads : Inside(u)' => Inside(u) /\ call'[u] = call[u]
  BY <1>1 DEF Inside
<1>5. ASSUME Turn < Width, Counted PROVE Counted'
  <2>1. Turn \in Nat /\ 2 * Turn <= MaxAge
    BY <1>5, Turns DEF WdtInv
  <2>2. wdt.load = Turn /\ 0 + age >= Turn /\ Turn' = Turn
    BY <1>1, <1>5 DEF Counted, Turn
  <2>3. age' = age + 1 \/ age' = MaxAge
    BY <1>1, Numbers DEF Ages, Older
  <2>4. Turn + age' >= 2 * Turn
    BY <2>1, <2>2, <2>3, Numbers
  <2> QED
    BY <1>2, <2>2, <2>4 DEF Counted
<1>6. installed /\ (fresh' => InCall')
  BY <1>1, <1>3 DEF AgeInv
<1> QED
  BY <1>1, <1>2, <1>4, <1>5, <1>6, AgeMove

LEMMA FirstA == ASSUME WdtInit PROVE AgeInv
<1>1. ~wdt.inten /\ ~wdt.ris /\ ~fresh /\ \A t \in Threads : ~Inside(t)
  BY DEF WdtInit, RegistersAfterInit, Inside
<1> QED
  BY <1>1 DEF AgeInv, Counted

LEMMA RestartA == ASSUME WdtRestart PROVE AgeInv'
<1>1. ~wdt'.inten /\ ~wdt'.ris /\ ~fresh' /\ \A t \in Threads : ~Inside(t)'
  BY DEF WdtRestart, RegistersAfterInit, Inside
<1> QED
  BY <1>1 DEF AgeInv, Counted

LEMMA StutterA == ASSUME AgeInv, UNCHANGED wdtVars PROVE AgeInv'
BY DEF AgeInv, Counted, Turn, Inside, InCall, wdtVars

LEMMA ThreadA == ASSUME WdtInv, AgeInv, AgesSuffice, ~Interrupt, NEW t \in Threads, WdtThread(t) PROVE AgeInv'
<1>1. CASE \E ms \in Timeouts, cb \in Callbacks : Install(t, ms, cb)
  BY <1>1, InstallA
<1>2. CASE \E c \in Calls : BeginCall(t, c)
  BY <1>2, BeginA
<1>3. CASE Unlock(t) \/ Check(t) \/ Stop(t) \/ Clear(t) \/ Load(t) \/ Start(t) \/ Lock(t)
  BY <1>3, UnlockA, CheckA, StopA, ClearA, LoadA, StartA, LockA
<1> QED
  BY <1>1, <1>2, <1>3 DEF WdtThread

LEMMA StepA == ASSUME WdtInv, AgeInv, AgesSuffice, [Next]_vars PROVE AgeInv'
<1>1. ASSUME NEW t \in Threads, ThreadStep(t) PROVE AgeInv'
  BY <1>1, ThreadA, StutterA DEF ThreadStep
<1>2. CASE KernelStep \/ Hang
  BY <1>2, StutterA DEF KernelStep, Hang, wdtVars
<1>3. CASE IsrStep \/ Tick
  BY <1>3, IsrA, CountA, FirstZeroA DEF IsrStep, Tick
<1>4. CASE Expire \/ PowerCycle
  BY <1>4, RestartA DEF Expire, PowerCycle, Restart
<1>5. CASE UNCHANGED vars
  BY <1>5, StutterA DEF vars
<1> QED
  BY <1>1, <1>2, <1>3, <1>4, <1>5 DEF Next

(* The watchdog does not interrupt before a whole timeout has passed since *)
(* the last feed or setup that returned 0 was begun, and does not reset    *)
(* the chip before two have (wdt_em32_setup, wdt_em32_feed, wdt_em32_isr): *)
(* true of every number of threads whose calls do not overlap, of every    *)
(* timeout that fits into the counter, and of every size of the counter.   *)
THEOREM ResetsAreDue == AgesSuffice => (Spec => []NoEarlyReset)
<1> SUFFICES ASSUME AgesSuffice PROVE Spec => []NoEarlyReset
  OBVIOUS
<1>1. Init => AgeInv
  BY FirstA DEF Init
<1>2. WdtInv /\ AgeInv /\ [Next]_vars => AgeInv'
  BY StepA
<1>3. WdtInv /\ AgeInv => NoEarlyReset
  <2> SUFFICES ASSUME WdtInv, AgeInv, ~crossed, Scale * timeout < Width, wdt.inten, wdt.value = 0
               PROVE  IF wdt.ris THEN age >= 2 * Scale * timeout ELSE age >= Scale * timeout
    BY DEF NoEarlyReset
  <2>1. Counted
    BY DEF AgeInv, Turn
  <2>2. IF wdt.ris THEN 0 + age >= 2 * Turn ELSE 0 + age >= Turn
    BY <2>1 DEF Counted
  <2>3. age \in Nat /\ Scale \in Nat /\ timeout \in Nat
    BY Numbers, WdtAssumption DEF WdtInv, WdtTypeOK
  <2>4. 2 * Scale * timeout = 2 * (Scale * timeout) /\ Scale * timeout \in Nat
    BY <2>3
  <2> QED
    BY <2>2, <2>3, <2>4 DEF Turn
<1> QED
  BY <1>1, <1>2, <1>3, Invariants, PTL DEF Spec
=============================================================================
