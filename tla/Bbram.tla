-------------------------------- MODULE Bbram ---------------------------------
(***************************************************************************)
(* The battery-backed RAM driver, drivers/bbram/bbram_em32.c.              *)
(*                                                                         *)
(* A status register and the data registers keep their contents over a     *)
(* restart, the driver's own data do not.  A write opens write access --   *)
(* by writing a test pattern over the last register and putting the old    *)
(* contents back -- replaces its bytes one by one, each by reading and     *)
(* writing a whole register, and closes write access.  A restart may come  *)
(* between any two of these steps, those of the driver's start-up          *)
(* included, and nothing keeps two threads apart.                          *)
(*                                                                         *)
(* Bytes are numbered as clients see them: the status register is not one  *)
(* of them.  Module Board says when the chip restarts.                     *)
(***************************************************************************)
EXTENDS Naturals, Sequences

CONSTANTS
  Users,      (* threads that write                                         *)
  Registers,  (* data registers                                             *)
  RegBytes,   (* bytes of a register                                        *)
  Values,     (* values of a byte                                           *)
  Pattern,    (* the byte of which the test pattern consists                *)
  Lost,       (* the byte that is left when the battery fails               *)
  Writes      (* bound: the writes clients ask for, [at, data]              *)

Byte == 0 .. Registers * RegBytes - 1

ASSUME BbAssumption ==
  /\ Registers \in Nat \ {0} /\ RegBytes \in Nat \ {0}
  /\ {Pattern, Lost} \subseteq Values
  /\ \A w \in Writes : w.at \in Nat /\ w.data \in Seq(Values)

Kernel == "kernel"
ASSUME KernelAssumption == Kernel \notin Users
Callers == Users \cup {Kernel}

VARIABLES
  mem, status,         (* the data registers and the status register        *)
  lossFlag,            (* BDRST: the backup domain was reset                *)
  guarded, dbp,        (* the chip refuses writes unless PWR_CR.DBP is set  *)
  flags, open,         (* status_flags, write_protection_disabled           *)
  domainReset,         (* the local of em32_bbram_init_status               *)
  bpc, req, done, old, (* per caller: where it is, its write, the bytes     *)
                       (* done, the register it has read                    *)
  allowed,             (* history: the values each byte may have            *)
  broken               (* history: two writes overlapped; the test of write *)
                       (* access was fooled                                 *)

bbVars == <<mem, status, lossFlag, guarded, dbp, flags, open, domainReset,
            bpc, req, done, old, allowed, broken>>

NoWrite == [at |-> 0, data |-> <<>>]
NoStatus == [magic |-> FALSE, bits |-> {}]

(* The flags share the low bits of the magic number, which are all set.    *)
Flags == {"valid", "power", "standby"}
StatusWord(f) == [magic |-> TRUE, bits |-> f \cup Flags]

-----------------------------------------------------------------------------
(* Registers.                                                              *)

RegOf(b)   == b \div RegBytes
BytesIn(r) == {b \in Byte : RegOf(b) = r}
Last       == BytesIn(Registers - 1)
Covered(w) == {w.at + i - 1 : i \in 1 .. Len(w.data)}
New(w, b)  == w.data[b - w.at + 1]
Accepts    == ~guarded \/ dbp

(* A write of the bytes of one register. *)
Store(content) ==
  mem' = IF Accepts THEN [b \in Byte |-> IF b \in DOMAIN content THEN content[b] ELSE mem[b]] ELSE mem

BbInit ==
  /\ mem = [b \in Byte |-> Lost] /\ status = NoStatus /\ lossFlag = TRUE
  /\ guarded \in BOOLEAN /\ dbp = FALSE
  /\ flags = {} /\ open = FALSE /\ domainReset = FALSE
  /\ bpc = [c \in Callers |-> IF c = Kernel THEN "boot" ELSE "idle"]
  /\ req = [c \in Callers |-> NoWrite] /\ done = [c \in Callers |-> 0]
  /\ old = [c \in Callers |-> <<>>]
  /\ allowed = [b \in Byte |-> {Lost}]
  /\ broken = {}

GotoB(c, label) == bpc' = [bpc EXCEPT ![c] = label]

-----------------------------------------------------------------------------
(* em32_bbram_enable_write_access, for the driver's start-up and a write.  *)

AfterOpen(c) == IF c = Kernel THEN "status" ELSE "byte"

(* The last register is read and the test pattern written over it. *)
Probe(c) ==
  /\ bpc[c] = "probe"
  /\ old' = [old EXCEPT ![c] = [b \in Last |-> mem[b]]]
  /\ Store([b \in Last |-> Pattern])
  /\ GotoB(c, "restore")
  /\ UNCHANGED <<status, lossFlag, guarded, dbp, flags, open, domainReset, req, done, allowed, broken>>

(* Mutant: the old contents are put back only where the test fails. *)
ProbeRestoreOnFailure(c) ==
  /\ bpc[c] = "restore"
  /\ IF \A b \in Last : mem[b] = Pattern
     THEN UNCHANGED mem /\ open' = TRUE /\ GotoB(c, AfterOpen(c))
     ELSE Store(old[c]) /\ UNCHANGED open /\ GotoB(c, "power")
  /\ UNCHANGED <<status, lossFlag, guarded, dbp, flags, domainReset, req, done, old, allowed, broken>>

(* The pattern is read back and the old contents are restored.  A register *)
(* that held the pattern already passes the test although it refuses       *)
(* writes.                                                                 *)
ProbeRestore(c) ==
  /\ bpc[c] = "restore"
  /\ Store(old[c])
  /\ IF \A b \in Last : mem[b] = Pattern
     THEN /\ open' = TRUE /\ GotoB(c, AfterOpen(c))
          /\ broken' = IF Accepts THEN broken ELSE broken \cup {"fooled"}
     ELSE GotoB(c, "power") /\ UNCHANGED <<open, broken>>
  /\ old' = [old EXCEPT ![c] = <<>>]
  /\ UNCHANGED <<status, lossFlag, guarded, dbp, flags, domainReset, req, done, allowed>>

(* The power domain is told to allow writes; it may not answer in time:    *)
(* then the call fails, and the device with it if this is its start-up.    *)
PowerOpen(c) ==
  /\ bpc[c] = "power"
  /\ \/ dbp' = TRUE /\ open' = TRUE /\ GotoB(c, AfterOpen(c))
        /\ UNCHANGED req
     \/ /\ GotoB(c, IF c = Kernel THEN "dead" ELSE "idle")
        /\ req' = [req EXCEPT ![c] = NoWrite]
        /\ UNCHANGED <<dbp, open>>
  /\ UNCHANGED <<mem, status, lossFlag, guarded, flags, domainReset, done, old, allowed, broken>>

-----------------------------------------------------------------------------
(* em32_bbram_init_status.                                                 *)

Boot ==
  /\ bpc[Kernel] = "boot"
  /\ domainReset' = lossFlag /\ lossFlag' = FALSE
  /\ GotoB(Kernel, "probe")
  /\ UNCHANGED <<mem, status, guarded, dbp, flags, open, req, done, old, allowed, broken>>

InitStatus ==
  /\ bpc[Kernel] = "status"
  /\ IF domainReset \/ ~status.magic
     THEN /\ flags' = {"valid"} \cup (IF domainReset THEN {"power"} ELSE {})
          /\ status' = IF Accepts THEN StatusWord(flags') ELSE status
     ELSE /\ flags' = status.bits
          /\ UNCHANGED status
  /\ domainReset' = FALSE
  /\ GotoB(Kernel, "up")
  /\ UNCHANGED <<mem, lossFlag, guarded, dbp, open, req, done, old, allowed, broken>>

Up == bpc[Kernel] = "up"

(* em32_bbram_check_standby_power, em32_bbram_check_power: a flag that is  *)
(* set is reported and cleared; the register follows only while write      *)
(* access is open.  (em32_bbram_check_invalid never finds its flag clear.) *)
CheckFlag(c, f) ==
  /\ Up /\ bpc[c] = "idle" /\ f \in flags \ {"valid"}
  /\ flags' = flags \ {f}
  /\ status' = IF open /\ Accepts THEN StatusWord(flags') ELSE status
  /\ UNCHANGED <<mem, lossFlag, guarded, dbp, open, domainReset, bpc, req, done, old, allowed, broken>>

-----------------------------------------------------------------------------
(* em32_bbram_write.                                                       *)

BeginWrite(c, w) ==
  /\ Up /\ bpc[c] = "idle"
  /\ w.at + Len(w.data) <= Registers * RegBytes
  /\ req' = [req EXCEPT ![c] = w]
  /\ GotoB(c, IF open THEN "byte" ELSE "probe")
  /\ allowed' = [b \in Byte |-> IF b \in Covered(w) THEN allowed[b] \cup {New(w, b)} ELSE allowed[b]]
  /\ broken' = IF \E d \in Users : bpc[d] # "idle" THEN broken \cup {"overlap"} ELSE broken
  /\ UNCHANGED <<mem, status, lossFlag, guarded, dbp, flags, open, domainReset, done, old>>

Target(c) == req[c].at + done[c]

(* Mutant: the loop goes one byte too far. *)
ReadBytePastEnd(c) ==
  /\ bpc[c] = "byte" /\ done[c] <= Len(req[c].data)
  /\ old' = [old EXCEPT ![c] = [b \in BytesIn(RegOf(Target(c))) |-> mem[b]]]
  /\ GotoB(c, "merge")
  /\ UNCHANGED <<mem, status, lossFlag, guarded, dbp, flags, open, domainReset, req, done, allowed, broken>>

ReadByte(c) ==
  /\ bpc[c] = "byte" /\ done[c] < Len(req[c].data)
  /\ old' = [old EXCEPT ![c] = [b \in BytesIn(RegOf(Target(c))) |-> mem[b]]]
  /\ GotoB(c, "merge")
  /\ UNCHANGED <<mem, status, lossFlag, guarded, dbp, flags, open, domainReset, req, done, allowed, broken>>

WriteByte(c) ==
  /\ bpc[c] = "merge"
  /\ Store([old[c] EXCEPT ![Target(c)] = New(req[c], Target(c))])
  /\ done' = [done EXCEPT ![c] = @ + 1] /\ old' = [old EXCEPT ![c] = <<>>]
  /\ GotoB(c, "byte")
  /\ UNCHANGED <<status, lossFlag, guarded, dbp, flags, open, domainReset, req, allowed, broken>>

(* em32_bbram_disable_write_access, and the return. *)
Close(c) ==
  /\ bpc[c] = "byte" /\ done[c] = Len(req[c].data)
  /\ open' = FALSE
  /\ dbp' = IF open THEN FALSE ELSE dbp
  /\ GotoB(c, "idle")
  /\ allowed' = [b \in Byte |-> IF b \in Covered(req[c]) THEN {New(req[c], b)} ELSE allowed[b]]
  /\ req' = [req EXCEPT ![c] = NoWrite] /\ done' = [done EXCEPT ![c] = 0]
  /\ UNCHANGED <<mem, status, lossFlag, guarded, flags, domainReset, old, broken>>

BbCaller(c) ==
  \/ \E f \in Flags : CheckFlag(c, f)
  \/ \E w \in Writes : BeginWrite(c, w)
  \/ Probe(c) \/ ProbeRestore(c) \/ PowerOpen(c)
  \/ ReadByte(c) \/ WriteByte(c) \/ Close(c)

BbKernel == Boot \/ Probe(Kernel) \/ ProbeRestore(Kernel) \/ PowerOpen(Kernel) \/ InitStatus

-----------------------------------------------------------------------------
(* A restart, with the battery or without.                                 *)

Probing == \E c \in Callers : bpc[c] = "restore"

BbRestart(battery) ==
  /\ IF battery
     THEN /\ UNCHANGED <<mem, status, lossFlag>>
          /\ allowed' = [b \in Byte |-> IF b \in Last /\ Probing THEN allowed[b] \cup {Pattern} ELSE allowed[b]]
     ELSE /\ mem' = [b \in Byte |-> Lost] /\ status' = NoStatus /\ lossFlag' = TRUE
          /\ allowed' = [b \in Byte |-> {Lost}]
  /\ dbp' = FALSE /\ flags' = {} /\ open' = FALSE /\ domainReset' = FALSE
  /\ bpc' = [c \in Callers |-> IF c = Kernel THEN "boot" ELSE "idle"]
  /\ req' = [c \in Callers |-> NoWrite] /\ done' = [c \in Callers |-> 0]
  /\ old' = [c \in Callers |-> <<>>]
  /\ UNCHANGED <<guarded, broken>>

-----------------------------------------------------------------------------
BbTypeOK ==
  /\ mem \in [Byte -> Values] /\ allowed \in [Byte -> SUBSET Values]
  /\ status \in [magic : BOOLEAN, bits : SUBSET Flags] /\ flags \in SUBSET Flags
  /\ lossFlag \in BOOLEAN /\ guarded \in BOOLEAN /\ dbp \in BOOLEAN /\ open \in BOOLEAN
  /\ domainReset \in BOOLEAN /\ broken \in SUBSET {"overlap", "fooled"}
  /\ bpc \in [Callers -> {"boot", "probe", "restore", "power", "status", "up", "dead",
                          "idle", "byte", "merge"}]
  /\ req \in [Callers -> Writes \cup {NoWrite}] /\ done \in [Callers -> Nat]

(* A write takes no byte from beyond its data. *)
WithinData ==
  \A c \in Callers : /\ done[c] \in 0 .. Len(req[c].data)
                     /\ bpc[c] = "merge" => done[c] < Len(req[c].data)

(* Whenever the chip restarts, each byte has the value of the last write   *)
(* that returned, or of one that was cut off later; nothing else touches   *)
(* it.  Not so for the last register: a restart inside the test of write   *)
(* access, at start-up or in any write, leaves the test pattern there.     *)
(* Writes of two threads that overlap lose bytes, and so does, on a chip   *)
(* that guards its registers, a last register that holds the pattern.      *)
BytesSurvive ==
  broken = {} => \A b \in Byte : mem[b] \in allowed[b] \/ (b \in Last /\ Probing /\ mem[b] = Pattern)
=============================================================================
