------------------------------- MODULE SpiEm32 --------------------------------
(***************************************************************************)
(* The EM32 SPI controller driver in interrupt mode:                       *)
(* drivers/spi/spi_em32.c (CONFIG_SPI_EM32_INTERRUPT, no DMA) on top of    *)
(* drivers/spi/spi_context.h (CONFIG_MULTITHREADING, master mode).         *)
(*                                                                         *)
(* Threads call spi_transceive, spi_transceive_async and spi_release; they *)
(* preempt each other anywhere.  The interrupt handler spi_em32_isr        *)
(* preempts them all and moves the words.  Everything they share is in the *)
(* context: the lock and its owner, the configuration the controller was   *)
(* last programmed with, the completion semaphore, the mode and callback   *)
(* of the transfer, its buffers.                                           *)
(*                                                                         *)
(* A configuration is an abstract name; a transfer is the lengths of its   *)
(* TX and RX buffers.  Words have no content.                              *)
(***************************************************************************)
EXTENDS Naturals, Sequences, FiniteSets

CONSTANTS
  Thread,
  Cfg,          (* the struct spi_config objects of the clients             *)
  CfgOf,        (* those each thread uses                                   *)
  LockOn,       (* those with SPI_LOCK_ON                                   *)
  HoldCs,       (* those with SPI_HOLD_ON_CS                                *)
  Unsupported,  (* those spi_em32_configure rejects                         *)
  SpiAsync,     (* CONFIG_SPI_ASYNC                                         *)
  CallModes,    (* which calls the clients make: {FALSE}: synchronous ones  *)
  Transfers,    (* the transfers: [tx, rx] with the lengths of the buffers  *)
  Depth,        (* SSP_FIFO_DEPTH                                           *)
  Trigger,      (* RX FIFO level that raises the RX interrupt               *)
  Boot          (* the configuration spi_em32_init leaves, and `no owner'   *)

ASSUME ClientAssumption ==
  /\ CfgOf \in [Thread -> SUBSET Cfg]
  /\ \A t, u \in Thread : t # u => CfgOf[t] \cap CfgOf[u] = {}
  /\ Boot \notin Cfg \cup Thread
  /\ LockOn \subseteq Cfg /\ HoldCs \subseteq LockOn /\ Unsupported \subseteq Cfg
  /\ SpiAsync \in BOOLEAN
  /\ CallModes \subseteq (IF SpiAsync THEN BOOLEAN ELSE {FALSE})

ASSUME HardwareAssumption ==
  /\ Depth \in Nat \ {0} /\ Trigger \in 1 .. Depth
  /\ \A r \in Transfers : r.tx \in Seq(Nat) /\ r.rx \in Seq(Nat)

VARIABLES
  th,           (* thread: [pc, cfg, async, ret]                            *)
  loop,         (* chunk_len n and i of the thread's spi_em32_async_xfer    *)
  lock,         (* ctx->lock, a semaphore of limit 1                        *)
  owner,        (* ctx->owner                                               *)
  config,       (* ctx->config                                              *)
  sync,         (* ctx->sync, a semaphore of limit 1                        *)
  syncStatus,   (* ctx->sync_status                                         *)
  asynchronous, (* ctx->asynchronous                                        *)
  callback,     (* ctx->callback, by the thread it belongs to               *)
  xfer,         (* the buffers and counts of the transfer in the context    *)
  isr,          (* the interrupt handler: pc, and chunk_len, i as above     *)
  imsc,         (* the interrupts are enabled                               *)
  ror,          (* receive overrun is pending                               *)
  txf, rxf,     (* words in the TX and RX FIFO                              *)
  cs,           (* chip selects, by configuration                           *)
  holds,        (* client: the LOCK_ON configuration it believes to hold    *)
  due,          (* client: callbacks still to come                          *)
  failed        (* history: a word was lost or a wait timed out             *)

ctxVars == <<lock, owner, config, sync, syncStatus, asynchronous, callback>>
hwVars  == <<imsc, ror, txf, rxf>>
usrVars == <<holds, due, failed>>
vars    == <<th, loop, ctxVars, xfer, isr, hwVars, cs, usrVars>>

IdleThread == [pc |-> "idle", cfg |-> Boot, async |-> FALSE, ret |-> "ok"]
NoLoop == [n |-> 0, i |-> 0]
NoXfer == [who |-> Boot, tx |-> <<>>, rx |-> <<>>, txCount |-> 0, rxCount |-> 0,
           words |-> 0, want |-> 0]
NoIsr  == [pc |-> "none", n |-> 0, i |-> 0]

Init ==
  /\ th = [t \in Thread |-> IdleThread] /\ loop = [t \in Thread |-> NoLoop]
  /\ lock = 1 /\ owner = Boot /\ config = Boot
  /\ sync = 0 /\ syncStatus = "ok" /\ asynchronous = FALSE /\ callback = Boot
  /\ xfer = NoXfer /\ isr = NoIsr
  /\ imsc = TRUE /\ ror = FALSE /\ txf = 0 /\ rxf = 0
  /\ cs = [c \in Cfg |-> FALSE]
  /\ holds = [t \in Thread |-> Boot]
  /\ due = [t \in Thread |-> 0]
  /\ failed = FALSE

-----------------------------------------------------------------------------
(* Buffers. *)

Lesser(m, n)  == IF m < n THEN m ELSE n
Greater(m, n) == IF m < n THEN n ELSE m

(* spi_context_get_next_buf skips the empty buffers of a set. *)
NonEmpty(bufs) ==
  LET f[i \in 0 .. Len(bufs)] ==
        IF i = 0 THEN <<>>
        ELSE f[i - 1] \o (IF bufs[i] = 0 THEN <<>> ELSE <<bufs[i]>>)
  IN  f[Len(bufs)]

(* spi_context_max_continuous_chunk *)
Chunk(x) ==
  CASE x.tx = <<>> /\ x.rx = <<>> -> 0
    [] x.tx = <<>> /\ x.rx # <<>> -> Head(x.rx)
    [] x.tx # <<>> /\ x.rx = <<>> -> Head(x.tx)
    [] x.tx # <<>> /\ x.rx # <<>> -> Lesser(Head(x.tx), Head(x.rx))

(* spi_context_update_tx and spi_context_update_rx *)
Update(bufs, n) ==
  CASE bufs = <<>> -> bufs
    [] bufs # <<>> /\ n > Head(bufs) -> bufs
    [] bufs # <<>> /\ n = Head(bufs) -> Tail(bufs)
    [] bufs # <<>> /\ n < Head(bufs) -> <<Head(bufs) - n>> \o Tail(bufs)

Ongoing(x) == x.tx # <<>> \/ x.rx # <<>>

Sum(bufs) ==
  LET s[i \in 0 .. Len(bufs)] == IF i = 0 THEN 0 ELSE bufs[i] + s[i - 1]
  IN  s[Len(bufs)]

-----------------------------------------------------------------------------
(* What the threads and the interrupt handler share. *)

(* owner = NULL and k_sem_give(&ctx->lock) *)
GiveLock == owner' = Boot /\ lock' = 1

(* spi_context_complete *)
Complete(status) ==
  IF SpiAsync /\ asynchronous
  THEN /\ due' = IF callback = Boot THEN due
                 ELSE [due EXCEPT ![callback] = IF @ = 0 THEN 2 ELSE @ - 1]
       /\ IF config \notin LockOn THEN GiveLock ELSE UNCHANGED <<lock, owner>>
       /\ UNCHANGED <<sync, syncStatus>>
  ELSE /\ syncStatus' = status /\ sync' = 1
       /\ UNCHANGED <<due, lock, owner>>

(* spi_em32_async_xfer reads what the RX FIFO holds for this chunk; when   *)
(* the chunk is finished it goes on with the next one or completes.        *)
FinishedByTx(x, n) == n > 0 /\ x.txCount >= n   \* mutant of Finished
Finished(x, n) == n > 0 /\ Lesser(x.txCount, x.rxCount) >= n

NextChunkCounted(x) == x   \* mutant of NextChunk: the counts are not reset
NextChunk(x) == [x EXCEPT !.txCount = 0, !.rxCount = 0]

AfterRead ==
  LET n == Chunk(xfer)
      k == IF xfer.rxCount < n THEN Lesser(rxf, n - xfer.rxCount) ELSE 0
      x == [xfer EXCEPT !.rxCount = @ + k, !.words = @ + k]
      y == [x EXCEPT !.tx = Update(@, n), !.rx = Update(@, n)]
  IN  [taken |-> k,
       done  |-> Finished(x, n) /\ ~Ongoing(y),
       xfer  |-> CASE ~Finished(x, n) -> x
                   [] Finished(x, n) /\ Ongoing(y) -> NextChunk(y)
                   [] Finished(x, n) /\ ~Ongoing(y) -> y]

(* and then writes one word after the other, up to its chunk_len.          *)
MayFillBlind(run) == run.i < Depth /\ xfer.txCount < run.n   \* mutant of MayFill
MayFill(run) == run.i < Depth /\ xfer.txCount < run.n /\ txf < Depth
FillWord == txf' = txf + 1 /\ xfer' = [xfer EXCEPT !.txCount = @ + 1]

-----------------------------------------------------------------------------
(* Who may run.  A pending level interrupt keeps every thread out.         *)

ThreadRuns == isr.pc = "none" /\ ~(imsc /\ (ror \/ rxf >= Trigger))

At(t, pc) == ThreadRuns /\ th[t].pc = pc
Goto(t, pc) == th' = [th EXCEPT ![t].pc = pc]
Return(t, pc, ret) == th' = [th EXCEPT ![t].pc = pc, ![t].ret = ret]

(* A client keeps to one configuration while it holds it, and waits for    *)
(* its callback before it calls again.                                     *)
Call(t) ==
  /\ At(t, "idle") /\ due[t] = 0
  /\ \E c \in CfgOf[t], a \in CallModes :
       /\ holds[t] # Boot => c = holds[t]
       /\ th' = [th EXCEPT ![t].pc = "lock", ![t].cfg = c, ![t].async = a]
  /\ UNCHANGED <<loop, ctxVars, xfer, isr, hwVars, cs, usrVars>>

(* spi_context_lock: already_locked is computed, the semaphore is taken    *)
(* and the mode is written in three steps.                                 *)
LockCheckNever(t) ==   \* mutant of LockCheck: SPI_LOCK_ON is not looked at
  /\ At(t, "lock") /\ Goto(t, "take")
  /\ UNCHANGED <<loop, ctxVars, xfer, isr, hwVars, cs, usrVars>>

LockCheck(t) ==
  /\ At(t, "lock")
  /\ Goto(t, IF th[t].cfg \in LockOn /\ lock = 0 /\ owner = th[t].cfg
             THEN "mode" ELSE "take")
  /\ UNCHANGED <<loop, ctxVars, xfer, isr, hwVars, cs, usrVars>>

LockTakeNoWait(t) ==   \* mutant of LockTake: K_NO_WAIT, the result dropped
  /\ At(t, "take")
  /\ lock' = 0 /\ owner' = th[t].cfg
  /\ Goto(t, "mode")
  /\ UNCHANGED <<loop, config, sync, syncStatus, asynchronous, callback, xfer,
                 isr, hwVars, cs, usrVars>>

LockTake(t) ==
  /\ At(t, "take") /\ lock = 1
  /\ lock' = 0 /\ owner' = th[t].cfg
  /\ Goto(t, "mode")
  /\ UNCHANGED <<loop, config, sync, syncStatus, asynchronous, callback, xfer, isr,
                 hwVars, cs, usrVars>>

LockMode(t) ==
  /\ At(t, "mode")
  /\ IF SpiAsync
     THEN /\ asynchronous' = th[t].async
          /\ callback' = IF th[t].async THEN t ELSE Boot
     ELSE UNCHANGED <<asynchronous, callback>>
  /\ Goto(t, "configure")
  /\ UNCHANGED <<loop, lock, owner, config, sync, syncStatus, xfer, isr, hwVars, cs,
                 usrVars>>

(* spi_em32_configure; the interrupts are opened only when the             *)
(* configuration is not the one the context already has.                   *)
ConfigureReturn(t) ==   \* mutant of Configure: an error returns at once
  LET c == th[t].cfg IN
  /\ At(t, "configure")
  /\ IF c \in Unsupported THEN Goto(t, "idle") /\ UNCHANGED <<config, imsc>>
     ELSE Goto(t, "setup") /\ config' = c /\ imsc' = (imsc \/ config # c)
  /\ UNCHANGED <<loop, lock, owner, sync, syncStatus, asynchronous, callback,
                 xfer, isr, ror, txf, rxf, cs, usrVars>>

Configure(t) ==
  LET c == th[t].cfg IN
  /\ At(t, "configure")
  /\ \/ /\ config = c
        /\ Goto(t, "setup")
        /\ UNCHANGED <<config, imsc>>
     \/ /\ config # c /\ c \in Unsupported
        /\ Return(t, "release", "unsupported")
        /\ UNCHANGED <<config, imsc>>
     \/ /\ config # c /\ c \notin Unsupported
        /\ config' = c /\ imsc' = TRUE
        /\ Goto(t, "setup")
  /\ UNCHANGED <<loop, lock, owner, sync, syncStatus, asynchronous, callback, xfer,
                 isr, ror, txf, rxf, cs, usrVars>>

(* spi_context_buffers_setup; data->tx_count and rx_count stay for now.    *)
Setup(t) ==
  /\ At(t, "setup")
  /\ \E r \in Transfers :
       xfer' = [xfer EXCEPT !.who = t, !.tx = NonEmpty(r.tx),
                            !.rx = NonEmpty(r.rx), !.words = 0,
                            !.want = Greater(Sum(r.tx), Sum(r.rx))]
  /\ syncStatus' = "ok"
  /\ due' = IF th[t].async THEN [due EXCEPT ![t] = 1] ELSE due
  /\ Goto(t, "cson")
  /\ UNCHANGED <<loop, lock, owner, config, sync, asynchronous, callback, isr,
                 hwVars, cs, holds, failed>>

CsOn(t) ==
  /\ At(t, "cson")
  /\ cs' = [cs EXCEPT ![config] = TRUE]
  /\ Goto(t, "drain")
  /\ UNCHANGED <<loop, ctxVars, xfer, isr, hwVars, usrVars>>

(* spi_em32_start_async_xfer: it waits until the TX FIFO is empty, drains  *)
(* the RX FIFO, resets the counts and clears the interrupts;               *)
StartDrain(t) ==
  /\ At(t, "drain") /\ txf = 0
  /\ rxf' = 0 /\ ror' = FALSE
  /\ xfer' = [xfer EXCEPT !.txCount = 0, !.rxCount = 0]
  /\ Goto(t, "read")
  /\ UNCHANGED <<loop, ctxVars, isr, imsc, txf, cs, usrVars>>

(* and then runs spi_em32_async_xfer itself, where the interrupt may       *)
(* preempt it between two words.                                           *)
StartRead(t) ==
  LET r == AfterRead IN
  /\ At(t, "read")
  /\ xfer' = r.xfer /\ rxf' = rxf - r.taken
  /\ Goto(t, IF r.done THEN "wait" ELSE "fill")
  /\ loop' = [loop EXCEPT ![t].n = Chunk(r.xfer)]
  /\ IF r.done THEN Complete("ok") ELSE UNCHANGED <<lock, owner, sync, syncStatus, due>>
  /\ UNCHANGED <<config, asynchronous, callback, isr, imsc, ror, txf, cs, holds,
                 failed>>

StartFill(t) ==
  /\ At(t, "fill")
  /\ IF MayFill(loop[t])
     THEN /\ FillWord
          /\ loop' = [loop EXCEPT ![t].i = @ + 1]
          /\ UNCHANGED th
     ELSE /\ Goto(t, "wait")
          /\ loop' = [loop EXCEPT ![t] = NoLoop]
          /\ UNCHANGED <<txf, xfer>>
  /\ UNCHANGED <<ctxVars, isr, imsc, ror, rxf, cs, usrVars>>

(* spi_context_wait_for_completion looks at the mode in the context.       *)
WaitDoneNever(t) ==   \* mutant of WaitDone: nobody takes the semaphore
  /\ At(t, "wait")
  /\ Return(t, "csoff", IF asynchronous THEN "ok" ELSE syncStatus)
  /\ UNCHANGED <<loop, ctxVars, xfer, isr, hwVars, cs, usrVars>>

WaitDone(t) ==
  /\ At(t, "wait")
  /\ \/ /\ asynchronous
        /\ Return(t, "csoff", "ok")
        /\ UNCHANGED sync
     \/ /\ ~asynchronous /\ sync = 1
        /\ sync' = 0
        /\ Return(t, "csoff", syncStatus)
  /\ UNCHANGED <<loop, lock, owner, config, syncStatus, asynchronous, callback, xfer,
                 isr, hwVars, cs, usrVars>>

WaitTimeout(t) ==
  /\ At(t, "wait") /\ ~asynchronous /\ sync = 0
  /\ Return(t, "csoff", "timeout")
  /\ failed' = TRUE
  /\ UNCHANGED <<loop, ctxVars, xfer, isr, hwVars, cs, holds, due>>

(* spi_context_cs_control(ctx, false) acts on the configuration that is in *)
(* the context now.                                                        *)
CsOff(t) ==
  /\ At(t, "csoff")
  /\ cs' = IF config \in HoldCs THEN cs ELSE [cs EXCEPT ![config] = FALSE]
  /\ Goto(t, "release")
  /\ UNCHANGED <<loop, ctxVars, xfer, isr, hwVars, usrVars>>

(* spi_context_release, with and without CONFIG_SPI_ASYNC.  What the       *)
(* client now believes: that a LOCK_ON configuration is still locked.      *)
ReleaseAlways(t) ==   \* mutant of Release: SPI_LOCK_ON is not looked at
  /\ At(t, "release")
  /\ GiveLock /\ Return(t, "idle", "ok")
  /\ holds' = [holds EXCEPT ![t] = IF th[t].cfg \in LockOn THEN th[t].cfg ELSE Boot]
  /\ UNCHANGED <<loop, config, sync, syncStatus, asynchronous, callback, xfer,
                 isr, hwVars, cs, due, failed>>

Release(t) ==
  /\ At(t, "release")
  /\ IF \/ SpiAsync /\ (~asynchronous \/ th[t].ret # "ok")
        \/ ~SpiAsync /\ config \notin LockOn
     THEN GiveLock
     ELSE UNCHANGED <<lock, owner>>
  /\ Return(t, "idle", "ok")
  /\ holds' = [holds EXCEPT ![t] = IF /\ th[t].cfg \in LockOn
                                      /\ th[t].ret # "unsupported"
                                   THEN th[t].cfg ELSE Boot]
  /\ UNCHANGED <<loop, config, sync, syncStatus, asynchronous, callback, xfer, isr,
                 hwVars, cs, due, failed>>

(* spi_release: spi_context_unlock_unconditionally.                        *)
ApiReleaseHeldCs(t) ==   \* mutant of ApiRelease: force_off is not set
  /\ At(t, "idle") /\ holds[t] # Boot /\ due[t] = 0
  /\ cs' = IF config \in HoldCs \cup {Boot} THEN cs ELSE [cs EXCEPT ![config] = FALSE]
  /\ IF lock = 0 THEN GiveLock ELSE UNCHANGED <<lock, owner>>
  /\ holds' = [holds EXCEPT ![t] = Boot]
  /\ UNCHANGED <<th, loop, config, sync, syncStatus, asynchronous, callback, xfer,
                 isr, hwVars, due, failed>>

ApiRelease(t) ==
  /\ At(t, "idle") /\ holds[t] # Boot /\ due[t] = 0
  /\ cs' = IF config = Boot THEN cs ELSE [cs EXCEPT ![config] = FALSE]
  /\ IF lock = 0 THEN GiveLock ELSE UNCHANGED <<lock, owner>>
  /\ holds' = [holds EXCEPT ![t] = Boot]
  /\ UNCHANGED <<th, loop, config, sync, syncStatus, asynchronous, callback, xfer,
                 isr, hwVars, due, failed>>

-----------------------------------------------------------------------------
(* The interrupt handler. *)

(* Receive overrun: every interrupt is masked and the transfer ends.       *)
IsrOverrun ==
  /\ isr.pc = "none" /\ imsc /\ ror
  /\ imsc' = FALSE
  /\ Complete("io")
  /\ isr' = [isr EXCEPT !.pc = "clear"]
  /\ UNCHANGED <<th, loop, config, asynchronous, callback, xfer, ror, txf, rxf, cs,
                 holds, failed>>

IsrRead ==
  LET r == AfterRead IN
  /\ isr.pc = "none" /\ imsc /\ ~ror /\ rxf > 0
  /\ xfer' = r.xfer /\ rxf' = rxf - r.taken
  /\ isr' = [pc |-> IF r.done THEN "clear" ELSE "fill", n |-> Chunk(r.xfer), i |-> 0]
  /\ IF r.done THEN Complete("ok") ELSE UNCHANGED <<lock, owner, sync, syncStatus, due>>
  /\ UNCHANGED <<th, loop, config, asynchronous, callback, imsc, ror, txf, cs, holds,
                 failed>>

(* The words go out one by one, while the controller shifts.               *)
IsrFill ==
  /\ isr.pc = "fill"
  /\ IF MayFill(isr)
     THEN FillWord /\ isr' = [isr EXCEPT !.i = @ + 1]
     ELSE isr' = [isr EXCEPT !.pc = "clear"] /\ UNCHANGED <<txf, xfer>>
  /\ UNCHANGED <<th, loop, ctxVars, imsc, ror, rxf, cs, usrVars>>

(* The last write clears an overrun that came after the status was read    *)
(* as well.                                                                *)
IsrClear ==
  /\ isr.pc = "clear"
  /\ ror' = FALSE
  /\ isr' = NoIsr
  /\ UNCHANGED <<th, loop, ctxVars, xfer, imsc, txf, rxf, cs, usrVars>>

-----------------------------------------------------------------------------
(* The controller exchanges a word; one received with the FIFO full is     *)
(* lost.                                                                   *)
Shift ==
  /\ txf > 0
  /\ txf' = txf - 1
  /\ IF rxf < Depth THEN rxf' = rxf + 1 /\ UNCHANGED <<ror, failed>>
                    ELSE ror' = TRUE /\ failed' = TRUE /\ UNCHANGED rxf
  /\ UNCHANGED <<th, loop, ctxVars, xfer, isr, imsc, cs, holds, due>>

-----------------------------------------------------------------------------
Transceive(t) ==
  \/ LockCheck(t) \/ LockTake(t) \/ LockMode(t) \/ Configure(t) \/ Setup(t)
  \/ CsOn(t) \/ StartDrain(t) \/ StartRead(t) \/ StartFill(t) \/ WaitDone(t)
  \/ WaitTimeout(t) \/ CsOff(t) \/ Release(t)

Isr == IsrOverrun \/ IsrRead \/ IsrFill \/ IsrClear

Next ==
  \/ \E t \in Thread : Call(t) \/ Transceive(t) \/ ApiRelease(t)
  \/ Isr \/ Shift

Spec == Init /\ [][Next]_vars

(* The controller shifts on, the interrupt is taken, and a thread that can *)
(* go on does so in the end: the semaphores queue their waiters.  A client *)
(* releases what it holds.                                                 *)
Fairness ==
  /\ WF_vars(Isr) /\ WF_vars(Shift)
  /\ \A t \in Thread : SF_vars(Transceive(t)) /\ SF_vars(ApiRelease(t))

FairSpec == Spec /\ Fairness

-----------------------------------------------------------------------------
Pcs == {"idle", "lock", "take", "mode", "configure", "setup", "cson", "drain",
        "read", "fill", "wait", "csoff", "release"}

TypeOK ==
  /\ th \in [Thread -> [pc : Pcs, cfg : Cfg \cup {Boot}, async : BOOLEAN,
                        ret : {"ok", "io", "timeout", "unsupported"}]]
  /\ loop \in [Thread -> [n : Nat, i : 0 .. Depth]]
  /\ lock \in {0, 1} /\ owner \in Cfg \cup {Boot} /\ config \in Cfg \cup {Boot}
  /\ sync \in {0, 1} /\ syncStatus \in {"ok", "io"}
  /\ asynchronous \in BOOLEAN /\ callback \in Thread \cup {Boot}
  /\ xfer \in [who : Thread \cup {Boot}, tx : Seq(Nat), rx : Seq(Nat),
               txCount : Nat, rxCount : Nat, words : Nat, want : Nat]
  /\ isr \in [pc : {"none", "fill", "clear"}, n : Nat, i : 0 .. Depth]
  /\ imsc \in BOOLEAN /\ ror \in BOOLEAN
  /\ txf \in 0 .. Depth /\ rxf \in 0 .. Depth
  /\ cs \in [Cfg -> BOOLEAN]
  /\ holds \in [Thread -> Cfg \cup {Boot}]
  /\ due \in [Thread -> 0 .. 2]
  /\ failed \in BOOLEAN

Inside(t) == th[t].pc \notin {"idle", "lock", "take"}

(* Only one thread at a time programs the controller, and the lock says so: *)
(* spi_context_lock to spi_context_release.                                 *)
Exclusive ==
  /\ \A t, u \in Thread : Inside(t) /\ Inside(u) => t = u
  /\ \A t \in Thread : Inside(t) => lock = 0 /\ owner = th[t].cfg

(* "Except in the case that the SPI_LOCK_ON bit was set": between the calls *)
(* of a client that locked the bus nobody else gets in.                     *)
LockOnHeld ==
  \A t \in Thread : holds[t] # Boot =>
    /\ lock = 0 /\ owner = holds[t]
    /\ \A u \in Thread : Inside(u) => u = t

(* The lock is never lost: when it is taken, somebody is inside, or an      *)
(* asynchronous transfer is in flight, or its owner locked the bus -- or    *)
(* spi_context_release looked at the configuration of an earlier client     *)
(* that had locked the bus.                                                 *)
LockAccounted ==
  lock = 0 => \/ \E t \in Thread : Inside(t) \/ due[t] = 1
              \/ owner \in LockOn
              \/ config \in LockOn

(* A synchronous call that reports success has exchanged every word of its  *)
(* buffers, unless an earlier transfer had failed.                          *)
SuccessMeansMoved ==
  \A t \in Thread :
    th[t].pc \in {"csoff", "release"} /\ ~th[t].async /\ th[t].ret = "ok" =>
      \/ xfer.who = t /\ ~Ongoing(xfer) /\ xfer.words = xfer.want
      \/ failed

(* "that the chip select be asserted throughout the entire transfer": while *)
(* words are in the TX FIFO, the chip they are for is selected.             *)
CsCoversTransfer == txf > 0 /\ ~failed => cs[config]

(* The same without the exception: "this will block waiting for a signal    *)
(* from spi_context_complete" (spi_context.h:173).                          *)
SuccessMeansDone ==
  \A t \in Thread :
    th[t].pc \in {"csoff", "release"} /\ ~th[t].async /\ th[t].ret = "ok" =>
      xfer.who = t /\ ~Ongoing(xfer)

(* No two chips are selected at once.                                       *)
OneChipSelected == \A c, d \in Cfg : cs[c] /\ cs[d] => c = d

(* A client whose asynchronous call returned without error gets its         *)
(* callback once, and not before; after an overrun the interrupt handler    *)
(* may still walk the buffers of the transfer it ended.                     *)
CallbackOnce == failed \/ \A t \in Thread : due[t] # 2

(* The bus is free only when its last transfer is over: no words are left   *)
(* to exchange and no client waits for a callback.                          *)
FreeMeansDone ==
  lock = 1 => /\ \A t \in Thread : due[t] = 0
              /\ ~failed => ~Ongoing(xfer) /\ txf = 0

(* A callback that is due comes, unless an overrun has masked the           *)
(* interrupts.                                                              *)
CallbackComes == \A t \in Thread : due[t] = 1 ~> (due[t] # 1 \/ failed)

(* Every call returns, unless the lock leaked or a transfer failed.         *)
Leaked == lock = 0 /\ owner \notin LockOn /\ \A t \in Thread : ~Inside(t)
CallReturns ==
  \A t \in Thread : th[t].pc = "lock" ~> (th[t].pc = "idle" \/ Leaked \/ failed)
=============================================================================
