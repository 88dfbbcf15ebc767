---------------------------- MODULE SpiEm32_proofs ----------------------------
(***************************************************************************)
(* The lock of the SPI context, for any number of threads and              *)
(* configurations, without CONFIG_SPI_ASYNC.                                *)
(*                                                                         *)
(* The three invariants are not inductive.  Holder adds what they rest on: *)
(* the owner is a configuration of the thread inside, no two threads share *)
(* one, and the context has the configuration of the thread inside from    *)
(* spi_em32_configure on, which is why spi_context_release may test it.    *)
(***************************************************************************)
EXTENDS SpiEm32, TLAPS

Rets == {"ok", "io", "timeout", "unsupported"}

Typed ==
  /\ th \in [Thread -> [pc : Pcs, cfg : Cfg \cup {Boot}, async : BOOLEAN, ret : Rets]]
  /\ holds \in [Thread -> Cfg \cup {Boot}]
  /\ syncStatus \in {"ok", "io"}
  /\ lock \in {0, 1}

Configured(t) ==
  \/ th[t].pc \in {"idle", "lock", "take", "mode", "configure"}
  \/ th[t].pc = "release" /\ th[t].ret = "unsupported"
  \/ config = th[t].cfg

(* What holds of each thread. *)
Holder(t) ==
  /\ th[t].pc # "idle" => th[t].cfg \in CfgOf[t] /\ holds[t] \in {Boot, th[t].cfg}
  /\ Inside(t) => lock = 0 /\ owner = th[t].cfg
  /\ holds[t] # Boot => lock = 0 /\ owner = holds[t] /\ holds[t] \in CfgOf[t]
  /\ Configured(t)

Taken == lock = 0 => (\E t \in Thread : Inside(t)) \/ config \in LockOn

LockInv == Typed /\ (\A t \in Thread : Holder(t)) /\ Taken

(* The lock belongs to one thread: owner is a configuration of it alone.   *)
LEMMA OneHolder ==
  ASSUME LockInv, NEW t \in Thread, NEW u \in Thread,
         Inside(t) \/ holds[t] # Boot, Inside(u) \/ holds[u] # Boot
  PROVE  t = u
<1>1. owner \in CfgOf[t] /\ owner \in CfgOf[u]
  BY DEF LockInv, Holder, Inside
<1> QED
  BY <1>1, ClientAssumption

LEMMA LockInvInit == Init => LockInv
  BY ClientAssumption
  DEF Init, LockInv, Typed, Holder, Taken, Inside, Configured, IdleThread, Pcs, Rets

(* Without CONFIG_SPI_ASYNC the interrupt handler leaves the lock alone.    *)
LEMMA IsrKeepsLock ==
  ASSUME ~SpiAsync, LockInv, Isr \/ Shift
  PROVE  /\ UNCHANGED <<th, lock, owner, config, holds>>
         /\ syncStatus' \in {"ok", "io"}
  BY DEF LockInv, Typed, Isr, Shift, IsrOverrun, IsrRead, IsrFill, IsrClear, Complete,
         ctxVars, hwVars, usrVars

(* A step of t that keeps it inside and writes none of lock, owner, config  *)
(* and holds.                                                               *)
StaysInside(t) ==
  /\ Inside(t) /\ Inside(t)' /\ Configured(t)'
  /\ th'[t].cfg = th[t].cfg
  /\ \A u \in Thread \ {t} : th'[u] = th[u]
  /\ UNCHANGED <<lock, owner, config, holds>>

LEMMA StaysInsideStep ==
  ASSUME LockInv, NEW t \in Thread, StaysInside(t), Typed'
  PROVE  LockInv'
<1>1. ASSUME NEW u \in Thread PROVE Holder(u)'
  <2>1. CASE u = t
    BY <2>1 DEF StaysInside, LockInv, Holder, Inside
  <2>2. CASE u # t
    <3>1. th'[u] = th[u]
      BY <2>2 DEF StaysInside
    <3> QED
      BY <3>1 DEF StaysInside, LockInv, Holder, Inside, Configured
  <2> QED
    BY <2>1, <2>2
<1>2. Taken'
  BY DEF Taken, StaysInside
<1> QED
  BY <1>1, <1>2 DEF LockInv

(* The steps of a call between spi_em32_configure and spi_context_release.  *)
LEMMA TransferSteps ==
  ASSUME ~SpiAsync, LockInv, NEW t \in Thread,
         \/ Setup(t) \/ CsOn(t) \/ StartDrain(t) \/ StartRead(t) \/ StartFill(t)
         \/ WaitDone(t) \/ WaitTimeout(t) \/ CsOff(t)
  PROVE  LockInv'
<1> USE DEF At, Goto, Return, ctxVars, hwVars, usrVars
<1> DEFINE Middle == {"setup", "cson", "drain", "read", "fill", "wait", "csoff"}
<1>1. syncStatus' \in {"ok", "io"}
  BY DEF Setup, CsOn, StartDrain, StartRead, StartFill, WaitDone, WaitTimeout, CsOff,
         Complete, LockInv, Typed
<1>2. th[t].pc \in Middle
  BY DEF Setup, CsOn, StartDrain, StartRead, StartFill, WaitDone, WaitTimeout, CsOff
<1>3. UNCHANGED <<lock, owner, config, holds>>
  BY DEF Setup, CsOn, StartDrain, StartRead, StartFill, WaitDone, WaitTimeout, CsOff,
         Complete
<1>4. config = th[t].cfg /\ Inside(t)
  BY <1>2 DEF LockInv, Holder, Configured, Inside
<1>5. th \in [Thread -> [pc : Pcs, cfg : Cfg \cup {Boot}, async : BOOLEAN, ret : Rets]]
  BY DEF LockInv, Typed
<1>6. \E pc \in Middle \cup {"release"}, ret \in Rets :
        th' = [th EXCEPT ![t] = [pc |-> pc, cfg |-> th[t].cfg, async |-> th[t].async,
                                 ret |-> ret]]
  <2> DEFINE Becomes(pc, ret) ==
        th' = [th EXCEPT ![t] = [pc |-> pc, cfg |-> th[t].cfg, async |-> th[t].async,
                                 ret |-> ret]]
  <2>0. th[t] \in [pc : Pcs, cfg : Cfg \cup {Boot}, async : BOOLEAN, ret : Rets]
    BY <1>5
  <2>1. ASSUME NEW pc, Goto(t, pc) PROVE Becomes(pc, th[t].ret)
    <3>1. th' = [th EXCEPT ![t] = [th[t] EXCEPT !.pc = pc]]
      BY <1>5, <2>1
    <3>2. [th[t] EXCEPT !.pc = pc]
            = [pc |-> pc, cfg |-> th[t].cfg, async |-> th[t].async, ret |-> th[t].ret]
      BY <2>0
    <3> QED
      BY <3>1, <3>2
  <2>2. ASSUME NEW pc, NEW ret, Return(t, pc, ret) PROVE Becomes(pc, ret)
    <3>1. th' = [th EXCEPT ![t] = [th[t] EXCEPT !.pc = pc, !.ret = ret]]
      BY <1>5, <2>2
    <3> DEFINE r == [th[t] EXCEPT !.pc = pc]
    <3>2. r = [pc |-> pc, cfg |-> th[t].cfg, async |-> th[t].async, ret |-> th[t].ret]
      BY <2>0
    <3> HIDE DEF r
    <3>3. [r EXCEPT !.ret = ret]
            = [pc |-> pc, cfg |-> th[t].cfg, async |-> th[t].async, ret |-> ret]
      BY <3>2
    <3> USE DEF r
    <3> QED
      BY <3>1, <3>3
  <2>3. ASSUME UNCHANGED th PROVE Becomes(th[t].pc, th[t].ret)
    BY <1>5, <2>3
  <2>4. th[t].ret \in Rets /\ syncStatus \in Rets /\ {"ok", "timeout"} \subseteq Rets
    BY <1>5 DEF LockInv, Typed, Rets
  <2>5. \/ Goto(t, "cson") \/ Goto(t, "drain") \/ Goto(t, "read") \/ Goto(t, "wait")
        \/ Goto(t, "fill") \/ Goto(t, "release") \/ UNCHANGED th
        \/ Return(t, "csoff", "ok") \/ Return(t, "csoff", syncStatus)
        \/ Return(t, "csoff", "timeout")
    <3> USE DEF Setup, CsOn, StartDrain, StartFill, WaitDone, WaitTimeout, CsOff
    <3>1. CASE StartRead(t)
      BY <3>1 DEF StartRead
    <3> QED
      BY <3>1
  <2> HIDE DEF Becomes, Goto, Return
  <2>6. Middle = {"setup", "cson", "drain", "read", "fill", "wait", "csoff"}
    OBVIOUS
  <2> HIDE DEF Middle
  <2>7. \E pc \in Middle \cup {"release"}, ret \in Rets : Becomes(pc, ret)
    BY <1>2, <2>1, <2>2, <2>3, <2>4, <2>5, <2>6
  <2> QED
    BY <2>7 DEF Becomes
<1>7. PICK pc \in Middle \cup {"release"}, ret \in Rets :
        th' = [th EXCEPT ![t] = [pc |-> pc, cfg |-> th[t].cfg, async |-> th[t].async,
                                 ret |-> ret]]
  BY <1>6
<1>8. th'[t].pc = pc /\ th'[t].cfg = th[t].cfg
      /\ \A u \in Thread \ {t} : th'[u] = th[u]
  BY <1>5, <1>7
<1>9. StaysInside(t)
  BY <1>3, <1>4, <1>8 DEF StaysInside, Inside, Configured
<1>10. Typed'
  <2>1. Middle \cup {"release"} \subseteq Pcs
    BY DEF Pcs
  <2> HIDE DEF Middle
  <2> QED
    BY <1>1, <1>3, <1>5, <1>7, <2>1 DEF LockInv, Typed
<1> QED
  BY <1>9, <1>10, StaysInsideStep

(* The steps of spi_context_lock, Configure, Release and the client's own   *)
(* steps, each with the change of th spelt out.                             *)
LEMMA CallStep ==
  ASSUME LockInv, NEW t \in Thread, Call(t)
  PROVE  LockInv'
<1>1. PICK c \in CfgOf[t], a \in CallModes :
        /\ holds[t] # Boot => c = holds[t]
        /\ th' = [th EXCEPT ![t].pc = "lock", ![t].cfg = c, ![t].async = a]
  BY DEF Call
<1>2. c \in Cfg /\ a \in BOOLEAN
  BY ClientAssumption
<1>3. th[t].pc = "idle" /\ UNCHANGED <<lock, owner, config, holds, syncStatus>>
  BY DEF Call, At, ctxVars, usrVars
<1>4. th'[t].pc = "lock" /\ th'[t].cfg = c /\ \A u \in Thread \ {t} : th'[u] = th[u]
  BY <1>1 DEF LockInv, Typed
<1>5. Typed'
  <2> DEFINE Th == [pc : Pcs, cfg : Cfg \cup {Boot}, async : BOOLEAN, ret : Rets]
  <2>1. th[t] \in Th
    BY DEF LockInv, Typed
  <2>2. "lock" \in Pcs
    BY DEF Pcs
  <2>3. [th[t] EXCEPT !.pc = "lock", !.cfg = c, !.async = a] \in Th
    BY <1>2, <2>1, <2>2
  <2>4. th' = [th EXCEPT ![t] = [th[t] EXCEPT !.pc = "lock", !.cfg = c, !.async = a]]
    BY <1>1 DEF LockInv, Typed
  <2> HIDE DEF Th
  <2>5. th' \in [Thread -> Th]
    BY <2>3, <2>4 DEF LockInv, Typed, Th
  <2> QED
    BY <1>3, <2>5 DEF LockInv, Typed, Th
<1>6. ASSUME NEW u \in Thread PROVE Holder(u)'
  <2>1. CASE u = t
    BY <2>1, <1>1, <1>3, <1>4 DEF LockInv, Holder, Inside, Configured
  <2>2. CASE u # t
    <3>1. th'[u] = th[u]
      BY <1>4, <2>2
    <3> QED
      BY <3>1, <1>3 DEF LockInv, Holder, Inside, Configured
  <2> QED
    BY <2>1, <2>2
<1>7. Taken'
  <2>1. \A u \in Thread : Inside(u) => Inside(u)'
    BY <1>3, <1>4 DEF Inside
  <2> QED
    BY <2>1, <1>3 DEF LockInv, Taken
<1> QED
  BY <1>5, <1>6, <1>7 DEF LockInv

LEMMA LockSteps ==
  ASSUME ~SpiAsync, LockInv, NEW t \in Thread,
         LockCheck(t) \/ LockTake(t) \/ LockMode(t)
  PROVE  LockInv'
<1> USE DEF At, Goto, ctxVars, usrVars
<1>1. UNCHANGED <<config, holds, syncStatus>>
  BY DEF LockCheck, LockTake, LockMode
<1>2. PICK pc \in {"take", "mode", "configure"} : th' = [th EXCEPT ![t].pc = pc]
  BY DEF LockCheck, LockTake, LockMode
<1>3. th'[t].pc = pc /\ th'[t].cfg = th[t].cfg /\ \A u \in Thread \ {t} : th'[u] = th[u]
  BY <1>2 DEF LockInv, Typed
<1>4. lock' \in {0, 1}
  BY DEF LockCheck, LockTake, LockMode, LockInv, Typed
<1>5. Typed'
  <2>1. pc \in Pcs
    BY DEF Pcs
  <2>2. th' \in [Thread -> [pc : Pcs, cfg : Cfg \cup {Boot}, async : BOOLEAN, ret : Rets]]
    BY <1>2, <2>1 DEF LockInv, Typed
  <2> QED
    BY <1>1, <1>4, <2>2 DEF LockInv, Typed
<1>6. CASE LockCheck(t)
  <2>1. th[t].pc = "lock" /\ UNCHANGED <<lock, owner>>
        /\ (pc # "take" => lock = 0 /\ owner = th[t].cfg)
    BY <1>3, <1>6 DEF LockCheck, LockInv, Typed
  <2>2. ASSUME NEW u \in Thread PROVE Holder(u)'
    <3>1. CASE u = t
      BY <3>1, <1>1, <1>3, <2>1 DEF LockInv, Holder, Inside, Configured
    <3>2. CASE u # t
      <4>1. th'[u] = th[u]
        BY <1>3, <3>2
      <4> QED
        BY <4>1, <1>1, <2>1 DEF LockInv, Holder, Inside, Configured
    <3> QED
      BY <3>1, <3>2
  <2>3. \A u \in Thread : Inside(u) => Inside(u)'
    BY <1>3, <2>1 DEF Inside
  <2> QED
    BY <1>1, <1>5, <2>1, <2>2, <2>3 DEF LockInv, Taken
<1>7. CASE LockTake(t)
  <2>1. lock = 1 /\ lock' = 0 /\ owner' = th[t].cfg /\ pc = "mode" /\ th[t].pc = "take"
    BY <1>3, <1>7 DEF LockTake, LockInv, Typed
  <2>2. ASSUME NEW u \in Thread PROVE Holder(u)'
    <3>1. CASE u = t
      BY <3>1, <1>1, <1>3, <2>1 DEF LockInv, Holder, Inside, Configured
    <3>2. CASE u # t
      <4>1. th'[u] = th[u]
        BY <1>3, <3>2
      <4> QED
        BY <4>1, <1>1, <2>1 DEF LockInv, Holder, Inside, Configured
    <3> QED
      BY <3>1, <3>2
  <2>3. Inside(t)'
    BY <1>3, <2>1 DEF Inside
  <2> QED
    BY <1>5, <2>2, <2>3 DEF LockInv, Taken
<1>8. CASE LockMode(t)
  <2>1. th[t].pc = "mode" /\ pc = "configure" /\ UNCHANGED <<lock, owner>>
    BY <1>3, <1>8 DEF LockMode, LockInv, Typed
  <2>2. StaysInside(t)
    BY <1>1, <1>3, <2>1 DEF StaysInside, Inside, Configured
  <2> QED
    BY <1>5, <2>2, StaysInsideStep
<1> QED
  BY <1>6, <1>7, <1>8

LEMMA ConfigureStep ==
  ASSUME LockInv, NEW t \in Thread, Configure(t)
  PROVE  LockInv'
<1> USE DEF At, Goto, Return, usrVars
<1>1. th[t].pc = "configure" /\ UNCHANGED <<lock, owner, holds, syncStatus>>
  BY DEF Configure
<1>2. Inside(t) /\ th[t].cfg \in Cfg
  BY <1>1, ClientAssumption DEF Inside, LockInv, Holder
<1>3. /\ th'[t].cfg = th[t].cfg
      /\ \/ th'[t].pc = "setup" /\ config' = th[t].cfg
         \/ th'[t].pc = "release" /\ th'[t].ret = "unsupported" /\ config' = config
      /\ \A u \in Thread \ {t} : th'[u] = th[u]
  BY DEF Configure, LockInv, Typed
<1>4. th' \in [Thread -> [pc : Pcs, cfg : Cfg \cup {Boot}, async : BOOLEAN, ret : Rets]]
  <2>1. CASE Goto(t, "setup")
    BY <2>1 DEF LockInv, Typed, Pcs
  <2>2. CASE Return(t, "release", "unsupported")
    BY <2>2 DEF LockInv, Typed, Pcs, Rets
  <2> QED
    BY <2>1, <2>2 DEF Configure
<1>5. Typed'
  BY <1>1, <1>4 DEF LockInv, Typed
<1>6. ASSUME NEW u \in Thread PROVE Holder(u)'
  <2>1. CASE u = t
    BY <2>1, <1>1, <1>2, <1>3 DEF LockInv, Holder, Inside, Configured
  <2>2. CASE u # t
    <3>1. th'[u] = th[u] /\ ~Inside(u)
      BY <1>2, <1>3, <2>2, OneHolder
    <3> QED
      BY <3>1, <1>1 DEF LockInv, Holder, Inside, Configured
  <2> QED
    BY <2>1, <2>2
<1>7. Inside(t)'
  BY <1>3 DEF Inside
<1> QED
  BY <1>5, <1>6, <1>7 DEF LockInv, Taken

(* While the lock is given back nobody else can be inside or hold it, and  *)
(* it is kept exactly when the context's configuration locks the bus.      *)
LEMMA ReleaseStep ==
  ASSUME ~SpiAsync, LockInv, NEW t \in Thread, Release(t)
  PROVE  LockInv'
<1>1. /\ th[t].pc = "release" /\ Inside(t)
      /\ th' = [th EXCEPT ![t].pc = "idle", ![t].ret = "ok"]
      /\ UNCHANGED <<config, syncStatus>>
      /\ holds' = [holds EXCEPT ![t] = IF th[t].cfg \in LockOn /\ th[t].ret # "unsupported"
                                       THEN th[t].cfg ELSE Boot]
      /\ IF config \notin LockOn THEN owner' = Boot /\ lock' = 1 ELSE UNCHANGED <<lock, owner>>
  BY DEF Release, At, Return, GiveLock, Inside
<1>2. lock = 0 /\ owner = th[t].cfg /\ th[t].cfg \in CfgOf[t] /\ th[t].cfg \in Cfg
  BY <1>1, ClientAssumption DEF LockInv, Holder, Inside
<1>3. th[t].ret # "unsupported" => config = th[t].cfg
  BY <1>1 DEF LockInv, Holder, Configured
<1>4. /\ th'[t].pc = "idle" /\ \A u \in Thread \ {t} : th'[u] = th[u]
      /\ holds'[t] \in {Boot, th[t].cfg} /\ \A u \in Thread \ {t} : holds'[u] = holds[u]
      /\ holds'[t] # Boot => config \in LockOn
  BY <1>1, <1>3 DEF LockInv, Typed
<1>5. Typed'
  <2>1. th \in [Thread -> [pc : Pcs, cfg : Cfg \cup {Boot}, async : BOOLEAN, ret : Rets]]
        /\ holds \in [Thread -> Cfg \cup {Boot}]
    BY DEF LockInv, Typed
  <2>2. "idle" \in Pcs /\ "ok" \in Rets
    BY DEF Pcs, Rets
  <2> DEFINE r == [th[t] EXCEPT !.pc = "idle", !.ret = "ok"]
             h == IF th[t].cfg \in LockOn /\ th[t].ret # "unsupported" THEN th[t].cfg ELSE Boot
  <2>3. r \in [pc : Pcs, cfg : Cfg \cup {Boot}, async : BOOLEAN, ret : Rets] /\ h \in Cfg \cup {Boot}
    BY <1>2, <2>1, <2>2
  <2>4. th' = [th EXCEPT ![t] = r] /\ holds' = [holds EXCEPT ![t] = h]
    BY <1>1
  <2> HIDE DEF r, h
  <2>5. th' \in [Thread -> [pc : Pcs, cfg : Cfg \cup {Boot}, async : BOOLEAN, ret : Rets]]
        /\ holds' \in [Thread -> Cfg \cup {Boot}]
    BY <2>1, <2>3, <2>4
  <2>6. syncStatus' \in {"ok", "io"} /\ lock' \in {0, 1}
    BY <1>1 DEF LockInv, Typed
  <2> QED
    BY <2>5, <2>6 DEF Typed
<1>6. ASSUME NEW u \in Thread PROVE Holder(u)'
  <2>1. CASE u = t
    BY <2>1, <1>1, <1>2, <1>4 DEF Holder, Inside, Configured
  <2>2. CASE u # t
    <3>1. th'[u] = th[u] /\ holds'[u] = holds[u] /\ ~Inside(u) /\ holds[u] = Boot
      BY <1>1, <1>4, <2>2, OneHolder
    <3> QED
      BY <3>1, <1>1 DEF LockInv, Holder, Inside, Configured
  <2> QED
    BY <2>1, <2>2
<1>7. Taken'
  BY <1>1 DEF Taken
<1> QED
  BY <1>5, <1>6, <1>7 DEF LockInv

LEMMA ApiReleaseStep ==
  ASSUME LockInv, NEW t \in Thread, ApiRelease(t)
  PROVE  LockInv'
<1>1. /\ th[t].pc = "idle" /\ holds[t] # Boot /\ UNCHANGED <<th, config, syncStatus>>
      /\ holds' = [holds EXCEPT ![t] = Boot]
  BY DEF ApiRelease, At
<1>2. owner' = Boot /\ lock' = 1
  BY <1>1 DEF ApiRelease, GiveLock, LockInv, Holder
<1>3. holds'[t] = Boot /\ \A u \in Thread \ {t} : holds'[u] = holds[u]
  BY <1>1 DEF LockInv, Typed
<1>4. Typed'
  BY <1>1, <1>2 DEF LockInv, Typed
<1>5. ASSUME NEW u \in Thread PROVE Holder(u)'
  <2>1. CASE u = t
    BY <2>1, <1>1, <1>2, <1>3 DEF Holder, Inside, Configured
  <2>2. CASE u # t
    <3>1. holds'[u] = holds[u] /\ ~Inside(u) /\ holds[u] = Boot
      BY <1>1, <1>3, <2>2, OneHolder
    <3> QED
      BY <3>1, <1>1 DEF LockInv, Holder, Inside, Configured
  <2> QED
    BY <2>1, <2>2
<1> QED
  BY <1>2, <1>4, <1>5 DEF LockInv, Taken

LEMMA LockInvStep ==
  ASSUME ~SpiAsync, LockInv, [Next]_vars
  PROVE  LockInv'
<1>1. CASE UNCHANGED <<th, lock, owner, config, holds>> /\ syncStatus' \in {"ok", "io"}
  BY <1>1 DEF LockInv, Typed, Holder, Taken, Inside, Configured
<1>2. CASE UNCHANGED vars
  BY <1>1, <1>2 DEF vars, ctxVars, usrVars, LockInv, Typed
<1>3. CASE Isr \/ Shift
  BY <1>1, <1>3, IsrKeepsLock
<1>4. ASSUME NEW t \in Thread, Call(t) \/ Transceive(t) \/ ApiRelease(t)
      PROVE  LockInv'
  BY <1>4, CallStep, LockSteps, ConfigureStep, TransferSteps, ReleaseStep, ApiReleaseStep
  DEF Transceive
<1> QED
  BY <1>2, <1>3, <1>4 DEF Next

LEMMA LockInvAlways == ASSUME ~SpiAsync PROVE Spec => []LockInv
<1>1. LockInv /\ [Next]_vars => LockInv'
  BY LockInvStep
<1> QED
  BY <1>1, LockInvInit, PTL DEF Spec

(* The transfers of spi_em32_transceive_impl never overlap, whatever the    *)
(* number of threads and configurations and whoever times out: the thread   *)
(* between spi_context_lock and spi_context_release is the one the lock's    *)
(* owner names.                                                             *)
THEOREM TransfersExclude == ASSUME ~SpiAsync PROVE Spec => []Exclusive
<1>1. LockInv => Exclusive
  BY OneHolder DEF Exclusive, LockInv, Holder
<1> QED
  BY <1>1, LockInvAlways, PTL

(* A client that locked the bus with SPI_LOCK_ON keeps it from one call to  *)
(* the next until spi_release.                                              *)
THEOREM LockOnIsKept == ASSUME ~SpiAsync PROVE Spec => []LockOnHeld
<1>1. LockInv => LockOnHeld
  BY OneHolder DEF LockOnHeld, LockInv, Holder
<1> QED
  BY <1>1, LockInvAlways, PTL

(* The only way the lock is lost is spi_context_release testing the         *)
(* configuration an earlier client left in the context.                     *)
THEOREM LockIsAccounted == ASSUME ~SpiAsync PROVE Spec => []LockAccounted
<1>1. LockInv => LockAccounted
  BY DEF LockAccounted, LockInv, Taken
<1> QED
  BY <1>1, LockInvAlways, PTL
=============================================================================
