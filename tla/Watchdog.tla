------------------------------- MODULE Watchdog -------------------------------
(***************************************************************************)
(* The EM32F967 watchdog and its driver, drivers/watchdog/wdt_em32.c.      *)
(*                                                                         *)
(* Every call is a short script of register writes between an unlock and a *)
(* lock.  The lock is one register that threads and the interrupt handler  *)
(* share without exclusion: whoever locks makes the hardware ignore the    *)
(* writes the others still have to do.  The counter (external, see 3.4 of  *)
(* em32f967_spec) runs while INTEN is set, raises the interrupt at its     *)
(* first zero and resets the chip at the next if it has not been cleared.  *)
(*                                                                         *)
(* Module Board says what a reset does to the rest of the chip.            *)
(***************************************************************************)
EXTENDS Naturals, Sequences

CONSTANTS
  Threads,    (* threads that use the watchdog                              *)
  Timeouts,   (* bound: the values of window.max clients ask for            *)
  Scale,      (* counts per unit of time                                    *)
  Width,      (* the counter has the values 0 .. Width - 1                  *)
  MaxAge      (* bound of the history variables age and since               *)

ASSUME WdtAssumption ==
  /\ {Scale, Width} \subseteq Nat \ {0} /\ MaxAge \in Nat
  /\ Timeouts \subseteq Nat \ {0}

VARIABLES
  wdt,                 (* the registers                                     *)
  installed,           (* timeout_installed                                 *)
  callback, timeout,   (* callback, timeout_ms                              *)
  todo, call,          (* per thread: the writes its call still has to do,  *)
                       (* and which call it is                              *)
  fresh, fedInside,    (* history of the call in progress: the counter was  *)
                       (* reloaded, a callback has fed                      *)
  crossed,             (* history: calls of two threads overlapped          *)
  age, since           (* history: counts since the last feed or setup that *)
                       (* returned 0 was begun, and since the call in       *)
                       (* progress was                                      *)

wdtVars == <<wdt, installed, callback, timeout, todo, call, fresh, fedInside, crossed, age, since>>

(* No callback; one that lets the reset happen; one that feeds.            *)
Callbacks == {"none", "silent", "feeds"}

-----------------------------------------------------------------------------
(* Registers.  A write to a locked register block is ignored.              *)

PutLoad(w, n) == IF w.locked THEN w ELSE [w EXCEPT !.load = n, !.value = n]

PutControl(w, int, res) ==
  IF w.locked THEN w
  ELSE [w EXCEPT !.inten = int, !.resen = res, !.value = IF int /\ ~w.inten THEN w.load ELSE @]

PutIntClr(w) == IF w.locked THEN w ELSE [w EXCEPT !.ris = FALSE, !.value = w.load]

Interrupt == wdt.inten /\ wdt.ris

LoadValue == (Scale * timeout) % Width

(* wdt_em32_init leaves the counter stopped and the registers locked.      *)
RegistersAfterInit ==
  [load |-> Width - 1, value |-> Width - 1, inten |-> FALSE, resen |-> FALSE,
   ris |-> FALSE, locked |-> TRUE]

WdtInit ==
  /\ wdt = RegistersAfterInit
  /\ installed = FALSE /\ callback = "none" /\ timeout = 0
  /\ todo = [t \in Threads |-> <<>>] /\ call = [t \in Threads |-> "none"]
  /\ fresh = FALSE /\ fedInside = FALSE /\ crossed = FALSE /\ age = 0 /\ since = 0

-----------------------------------------------------------------------------
(* The calls.                                                              *)

(* wdt_em32_install_timeout; only one timeout is ever installed. *)
Install(t, ms, cb) ==
  /\ todo[t] = <<>> /\ ~installed
  /\ installed' = TRUE /\ callback' = cb /\ timeout' = ms
  /\ UNCHANGED <<wdt, todo, call, fresh, fedInside, crossed, age, since>>

Calls == {"setup", "feed", "disable"}

(* Mutant: a setup stops the watchdog last. *)
ScriptStopLast(c) ==
  CASE c = "setup"   -> <<"unlock", "check", "load", "start", "stop", "lock">>
    [] c = "feed"    -> <<"unlock", "check", "clear", "load", "lock">>
    [] c = "disable" -> <<"unlock", "check", "stop", "lock">>

(* Mutant: a feed locks the registers before it writes them. *)
ScriptLockFirst(c) ==
  CASE c = "setup"   -> <<"unlock", "check", "stop", "load", "start", "lock">>
    [] c = "feed"    -> <<"unlock", "check", "lock", "clear", "load">>
    [] c = "disable" -> <<"unlock", "check", "stop", "lock">>

Script(c) ==
  CASE c = "setup"   -> <<"unlock", "check", "stop", "load", "start", "lock">>
    [] c = "feed"    -> <<"unlock", "check", "clear", "load", "lock">>
    [] c = "disable" -> <<"unlock", "check", "stop", "lock">>

InCall == \E t \in Threads : todo[t] # <<>>

BeginCall(t, c) ==
  /\ todo[t] = <<>> /\ (installed \/ c = "disable")
  /\ call' = [call EXCEPT ![t] = c] /\ todo' = [todo EXCEPT ![t] = Script(c)]
  /\ crossed' = (crossed \/ InCall)
  /\ UNCHANGED <<wdt, installed, callback, timeout, fresh, fedInside, age, since>>

At(t, op) == todo[t] # <<>> /\ Head(todo[t]) = op
Done(t)   == todo' = [todo EXCEPT ![t] = Tail(@)]

Unlock(t) ==
  /\ At(t, "unlock") /\ Done(t)
  /\ wdt' = [wdt EXCEPT !.locked = FALSE]
  /\ UNCHANGED <<installed, callback, timeout, call, fresh, fedInside, crossed, age, since>>

Return(t) ==
  /\ todo' = [todo EXCEPT ![t] = <<>>] /\ call' = [call EXCEPT ![t] = "none"]
  /\ fresh' = FALSE /\ fedInside' = FALSE /\ since' = 0

(* Locked again already: the call gives up with -EIO. *)
Check(t) ==
  /\ At(t, "check")
  /\ \/ wdt.locked /\ Return(t)
     \/ ~wdt.locked /\ Done(t) /\ UNCHANGED <<call, fresh, fedInside, since>>
  /\ UNCHANGED <<wdt, installed, callback, timeout, crossed, age>>

Stop(t) ==
  /\ At(t, "stop") /\ Done(t)
  /\ wdt' = PutControl(wdt, FALSE, FALSE)
  /\ UNCHANGED <<installed, callback, timeout, call, fresh, fedInside, crossed, age, since>>

Clear(t) ==
  /\ At(t, "clear") /\ Done(t)
  /\ wdt' = PutIntClr(wdt)
  /\ UNCHANGED <<installed, callback, timeout, call, fresh, fedInside, crossed, age, since>>

Load(t) ==
  /\ At(t, "load") /\ Done(t)
  /\ wdt' = PutLoad(wdt, LoadValue)
  /\ fresh' = (fresh \/ ~wdt.locked)
  /\ UNCHANGED <<installed, callback, timeout, call, fedInside, crossed, age, since>>

(* Without a callback INTEN stays clear.                                   *)
Start(t) ==
  /\ At(t, "start") /\ Done(t)
  /\ wdt' = PutControl(wdt, callback # "none", TRUE)
  /\ UNCHANGED <<installed, callback, timeout, call, fresh, fedInside, crossed, age, since>>

Lock(t) ==
  /\ At(t, "lock") /\ Return(t)
  /\ wdt' = [wdt EXCEPT !.locked = TRUE]
  /\ age' = IF call[t] = "disable" \/ age < since THEN age ELSE since
  /\ UNCHANGED <<installed, callback, timeout, crossed>>

WdtThread(t) ==
  \/ \E ms \in Timeouts, cb \in Callbacks : Install(t, ms, cb)
  \/ \E c \in Calls : BeginCall(t, c)
  \/ Unlock(t) \/ Check(t) \/ Stop(t) \/ Clear(t) \/ Load(t) \/ Start(t) \/ Lock(t)

-----------------------------------------------------------------------------
(* wdt_em32_isr: the clear, without an unlock, and the callback.  The      *)
(* interrupt is a level: as long as it is not cleared no thread runs.      *)

Feed(w) == [PutLoad(PutIntClr([w EXCEPT !.locked = FALSE]), LoadValue) EXCEPT !.locked = TRUE]

(* Mutant: the handler unlocks the registers for the clear. *)
WdtIsrUnlocking ==
  /\ Interrupt
  /\ LET cleared == [PutIntClr([wdt EXCEPT !.locked = FALSE]) EXCEPT !.locked = TRUE] IN
     \/ /\ callback # "feeds"
        /\ wdt' = cleared
        /\ UNCHANGED <<fresh, fedInside, age>>
     \/ /\ callback = "feeds"
        /\ wdt' = Feed(cleared)
        /\ fresh' = InCall /\ fedInside' = InCall /\ age' = 0
  /\ UNCHANGED <<installed, callback, timeout, todo, call, crossed, since>>

WdtIsr ==
  /\ Interrupt
  /\ LET cleared == PutIntClr(wdt) IN
     \/ /\ callback # "feeds"
        /\ wdt' = cleared
        /\ UNCHANGED <<fresh, fedInside, age>>
     \/ /\ callback = "feeds"
        /\ wdt' = Feed(cleared)
        /\ fresh' = InCall /\ fedInside' = InCall /\ age' = 0
  /\ UNCHANGED <<installed, callback, timeout, todo, call, crossed, since>>

-----------------------------------------------------------------------------
(* The counter (external).                                                 *)

Older(n) == IF n < MaxAge THEN n + 1 ELSE n
Ages     == age' = Older(age) /\ since' = IF InCall THEN Older(since) ELSE since

Count ==
  /\ wdt.inten /\ wdt.value > 0
  /\ wdt' = [wdt EXCEPT !.value = @ - 1]
  /\ Ages
  /\ UNCHANGED <<installed, callback, timeout, todo, call, fresh, fedInside, crossed>>

FirstZero ==
  /\ wdt.inten /\ wdt.value = 0 /\ ~wdt.ris
  /\ wdt' = [wdt EXCEPT !.ris = TRUE, !.value = wdt.load]
  /\ Ages
  /\ UNCHANGED <<installed, callback, timeout, todo, call, fresh, fedInside, crossed>>

Expiring == wdt.inten /\ wdt.resen /\ wdt.ris /\ wdt.value = 0

WdtRestart ==
  /\ wdt' = RegistersAfterInit
  /\ installed' = FALSE /\ callback' = "none" /\ timeout' = 0
  /\ todo' = [t \in Threads |-> <<>>] /\ call' = [t \in Threads |-> "none"]
  /\ fresh' = FALSE /\ fedInside' = FALSE /\ crossed' = FALSE /\ age' = 0 /\ since' = 0

-----------------------------------------------------------------------------
Ops == {"unlock", "check", "stop", "clear", "load", "start", "lock"}

WdtTypeOK ==
  /\ wdt \in [load : 0 .. Width - 1, value : 0 .. Width - 1, inten : BOOLEAN,
              resen : BOOLEAN, ris : BOOLEAN, locked : BOOLEAN]
  /\ installed \in BOOLEAN /\ callback \in Callbacks /\ timeout \in Timeouts \cup {0}
  /\ todo \in [Threads -> Seq(Ops)] /\ call \in [Threads -> Calls \cup {"none"}]
  /\ fresh \in BOOLEAN /\ fedInside \in BOOLEAN /\ crossed \in BOOLEAN
  /\ age \in 0 .. MaxAge /\ since \in 0 .. MaxAge

(* A call that is about to return 0 has done what it says: a feed or setup *)
(* has had the counter reloaded since it began, a setup has started the    *)
(* watchdog, a disable has stopped it -- although the interrupt handler    *)
(* may lock the registers between any two of its writes.  Not so where     *)
(* calls of two threads overlap, and a disable that a feeding callback     *)
(* interrupts returns 0 while the watchdog runs on.                        *)
CallsTakeEffect ==
  \A t \in Threads :
    todo[t] = <<"lock">> /\ ~crossed =>
      /\ call[t] \in {"feed", "setup"} => fresh
      /\ call[t] = "setup" => wdt.resen
      /\ call[t] = "disable" => ~wdt.inten \/ fedInside

(* The watchdog does not run out before a whole timeout has passed since   *)
(* the last feed or setup that returned 0, and the chip is not reset       *)
(* before two have, unless calls overlap or the timeout does not fit into  *)
(* the counter.                                                            *)
NoEarlyReset ==
  ~crossed /\ Scale * timeout < Width /\ wdt.inten /\ wdt.value = 0 =>
    IF wdt.ris THEN age >= 2 * Scale * timeout ELSE age >= Scale * timeout
=============================================================================
