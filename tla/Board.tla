--------------------------------- MODULE Board --------------------------------
(***************************************************************************)
(* The watchdog and the battery-backed RAM on one chip: what the watchdog  *)
(* does when it expires is a restart, at any step of what its threads do   *)
(* to the RAM, and what the RAM keeps is what a restart leaves.            *)
(***************************************************************************)
EXTENDS Watchdog, Bbram

VARIABLE hung   (* the application has stopped for good                     *)

vars == <<wdtVars, bbVars, hung>>

Init == WdtInit /\ BbInit /\ hung = FALSE

InBbram(t) == t \in Users /\ bpc[t] # "idle"

(* A thread runs while the watchdog's interrupt does not, and is in one    *)
(* driver at a time.                                                       *)
ThreadStep(t) ==
  /\ ~hung /\ ~Interrupt /\ Up
  /\ \/ ~InBbram(t) /\ WdtThread(t) /\ UNCHANGED bbVars
     \/ t \in Users /\ todo[t] = <<>> /\ BbCaller(t) /\ UNCHANGED wdtVars
  /\ UNCHANGED hung

KernelStep == BbKernel /\ UNCHANGED <<wdtVars, hung>>
IsrStep    == WdtIsr /\ UNCHANGED <<bbVars, hung>>
Tick       == (Count \/ FirstZero) /\ UNCHANGED <<bbVars, hung>>

(* The threads never run again, wherever they are. *)
Hang == ~hung /\ Up /\ hung' = TRUE /\ UNCHANGED <<wdtVars, bbVars>>

Restart(battery) == WdtRestart /\ BbRestart(battery) /\ hung' = FALSE
Expire     == Expiring /\ Restart(TRUE)
PowerCycle == \E battery \in BOOLEAN : Restart(battery)

Next == \/ \E t \in Threads : ThreadStep(t)
        \/ KernelStep \/ IsrStep \/ Tick \/ Hang \/ Expire \/ PowerCycle

Spec == Init /\ [][Next]_vars

(* The counter has its own clock. *)
FairSpec == Spec /\ WF_vars(Tick) /\ WF_vars(Expire)

-----------------------------------------------------------------------------
(* Types of the variables; a write to the RAM takes no byte from beyond    *)
(* the data it was given (em32_bbram_write).                               *)
TypeOK == WdtTypeOK /\ BbTypeOK /\ WithinData /\ hung \in BOOLEAN

(* "The system will reset after this callback returns"                     *)
(* (samples/elan_wdt/src/main.c:74): a board whose application hangs while *)
(* the watchdog runs restarts, although the interrupt handler keeps on     *)
(* trying to clear the interrupt.  It is the lock that stops it: a thread  *)
(* that hangs between an unlock and a lock leaves the board hanging, as    *)
(* does a watchdog that was set up without a callback, which never counts. *)
HungBoardRestarts ==
  (hung /\ wdt.inten /\ wdt.locked /\ callback = "silent") ~> ~hung
=============================================================================
