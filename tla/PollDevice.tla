----------------------------- MODULE PollDevice -----------------------------
(***************************************************************************)
(* kernel/013_poll/poll.c: programs wait with poll() until the interrupt   *)
(* of a button has set irq_ready.                                          *)
(*                                                                         *)
(* driver_poll is called several times for one poll(): once to enter the   *)
(* wait queue and look at the flag, and again after every wake-up and      *)
(* after the timeout.  A call that finds the flag set clears it, so that   *)
(* one press is for one of the programs.  Neither the flag nor the calls   *)
(* have a lock.  The programs poll for POLLIN.                             *)
(***************************************************************************)
EXTENDS Integers

CONSTANT Pollers    \* programs that have the device open and poll it

VARIABLES
    irq_ready,
    handler,    \* where the interrupt handler is
    ppc,        \* where each program is in its poll()
    table,      \* programs with an entry in the wait queue
    triggered,  \* programs that a wake-up has reached and that have not slept since
    expired,    \* programs whose timeout has passed
    untold,    \* history: programs that no POLLIN has told of the last press
    unseen      \* history: the last press was followed by no POLLIN

pollVars == <<irq_ready, handler, ppc, table, triggered, expired, untold, unseen>>

PollInit ==
    /\ irq_ready = 0 /\ handler = "idle"
    /\ ppc = [p \in Pollers |-> "away"]
    /\ table = {} /\ triggered = {} /\ expired = {}
    /\ untold = {} /\ unseen = FALSE

PollGoto(p, from, to) ==
    /\ ppc[p] = from
    /\ ppc' = [ppc EXCEPT ![p] = to]

-----------------------------------------------------------------------------
(* gpio_irq_handler: the flag first, the wake-up then.                     *)

PressButton ==
    /\ handler = "idle"
    /\ handler' = "wake"
    /\ irq_ready' = 1
    /\ untold' = Pollers /\ unseen' = TRUE
    /\ UNCHANGED <<ppc, table, triggered, expired>>

\* Only one of the queued programs is woken.
WakeOnePoller ==
    /\ handler = "wake"
    /\ handler' = "idle"
    /\ triggered' = table \cap (triggered \cup {CHOOSE p \in Pollers : TRUE})
    /\ UNCHANGED <<irq_ready, ppc, table, expired, untold, unseen>>

WakePollers ==
    /\ handler = "wake"
    /\ handler' = "idle"
    /\ triggered' = table
    /\ UNCHANGED <<irq_ready, ppc, table, expired, untold, unseen>>

-----------------------------------------------------------------------------
(* poll() of the kernel, and driver_poll in it.                            *)

(* A timeout of 0 does not enter the queue and does not sleep.             *)
CallPoll(p) ==
    /\ \/ PollGoto(p, "away", "enter") /\ UNCHANGED expired
       \/ PollGoto(p, "away", "test") /\ expired' = expired \cup {p}
    /\ UNCHANGED <<irq_ready, handler, table, triggered, untold, unseen>>

(* poll_wait *)
PollWait(p) ==
    /\ PollGoto(p, "enter", "test")
    /\ table' = table \cup {p}
    /\ UNCHANGED <<irq_ready, handler, triggered, expired, untold, unseen>>

\* What the program does after a driver_poll that returned 0.
AfterZero(p) == IF p \in expired THEN "return" ELSE "sleep"

TestReady(p) ==
    /\ PollGoto(p, "test", IF irq_ready = 1 THEN "clear" ELSE AfterZero(p))
    /\ UNCHANGED <<irq_ready, handler, table, triggered, expired, untold, unseen>>

\* The flag stays set.
ReturnPollinOnly(p) ==
    /\ PollGoto(p, "clear", "return")
    /\ untold' = untold \ {p} /\ unseen' = FALSE
    /\ UNCHANGED <<irq_ready, handler, table, triggered, expired>>

\* A program whose timeout has passed is told 0 all the same.
ClearReadyTooLate(p) ==
    /\ PollGoto(p, "clear", "return")
    /\ irq_ready' = 0
    /\ untold' = IF p \in expired THEN untold ELSE untold \ {p}
    /\ unseen' = (unseen /\ p \in expired)
    /\ UNCHANGED <<handler, table, triggered, expired>>

(* irq_ready = 0, and POLLIN is returned.                                  *)
ClearReady(p) ==
    /\ PollGoto(p, "clear", "return")
    /\ irq_ready' = 0
    /\ untold' = untold \ {p} /\ unseen' = FALSE
    /\ UNCHANGED <<handler, table, triggered, expired>>

(* poll_schedule_timeout sleeps unless the wake-up has come already.       *)
WakesUp(p) ==
    /\ p \in triggered
    /\ PollGoto(p, "sleep", "test")
    /\ triggered' = triggered \ {p}
    /\ UNCHANGED <<irq_ready, handler, table, expired, untold, unseen>>

PollTimeout(p) ==
    /\ PollGoto(p, "sleep", "test")
    /\ triggered' = triggered \ {p}
    /\ expired' = expired \cup {p}
    /\ UNCHANGED <<irq_ready, handler, table, untold, unseen>>

(* A signal ends the sleep after a last look, as a timeout does; poll_     *)
(* freewait takes the program off the queue.                               *)
ReturnPoll(p) ==
    /\ PollGoto(p, "return", "away")
    /\ table' = table \ {p}
    /\ triggered' = triggered \ {p}
    /\ expired' = expired \ {p}
    /\ UNCHANGED <<irq_ready, handler, untold, unseen>>

PollRuns(p) ==
    \/ PollWait(p) \/ TestReady(p) \/ ClearReady(p) \/ WakesUp(p) \/ ReturnPoll(p)

PollNext ==
    \/ PressButton \/ WakePollers
    \/ \E p \in Pollers : CallPoll(p) \/ PollRuns(p) \/ PollTimeout(p)

PollSpec == PollInit /\ [][PollNext]_pollVars

(* The interrupt handler runs to its end, and so does a program unless it  *)
(* sleeps; nobody has to press the button, to poll or to run into the      *)
(* timeout.                                                                *)
PollLiveSpec ==
    /\ PollSpec
    /\ WF_pollVars(WakePollers)
    /\ \A p \in Pollers : WF_pollVars(PollRuns(p))

-----------------------------------------------------------------------------
(* Properties *)

(* A wake-up reaches only programs in the wait queue, and who sleeps is    *)
(* there.                                                                  *)
PollTypeOK ==
    /\ irq_ready \in {0, 1} /\ handler \in {"idle", "wake"}
    /\ ppc \in [Pollers -> {"away", "enter", "test", "clear", "sleep", "return"}]
    /\ table \subseteq Pollers /\ triggered \subseteq table
    /\ expired \subseteq Pollers /\ untold \subseteq Pollers /\ unseen \in BOOLEAN
    /\ \A p \in Pollers : ppc[p] = "sleep" => p \in table

(* A program that is told POLLIN is told of a press that it has not been   *)
(* told of before, however the calls and the presses overlap.             *)
PollinMeansPress == \A p \in Pollers : ppc[p] = "clear" => p \in untold

(* A press that no POLLIN has told anybody of is not forgotten: the flag   *)
(* is still set, or a program is about to return POLLIN for it.            *)
PressIsKept ==
    unseen => irq_ready = 1 \/ \E p \in Pollers : ppc[p] = "clear"

(* No program sleeps on while the flag is set, unless the wake-up is still *)
(* to come.                                                                *)
NoPollerLeftAsleep ==
    \A p \in Pollers :
        irq_ready = 1 /\ ppc[p] = "sleep" /\ p \notin triggered => handler = "wake"

(* While somebody polls, a press is noticed.                               *)
PressIsNoticed ==
    \A p \in Pollers : unseen /\ ppc[p] = "sleep" ~> ~unseen
=============================================================================
