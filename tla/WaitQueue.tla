------------------------------ MODULE WaitQueue ------------------------------
(***************************************************************************)
(* kernel/014_waitqueue/waitqueue.c: two threads that wait, each on its    *)
(* own queue, until the variable watch_var has the value they look for,    *)
(* the programs that write it, and the exit function that stops both.      *)
(*                                                                         *)
(* watch_var has no lock.  A thread tests it, queues itself, tests it once *)
(* more and then sleeps; a writer stores first and wakes the queues then.  *)
(* The steps in between are what can go wrong here.                        *)
(***************************************************************************)
EXTENDS Integers

CONSTANTS
    Writers,    \* programs that open the device and write to it
    Inputs,     \* the numbers they write
    NoNumber    \* an input that kstrtol refuses

ASSUME InputsAreNumbers == Inputs \subseteq Int
ASSUME NoNumberIsNone   == NoNumber \notin Int

VARIABLES
    watch_var,
    tpc,        \* where each thread is
    queued,     \* threads on their queue that no wake-up has reached
    stop,       \* threads for which kthread_should_stop() is true
    wpc,        \* where each writer is
    rmmod,      \* where the exit function is
    fresh       \* history: threads whose value was written since they took it

vars == <<watch_var, tpc, queued, stop, wpc, rmmod, fresh>>

Threads == {1, 2}

WAKE_UP_THREAD1 == 11
WAKE_UP_THREAD2 == 22

Wanted(t) == IF t = 1 THEN WAKE_UP_THREAD1 ELSE WAKE_UP_THREAD2

-----------------------------------------------------------------------------
Init ==
    /\ watch_var = 0
    /\ tpc = [t \in Threads |-> "loop"]
    /\ queued = {} /\ stop = {}
    /\ wpc = [w \in Writers |-> "closed"]
    /\ rmmod = "in"
    /\ fresh = {}

\* The condition does not look at kthread_should_stop().
ConditionValueOnly(t) == watch_var = Wanted(t)

Condition(t) == watch_var = Wanted(t) \/ t \in stop

-----------------------------------------------------------------------------
(* thread_function and, inside it, the wait_event macros.                  *)

Goto(t, from, to) ==
    /\ tpc[t] = from
    /\ tpc' = [tpc EXCEPT ![t] = to]

Loop(t) ==
    /\ Goto(t, "loop", IF t \in stop THEN "exited" ELSE "test")
    /\ UNCHANGED <<watch_var, queued, stop, wpc, rmmod, fresh>>

Test(t) ==
    /\ Goto(t, "test", IF Condition(t) THEN "take" ELSE "queue")
    /\ UNCHANGED <<watch_var, queued, stop, wpc, rmmod, fresh>>

Queue(t) ==
    /\ Goto(t, "queue", "check")
    /\ queued' = queued \cup {t}
    /\ UNCHANGED <<watch_var, stop, wpc, rmmod, fresh>>

(* The second test: a wake-up that came before it is not lost.             *)
Check(t) ==
    /\ Goto(t, "check", IF Condition(t) THEN "take" ELSE "asleep")
    /\ queued' = IF Condition(t) THEN queued \ {t} ELSE queued
    /\ UNCHANGED <<watch_var, stop, wpc, rmmod, fresh>>

Woken(t) ==
    /\ t \notin queued
    /\ Goto(t, "asleep", "queue")
    /\ UNCHANGED <<watch_var, queued, stop, wpc, rmmod, fresh>>

\* The thread stays on its queue.
TimeoutStaysQueued ==
    /\ Goto(2, "asleep", "late")
    /\ UNCHANGED <<watch_var, queued, stop, wpc, rmmod, fresh>>

(* After five seconds thread 2 tests once more and gives up.               *)
TimeoutReached ==
    /\ Goto(2, "asleep", "late")
    /\ queued' = queued \ {2}
    /\ UNCHANGED <<watch_var, stop, wpc, rmmod, fresh>>

LastTest ==
    /\ Goto(2, "late", IF Condition(2) THEN "take" ELSE "loop")
    /\ UNCHANGED <<watch_var, queued, stop, wpc, rmmod, fresh>>

\* The variable keeps its value.
TakeAndLeave(t) ==
    /\ Goto(t, "take", "loop")
    /\ fresh' = fresh \ {t}
    /\ UNCHANGED <<watch_var, queued, stop, wpc, rmmod>>

(* "User input was ...", and the variable is cleared.                      *)
Take(t) ==
    /\ Goto(t, "take", "loop")
    /\ watch_var' = 0
    /\ fresh' = fresh \ {t}
    /\ UNCHANGED <<queued, stop, wpc, rmmod>>

Thread(t) ==
    \/ Loop(t) \/ Test(t) \/ Queue(t) \/ Check(t) \/ Woken(t) \/ Take(t)
    \/ t = 2 /\ (TimeoutReached \/ LastTest)

-----------------------------------------------------------------------------
(* The programs: driver_open, driver_write and driver_close.               *)

WriterGoto(w, from, to) ==
    /\ wpc[w] = from
    /\ wpc' = [wpc EXCEPT ![w] = to]

Open(w) ==
    /\ rmmod = "in"
    /\ WriterGoto(w, "closed", "open")
    /\ UNCHANGED <<watch_var, tpc, queued, stop, rmmod, fresh>>

\* The first queue is forgotten.
StoreForOne(w) ==
    /\ WriterGoto(w, "open", "wake2")
    /\ \E n \in Inputs :
         /\ watch_var' = n
         /\ fresh' = fresh \cup {t \in Threads : Wanted(t) = n}
    /\ UNCHANGED <<tpc, queued, stop, rmmod>>

(* kstrtol stores the number, or nothing when there is none.               *)
Store(w) ==
    /\ WriterGoto(w, "open", "wake1")
    /\ \E n \in Inputs \cup {NoNumber} :
         IF n = NoNumber THEN UNCHANGED <<watch_var, fresh>>
         ELSE /\ watch_var' = n
              /\ fresh' = fresh \cup {t \in Threads : Wanted(t) = n}
    /\ UNCHANGED <<tpc, queued, stop, rmmod>>

WakeFirst(w) ==
    /\ WriterGoto(w, "wake1", "wake2")
    /\ queued' = queued \ {1}
    /\ UNCHANGED <<watch_var, tpc, stop, rmmod, fresh>>

WakeSecond(w) ==
    /\ WriterGoto(w, "wake2", "open")
    /\ queued' = queued \ {2}
    /\ UNCHANGED <<watch_var, tpc, stop, rmmod, fresh>>

Close(w) ==
    /\ WriterGoto(w, "open", "closed")
    /\ UNCHANGED <<watch_var, tpc, queued, stop, rmmod, fresh>>

Write(w) == Store(w) \/ WakeFirst(w) \/ WakeSecond(w)

-----------------------------------------------------------------------------
(* my_module_exit: kthread_stop(kthread1), then kthread_stop(kthread2).    *)
(* kthread_stop sets the flag, wakes the thread and waits for its end.     *)

RequestStop(t, from, to) ==
    /\ rmmod = from
    /\ rmmod' = to
    /\ stop' = stop \cup {t}
    /\ UNCHANGED <<watch_var, tpc, queued, wpc, fresh>>

WakeStopped(t, from, to) ==
    /\ rmmod = from
    /\ rmmod' = to
    /\ queued' = queued \ {t}
    /\ UNCHANGED <<watch_var, tpc, stop, wpc, fresh>>

\* fops without an owner.
RmmodUnowned == RequestStop(1, "in", "stop1")

(* fops.owner: refused while a file is open.                               *)
Rmmod ==
    /\ \A w \in Writers : wpc[w] = "closed"
    /\ RequestStop(1, "in", "stop1")

StopSecond == tpc[1] = "exited" /\ RequestStop(2, "join1", "stop2")

Unloaded ==
    /\ rmmod = "join2" /\ tpc[2] = "exited"
    /\ rmmod' = "out"
    /\ UNCHANGED <<watch_var, tpc, queued, stop, wpc, fresh>>

Exit ==
    \/ WakeStopped(1, "stop1", "join1") \/ StopSecond
    \/ WakeStopped(2, "stop2", "join2") \/ Unloaded

(* my_module_init starts both threads anew.                                *)
Insmod ==
    /\ rmmod = "out"
    /\ watch_var' = 0
    /\ tpc' = [t \in Threads |-> "loop"]
    /\ queued' = {} /\ stop' = {}
    /\ rmmod' = "in"
    /\ fresh' = {}
    /\ UNCHANGED wpc

-----------------------------------------------------------------------------
Next ==
    \/ \E t \in Threads : Thread(t)
    \/ \E w \in Writers : Open(w) \/ Write(w) \/ Close(w)
    \/ Rmmod \/ Exit \/ Insmod

Spec == Init /\ [][Next]_vars

(* The scheduler runs the threads, a write that has begun and the exit     *)
(* function; nobody has to open, write or remove anything.                 *)
LiveSpec ==
    /\ Spec
    /\ \A t \in Threads : WF_vars(Thread(t))
    /\ \A w \in Writers : WF_vars(WakeFirst(w)) /\ WF_vars(WakeSecond(w))
    /\ WF_vars(Exit)

-----------------------------------------------------------------------------
(* Properties *)

ThreadPcs == {"loop", "test", "queue", "check", "asleep", "late", "take", "exited"}
WriterPcs == {"closed", "open", "wake1", "wake2"}
RmmodPcs  == {"in", "stop1", "join1", "stop2", "join2", "out"}

(* Every variable has values of its kind; a thread is on its queue only    *)
(* between queueing itself and waking up.                                  *)
TypeOK ==
    /\ watch_var \in Int
    /\ tpc \in [Threads -> ThreadPcs]
    /\ wpc \in [Writers -> WriterPcs]
    /\ rmmod \in RmmodPcs
    /\ stop \subseteq Threads /\ fresh \subseteq Threads
    /\ queued \subseteq {t \in Threads : tpc[t] \in {"check", "asleep"}}

(* A wake-up of the thread is still to come.                               *)
WakeDue(t) ==
    \/ \E w \in Writers : wpc[w] \in (IF t = 1 THEN {"wake1"} ELSE {"wake1", "wake2"})
    \/ rmmod = (IF t = 1 THEN "stop1" ELSE "stop2")

(* No thread sleeps on while what it waits for has come, unless its        *)
(* wake-up is still on the way.                                            *)
NoLostWakeup ==
    \A t \in Threads :
        tpc[t] = "asleep" /\ t \in queued /\ Condition(t) => WakeDue(t)

(* A thread that reports an input was given this input since its last      *)
(* report (or is being stopped, when it reports one all the same).         *)
ReportsWhatWasWritten ==
    \A t \in Threads : tpc[t] = "take" => t \in fresh \cup stop

(* The module's code is freed only when no thread runs it and no program   *)
(* has the device open.                                                    *)
CodeUnused ==
    rmmod = "out" => /\ \A t \in Threads : tpc[t] = "exited"
                     /\ \A w \in Writers : wpc[w] = "closed"

(* A value that a thread waits for does not stay: the thread takes it, or  *)
(* it is overwritten, or the module is unloaded.                           *)
ValueIsTaken ==
    \A t \in Threads :
        watch_var = Wanted(t) /\ rmmod = "in" ~> watch_var # Wanted(t) \/ rmmod # "in"

(* rmmod returns: both threads notice that they have to stop.              *)
UnloadEnds == rmmod # "in" ~> rmmod = "out"
=============================================================================
