--------------------------- MODULE WaitQueueProofs ---------------------------
(***************************************************************************)
(* The safety of the wait queue example for any number of writing programs *)
(* and any inputs.                                                         *)
(*                                                                         *)
(* NoLostWakeup is inductive as it stands.  ReportsWhatWasWritten needs    *)
(* that a value in watch_var is a fresh one, CodeUnused that the exit      *)
(* function gets nowhere without the threads and the writers being gone.   *)
(***************************************************************************)
EXTENDS WaitQueue, TLAPS

ValueIsFresh == \A t \in Threads : watch_var = Wanted(t) => t \in fresh

(* How far the exit function can have come.                                *)
Unloading ==
    /\ rmmod # "in" => \A w \in Writers : wpc[w] = "closed"
    /\ rmmod \in {"stop2", "join2", "out"} => tpc[1] = "exited"
    /\ rmmod = "out" => tpc[2] = "exited"

IInv == TypeOK /\ NoLostWakeup /\ ReportsWhatWasWritten /\ ValueIsFresh /\ Unloading

LEMMA WantedIsInt == \A t \in Threads : Wanted(t) \in Int /\ Wanted(t) # 0
BY DEF Threads, Wanted, WAKE_UP_THREAD1, WAKE_UP_THREAD2

LEMMA InitHolds == Init => IInv
BY WantedIsInt DEF Init, IInv, TypeOK, ThreadPcs, WriterPcs, RmmodPcs, NoLostWakeup,
   ReportsWhatWasWritten, ValueIsFresh, Unloading

-----------------------------------------------------------------------------
(* The steps of thread_function.                                           *)
LEMMA ThreadStep ==
    ASSUME IInv, NEW t \in Threads, Thread(t)
    PROVE  IInv'
<1> USE DEF IInv, TypeOK, ThreadPcs, Goto, Threads
<1>1. CASE Loop(t)
  BY <1>1 DEF Loop, NoLostWakeup, Condition, WakeDue, ReportsWhatWasWritten,
     ValueIsFresh, Unloading
<1>2. CASE Test(t)
  BY <1>2 DEF Test, NoLostWakeup, Condition, WakeDue, ReportsWhatWasWritten,
     ValueIsFresh, Unloading
<1>3. CASE Queue(t)
  BY <1>3 DEF Queue, NoLostWakeup, Condition, WakeDue, ReportsWhatWasWritten,
     ValueIsFresh, Unloading
<1>4. CASE Check(t)
  BY <1>4 DEF Check, NoLostWakeup, Condition, WakeDue, ReportsWhatWasWritten,
     ValueIsFresh, Unloading
<1>5. CASE Woken(t)
  BY <1>5 DEF Woken, NoLostWakeup, Condition, WakeDue, ReportsWhatWasWritten,
     ValueIsFresh, Unloading
<1>6. CASE Take(t)
  BY <1>6, WantedIsInt DEF Take, NoLostWakeup, Condition, WakeDue,
     ReportsWhatWasWritten, ValueIsFresh, Unloading, Wanted, WAKE_UP_THREAD1,
     WAKE_UP_THREAD2
<1>7. CASE TimeoutReached
  BY <1>7 DEF TimeoutReached, NoLostWakeup, Condition, WakeDue,
     ReportsWhatWasWritten, ValueIsFresh, Unloading
<1>8. CASE LastTest
  BY <1>8 DEF LastTest, NoLostWakeup, Condition, WakeDue, ReportsWhatWasWritten,
     ValueIsFresh, Unloading
<1> QED
  BY <1>1, <1>2, <1>3, <1>4, <1>5, <1>6, <1>7, <1>8 DEF Thread

-----------------------------------------------------------------------------
(* The steps of the programs.                                              *)
LEMMA WriterStep ==
    ASSUME IInv, NEW w \in Writers, Open(w) \/ Write(w) \/ Close(w)
    PROVE  IInv'
<1> USE DEF IInv, TypeOK, WriterPcs, WriterGoto
<1>1. CASE Open(w)
  BY <1>1 DEF Open, NoLostWakeup, Condition, WakeDue, ReportsWhatWasWritten,
     ValueIsFresh, Unloading
<1>2. CASE Store(w)
  <2>1. TypeOK'
    BY <1>2, InputsAreNumbers DEF Store
  <2>2. NoLostWakeup'
    BY <1>2 DEF Store, NoLostWakeup, WakeDue
  <2>3. ReportsWhatWasWritten' /\ ValueIsFresh'
    BY <1>2 DEF Store, ReportsWhatWasWritten, ValueIsFresh
  <2>4. Unloading'
    BY <1>2 DEF Store, Unloading
  <2> QED
    BY <2>1, <2>2, <2>3, <2>4
<1>3. CASE WakeFirst(w)
  BY <1>3 DEF WakeFirst, NoLostWakeup, Condition, WakeDue, ReportsWhatWasWritten,
     ValueIsFresh, Unloading, Threads
<1>4. CASE WakeSecond(w)
  BY <1>4 DEF WakeSecond, NoLostWakeup, Condition, WakeDue, ReportsWhatWasWritten,
     ValueIsFresh, Unloading, Threads
<1>5. CASE Close(w)
  BY <1>5 DEF Close, NoLostWakeup, Condition, WakeDue, ReportsWhatWasWritten,
     ValueIsFresh, Unloading
<1> QED
  BY <1>1, <1>2, <1>3, <1>4, <1>5 DEF Write

-----------------------------------------------------------------------------
(* The exit function and loading anew.                                     *)
LEMMA UnloadStep ==
    ASSUME IInv, Rmmod \/ Exit \/ Insmod
    PROVE  IInv'
<1> USE DEF IInv, TypeOK, RmmodPcs, Threads
<1>1. CASE Rmmod
  BY <1>1 DEF Rmmod, RequestStop, NoLostWakeup, Condition, WakeDue,
     ReportsWhatWasWritten, ValueIsFresh, Unloading
<1>2. CASE WakeStopped(1, "stop1", "join1")
  BY <1>2 DEF WakeStopped, NoLostWakeup, Condition, WakeDue, ReportsWhatWasWritten,
     ValueIsFresh, Unloading
<1>3. CASE StopSecond
  BY <1>3 DEF StopSecond, RequestStop, NoLostWakeup, Condition, WakeDue,
     ReportsWhatWasWritten, ValueIsFresh, Unloading
<1>4. CASE WakeStopped(2, "stop2", "join2")
  BY <1>4 DEF WakeStopped, NoLostWakeup, Condition, WakeDue, ReportsWhatWasWritten,
     ValueIsFresh, Unloading
<1>5. CASE Unloaded
  BY <1>5 DEF Unloaded, NoLostWakeup, Condition, WakeDue, ReportsWhatWasWritten,
     ValueIsFresh, Unloading
<1>6. CASE Insmod
  BY <1>6, WantedIsInt DEF Insmod, ThreadPcs, NoLostWakeup, ReportsWhatWasWritten,
     ValueIsFresh, Unloading
<1> QED
  BY <1>1, <1>2, <1>3, <1>4, <1>5, <1>6 DEF Exit

LEMMA StutterStep ==
    ASSUME IInv, UNCHANGED vars
    PROVE  IInv'
BY DEF IInv, TypeOK, NoLostWakeup, Condition, WakeDue, ReportsWhatWasWritten,
   ValueIsFresh, Unloading, vars

LEMMA WaitQueueNextHolds == IInv /\ [Next]_vars => IInv'
BY ThreadStep, WriterStep, UnloadStep, StutterStep DEF Next

LEMMA Invariance == Spec => []IInv
BY InitHolds, WaitQueueNextHolds, PTL DEF Spec

-----------------------------------------------------------------------------
(* Every variable keeps values of its kind.                                *)
THEOREM TypeCorrect == Spec => []TypeOK
BY Invariance, PTL DEF IInv

(* A thread whose value is there, or that has to stop, never sleeps with   *)
(* nobody left to wake it.                                                 *)
THEOREM NoWakeupIsLost == Spec => []NoLostWakeup
BY Invariance, PTL DEF IInv

(* A thread reports only inputs that were written since its last report,   *)
(* unless it is being stopped.                                             *)
THEOREM ReportsAreOfInputs == Spec => []ReportsWhatWasWritten
BY Invariance, PTL DEF IInv

(* rmmod frees the code only when neither thread runs and no file is open. *)
THEOREM CodeIsUnused == Spec => []CodeUnused
<1>1. IInv => CodeUnused
  BY DEF IInv, Unloading, CodeUnused, Threads
<1> QED
  BY Invariance, <1>1, PTL
=============================================================================
