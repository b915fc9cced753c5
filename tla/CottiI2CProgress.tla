-------------------------- MODULE CottiI2CProgress --------------------------
(***************************************************************************)
(* Why every call returns: CallReturns is about fairness; what it needs of *)
(* the code is that some step can always be taken towards the return, and  *)
(* that there are only so many of them.  Both are about states and steps.  *)
(***************************************************************************)
EXTENDS CottiI2CInv

(* The guard of Proceed(p).                                                *)
CanProceed(p) ==
    CASE pc[p] = "idle"   -> FALSE
      [] pc[p] = "lock"   -> lock = None
      [] pc[p] = "drain"  -> gLen = 0 \/ MayTimeOut
      [] pc[p] = "stop"   -> compStop > 0 \/ MayTimeOut
      [] pc[p] = "rxdata" -> compRead > 0 \/ MayTimeOut
      [] pc[p] = "rxstop" -> compStop > 0 \/ MayTimeOut
      [] OTHER            -> TRUE

(* The guard of Isr and Transfer.                                          *)
HwCanProceed ==
    \/ irq # {}
    \/ mode = "tx" /\ cnt > 0 /\ (tx = None => "XRDY" \notin irq)
    \/ mode = "rx" /\ cnt > 0
    \/ mode # "idle" /\ cnt = 0

(* The process on which p depends: the holder of lock_bus, if p waits for  *)
(* it, or p itself.                                                        *)
DependsOn(p) == IF pc[p] = "lock" /\ lock # None THEN lock ELSE p

(* A call that has not returned is never stuck: the process on which it    *)
(* depends can go on, or waits for a transfer in which the handler or the  *)
(* controller can.                                                         *)
NobodyStuck ==
    \A p \in Procs : pc[p] # "idle" =>
        /\ DependsOn(p) \in Procs
        /\ \/ CanProceed(DependsOn(p))
           \/ pc[DependsOn(p)] \in Waiting /\ HwCanProceed

(* How many steps a call takes at most.                                    *)
StepsLeft(p) ==
    CASE pc[p] = "idle" -> 0
      [] pc[p] = "ret" -> 1
      [] pc[p] \in {"finish", "fail", "rxfail"} -> 2
      [] pc[p] = "rxstop" -> 3
      [] pc[p] = "rxdata" -> 4
      [] pc[p] = "rxstart" -> 5
      [] pc[p] = "rxcount" -> 6
      [] pc[p] = "stop" -> 7
      [] pc[p] = "drain" -> 8
      [] pc[p] = "start" -> 9
      [] pc[p] = "count" -> 10
      [] pc[p] = "lock" -> 11
      [] pc[p] = "poll" -> 12 + (MaxPolls - polls[p])

(* How many steps of handler and controller a transfer takes at most.      *)
WorkLeft ==
    (IF mode = "idle" THEN 0 ELSE 4 * cnt + 2)
    + (IF irq = {} THEN 0 ELSE 1)
    + (IF mode = "tx" /\ cnt > 0 /\ tx = None /\ "XRDY" \notin irq THEN 2 ELSE 0)

(* Every step of a call leaves it fewer steps, and no step of anybody else *)
(* gives it more; every step of handler and controller leaves them less to *)
(* do.  A call takes at most 12 + MaxPolls steps of its own, and between   *)
(* two of them handler and controller take at most as many as WorkLeft.    *)
EveryStepCounts ==
    [][/\ \A p \in Procs :
            /\ pc[p] # "idle" => StepsLeft(p)' <= StepsLeft(p)
            /\ Proceed(p) \/ DrainSignal(p) => StepsLeft(p)' < StepsLeft(p)
       /\ Isr \/ Transfer \/ HwAbort => WorkLeft' < WorkLeft]_vars
=============================================================================
