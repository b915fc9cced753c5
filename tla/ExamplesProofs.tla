--------------------------- MODULE ExamplesProofs ---------------------------
(***************************************************************************)
(* What is proved of each example holds of the board with any of them.     *)
(*                                                                         *)
(* A step of the board is a step of the loaded example and leaves the      *)
(* variables of the others alone: for every example it is a step of its    *)
(* specification or a stutter, and its invariant carries over.  LedDevice  *)
(* has the variable loaded in common with the board; while neither of its  *)
(* drivers is loaded nobody writes to the LED (LedIsIdle).                 *)
(***************************************************************************)
EXTENDS Examples, WaitQueueProofs, DeviceProofs

LedIsIdle ==
    /\ LedTypeOK
    /\ \A p \in Echoers : order[p] = NoText

BoardInv ==
    /\ IInv /\ SignalInv /\ PollInv /\ EchoInv /\ MultInv
    /\ loaded \in Others \cup Drivers
    /\ IF loaded \in Drivers THEN LedInv ELSE LedIsIdle

-----------------------------------------------------------------------------
(* Every step of the board, seen from one example.                         *)

LEMMA WaitQueueSteps == WaitQueueStep => Next /\ InWaitQueue
BY DEF WaitQueueStep, Next, Thread, Write, Exit, Threads

LEMMA SignalSteps == SignalDeviceStep => SignalNext /\ InSignal
BY DEF SignalDeviceStep, SignalNext, SignalStep

LEMMA PollSteps == PollDeviceStep => PollNext /\ InPoll
BY DEF PollDeviceStep, PollNext, PollRuns

LEMMA EchoSteps == EchoDeviceStep => EchoNext /\ InEcho
BY DEF EchoDeviceStep, EchoNext

LEMMA MultiplierSteps == MultiplierDeviceStep => MultNext /\ InMultiplier
BY DEF MultiplierDeviceStep, MultNext

LEMMA LedSteps == LedDeviceStep => LedNext /\ InLed
BY DEF LedDeviceStep, LedNext

LEMMA StepsOfOne ==
    ASSUME [ExamplesNext]_examplesVars
    PROVE  /\ [Next]_vars /\ [SignalNext]_signalVars /\ [PollNext]_pollVars
           /\ [EchoNext]_echoVars /\ [MultNext]_multVars
           /\ UNCHANGED ledVars \/ (loaded \in Drivers /\ LedNext)
<1>1. CASE UNCHANGED examplesVars
  BY <1>1 DEF examplesVars
<1>2. CASE WaitQueueStep
  BY <1>2, WaitQueueSteps DEF InWaitQueue
<1>3. CASE SignalDeviceStep
  BY <1>3, SignalSteps DEF InSignal
<1>4. CASE PollDeviceStep
  BY <1>4, PollSteps DEF InPoll
<1>5. CASE EchoDeviceStep
  BY <1>5, EchoSteps DEF InEcho
<1>6. CASE MultiplierDeviceStep
  BY <1>6, MultiplierSteps DEF InMultiplier
<1>7. CASE LedDeviceStep
  BY <1>7, LedSteps DEF InLed
<1> QED
  BY <1>1, <1>2, <1>3, <1>4, <1>5, <1>6, <1>7 DEF ExamplesNext

LEMMA BoardInit == ExamplesInit => BoardInv
<1> SUFFICES ASSUME ExamplesInit PROVE BoardInv
  OBVIOUS
<1>1. IInv /\ SignalInv /\ PollInv /\ EchoInv /\ MultInv
  BY InitHolds, SignalInitHolds, PollInitHolds, EchoInitHolds, MultInitHolds
     DEF ExamplesInit
<1>2. loaded \in Drivers => LedInv
  BY LedInitHolds DEF ExamplesInit, LedInit
<1>3. LedIsIdle
  BY DEF ExamplesInit, LedStart, LedIsIdle, LedTypeOK
<1> QED
  BY <1>1, <1>2, <1>3 DEF BoardInv, ExamplesInit

LEMMA BoardNext == BoardInv /\ [ExamplesNext]_examplesVars => BoardInv'
<1> SUFFICES ASSUME BoardInv, [ExamplesNext]_examplesVars
             PROVE  BoardInv'
  OBVIOUS
<1>1. IInv'
  BY StepsOfOne, WaitQueueNextHolds DEF BoardInv
<1>2. SignalInv' /\ PollInv' /\ EchoInv' /\ MultInv'
  BY StepsOfOne, SignalNextHolds, PollNextHolds, EchoNextHolds, MultNextHolds DEF BoardInv
<1>3. loaded' = loaded
  BY StepsOfOne DEF ledVars, LedNext, Begin, GpioWrite, DtGpioWrite, FaultInOrder, Rebind
<1>4. CASE loaded \in Drivers
  <2>1. LedInv'
    BY <1>4, StepsOfOne, LedNextHolds DEF BoardInv
  <2> QED
    BY <1>1, <1>2, <1>3, <1>4, <2>1 DEF BoardInv
<1>5. CASE loaded \notin Drivers
  <2>1. LedIsIdle'
    BY <1>5, StepsOfOne DEF BoardInv, LedIsIdle, LedTypeOK, ledVars
  <2> QED
    BY <1>1, <1>2, <1>3, <1>5, <2>1 DEF BoardInv
<1> QED
  BY <1>4, <1>5

-----------------------------------------------------------------------------
LEMMA BoardAlways == ExamplesSpec => []BoardInv
BY BoardInit, BoardNext, PTL DEF ExamplesSpec

(* Whichever example is loaded, the variables keep values of their kinds.  *)
THEOREM BoardTypes == ExamplesSpec => []ExamplesTypeOK
<1>1. BoardInv => ExamplesTypeOK
  BY DEF BoardInv, ExamplesTypeOK, IInv, SignalInv, PollInv, EchoInv, MultInv, LedInv, LedIsIdle
<1> QED
  BY <1>1, BoardAlways, PTL

(* Whichever example is loaded, for any programs and inputs and any size   *)
(* of its data: the board has every safety property of every example.      *)
THEOREM BoardIsSafe ==
    ExamplesSpec => /\ []NoLostWakeup /\ []ReportsWhatWasWritten /\ []CodeUnused
                    /\ []TaskIsThere
                    /\ []PollinMeansPress /\ []PressIsKept /\ []NoPollerLeftAsleep
                    /\ []EchoWhenAlone /\ []NoBlankIsRead
                    /\ []AnswerIsProduct /\ []LedObeys
<1>1. BoardInv => NoLostWakeup /\ ReportsWhatWasWritten /\ CodeUnused
  BY DEF BoardInv, IInv, Unloading, CodeUnused, Threads
<1>2. BoardInv => TaskIsThere
  BY DEF BoardInv, SignalInv
<1>3. BoardInv => PollinMeansPress /\ PressIsKept /\ NoPollerLeftAsleep
  BY DEF BoardInv, PollInv
<1>4. BoardInv => EchoWhenAlone /\ NoBlankIsRead
  BY DEF BoardInv, EchoInv
<1>5. BoardInv => AnswerIsProduct
  BY DEF BoardInv, MultInv
<1>6. BoardInv => LedObeys
  <2>1. LedIsIdle => LedObeys
    BY DEF LedIsIdle, LedObeys
  <2> QED
    BY <2>1, LedObeysHolds DEF BoardInv
<1> QED
  BY <1>1, <1>2, <1>3, <1>4, <1>5, <1>6, BoardAlways, PTL
=============================================================================
