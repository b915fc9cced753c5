------------------------------- MODULE Examples -------------------------------
(***************************************************************************)
(* The board with one of the examples of kernel/ loaded.  All of them      *)
(* create the class "cotti" (DEVICE_CLASS_NAME), and three of them take    *)
(* the pin of the button: there is one at a time.  Each is a module of its *)
(* own, and what is said of an example in its module is said here of a     *)
(* board that may have any of them.                                        *)
(***************************************************************************)
EXTENDS WaitQueue, SignalDevice, PollDevice, EchoDevice, MultiplierDevice, LedDevice

Others == {"waitqueue", "send_signal", "poll", "char_device", "ioctl"}

examplesVars ==
    <<vars, signalVars, pollVars, echoVars, multVars, ledVars>>

ExamplesInit ==
    /\ loaded \in Others \cup Drivers
    /\ Init /\ SignalInit /\ PollInit /\ EchoInit /\ MultInit /\ LedStart

-----------------------------------------------------------------------------
(* The steps of the loaded example leave the others alone.                 *)

InWaitQueue ==
    /\ loaded = "waitqueue"
    /\ UNCHANGED <<signalVars, pollVars, echoVars, multVars, ledVars>>

InSignal ==
    /\ loaded = "send_signal"
    /\ UNCHANGED <<vars, pollVars, echoVars, multVars, ledVars>>

InPoll ==
    /\ loaded = "poll"
    /\ UNCHANGED <<vars, signalVars, echoVars, multVars, ledVars>>

InEcho ==
    /\ loaded = "char_device"
    /\ UNCHANGED <<vars, signalVars, pollVars, multVars, ledVars>>

InMultiplier ==
    /\ loaded = "ioctl"
    /\ UNCHANGED <<vars, signalVars, pollVars, echoVars, ledVars>>

InLed ==
    /\ loaded \in Drivers
    /\ UNCHANGED <<vars, signalVars, pollVars, echoVars, multVars>>

WaitQueueStep ==
    \/ \E t \in Threads :
         \/ InWaitQueue /\ Loop(t)
         \/ InWaitQueue /\ Test(t)
         \/ InWaitQueue /\ Queue(t)
         \/ InWaitQueue /\ Check(t)
         \/ InWaitQueue /\ Woken(t)
         \/ InWaitQueue /\ Take(t)
    \/ InWaitQueue /\ TimeoutReached
    \/ InWaitQueue /\ LastTest
    \/ \E w \in Writers :
         \/ InWaitQueue /\ Open(w)
         \/ InWaitQueue /\ Store(w)
         \/ InWaitQueue /\ WakeFirst(w)
         \/ InWaitQueue /\ WakeSecond(w)
         \/ InWaitQueue /\ Close(w)
    \/ InWaitQueue /\ Rmmod
    \/ InWaitQueue /\ WakeStopped(1, "stop1", "join1")
    \/ InWaitQueue /\ StopSecond
    \/ InWaitQueue /\ WakeStopped(2, "stop2", "join2")
    \/ InWaitQueue /\ Unloaded
    \/ InWaitQueue /\ Insmod

SignalDeviceStep ==
    \/ \E p \in Programs :
         \/ InSignal /\ StartProgram(p)
         \/ InSignal /\ SignalOpen(p)
         \/ InSignal /\ Register(p)
         \/ InSignal /\ SignalClose(p)
         \/ InSignal /\ EndProgram(p)
         \/ InSignal /\ HandleSignal(p)
         \/ \E c \in Programs \ {p} : InSignal /\ Fork(p, c)
    \/ InSignal /\ Press

PollDeviceStep ==
    \/ \E p \in Pollers :
         \/ InPoll /\ CallPoll(p)
         \/ InPoll /\ PollWait(p)
         \/ InPoll /\ TestReady(p)
         \/ InPoll /\ ClearReady(p)
         \/ InPoll /\ WakesUp(p)
         \/ InPoll /\ PollTimeout(p)
         \/ InPoll /\ ReturnPoll(p)
    \/ InPoll /\ PressButton
    \/ InPoll /\ WakePollers

EchoDeviceStep ==
    \E c \in Clients :
        \/ InEcho /\ BeginWrite(c)
        \/ InEcho /\ WriteByte(c)
        \/ InEcho /\ FaultInWrite(c)
        \/ InEcho /\ EndWrite(c)
        \/ InEcho /\ BeginRead(c)
        \/ InEcho /\ ReadByte(c)
        \/ InEcho /\ EndRead(c)

MultiplierDeviceStep ==
    \E u \in Users :
        \/ InMultiplier /\ CmdReset(u)
        \/ InMultiplier /\ CmdWrite(u)
        \/ InMultiplier /\ CmdRead(u)
        \/ InMultiplier /\ FetchFactor(u)
        \/ InMultiplier /\ Multiply(u)
        \/ InMultiplier /\ ReturnAnswer(u)

LedDeviceStep ==
    \/ \E p \in Echoers :
         \/ InLed /\ Begin(p)
         \/ InLed /\ GpioWrite(p)
         \/ InLed /\ DtGpioWrite(p)
         \/ InLed /\ FaultInOrder(p)
    \/ InLed /\ Rebind

ExamplesNext ==
    \/ WaitQueueStep \/ SignalDeviceStep \/ PollDeviceStep
    \/ EchoDeviceStep \/ MultiplierDeviceStep \/ LedDeviceStep

ExamplesSpec == ExamplesInit /\ [][ExamplesNext]_examplesVars

(* The fairness of LiveSpec and PollLiveSpec, while the example is loaded. *)
ExamplesLiveSpec ==
    /\ ExamplesSpec
    /\ \A t \in Threads : WF_examplesVars(InWaitQueue /\ Thread(t))
    /\ \A w \in Writers :
         /\ WF_examplesVars(InWaitQueue /\ WakeFirst(w))
         /\ WF_examplesVars(InWaitQueue /\ WakeSecond(w))
    /\ WF_examplesVars(InWaitQueue /\ Exit)
    /\ WF_examplesVars(InPoll /\ WakePollers)
    /\ \A p \in Pollers : WF_examplesVars(InPoll /\ PollRuns(p))

(* The variables of every example keep values of their kinds.              *)
ExamplesTypeOK ==
    /\ TypeOK /\ SignalTypeOK /\ PollTypeOK
    /\ EchoTypeOK /\ MultTypeOK /\ LedTypeOK
=============================================================================
