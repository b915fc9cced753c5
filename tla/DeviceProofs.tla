---------------------------- MODULE DeviceProofs ----------------------------
(***************************************************************************)
(* The examples that programs use through a file, for any number of        *)
(* programs, any inputs and any size of the buffers and of an int.         *)
(*                                                                         *)
(* SignalDevice: a file that two processes hold has come from a fork, so   *)
(* that the close of a program that never took part in one is the last     *)
(* close, and clears the pointer (SharedByFork).                           *)
(*                                                                         *)
(* PollDevice: the programs that have not been told of the last press are  *)
(* all of them while irq_ready is set (FlagIsForAll), and one that goes to *)
(* sleep is on the queue before the flag is set again (SleepersQueued).    *)
(*                                                                         *)
(* MultiplierDevice: whoever may know the multiplier is right (MultInv).   *)
(*                                                                         *)
(* EchoDevice: the buffer begins with the bytes that the only write has    *)
(* stored, or with its text when it has ended (BufferIsText), and the      *)
(* bytes below the length have been stored (StoredBelow).                  *)
(*                                                                         *)
(* LedDevice: what a program has still to write is the end of its text     *)
(* (RestIsSuffix), and the LED shows the last digit of the part that has   *)
(* been taken (GpioShows).                                                 *)
(***************************************************************************)
EXTENDS SignalDevice, PollDevice, MultiplierDevice, EchoDevice, LedDevice, TLAPS

-----------------------------------------------------------------------------
(* The signal                                                              *)

SharedByFork ==
    \A f \in Files : \A p, q \in holders[f] : p # q => p \in sharers

SignalInv == SignalTypeOK /\ TaskIsThere /\ TaskNeedsFile /\ SharedByFork

LEMMA SignalInitHolds == SignalInit => SignalInv
BY NobodyIsNoProgram
   DEF SignalInit, SignalInv, SignalTypeOK, TaskIsThere, TaskNeedsFile, SharedByFork

(* The steps that leave the open files and the pointer alone.              *)
LEMMA OutsideHolds ==
    ASSUME SignalInv, Press \/ \E p \in Programs : StartProgram(p) \/ HandleSignal(p)
    PROVE  SignalInv'
<1> USE DEF SignalInv
<1>1. SignalTypeOK'
  BY DEF SignalTypeOK, StartProgram, HandleSignal, Press
<1>2. UNCHANGED <<task, holders, sharers>> /\ running \subseteq running'
  BY DEF StartProgram, HandleSignal, Press
<1> QED
  BY <1>1, <1>2 DEF TaskIsThere, TaskNeedsFile, SharedByFork, FilesOf

LEMMA OpenHolds ==
    ASSUME SignalInv, NEW p \in Programs, SignalOpen(p)
    PROVE  SignalInv'
<1> USE DEF SignalInv
<1>1. PICK f \in Files : holders[f] = {} /\ holders' = [holders EXCEPT ![f] = {p}]
  BY DEF SignalOpen
<1>2. UNCHANGED <<task, running, ended, pending, owed, sharers>> /\ p \in running
  BY DEF SignalOpen
<1>3. SignalTypeOK'
  BY <1>1, <1>2 DEF SignalTypeOK
<1>4. \A g \in Files : holders[g] # {} => holders'[g] = holders[g]
  BY <1>1 DEF SignalTypeOK
<1>5. TaskIsThere' /\ TaskNeedsFile'
  BY <1>2, <1>4 DEF TaskIsThere, TaskNeedsFile, FilesOf
<1>6. SharedByFork'
  BY <1>1, <1>2 DEF SharedByFork, SignalTypeOK
<1> QED
  BY <1>3, <1>5, <1>6

LEMMA RegisterHolds ==
    ASSUME SignalInv, NEW p \in Programs, Register(p)
    PROVE  SignalInv'
<1> USE DEF SignalInv
<1>1. p \in running
  BY DEF Register, FilesOf, SignalTypeOK
<1> QED
  BY <1>1 DEF Register, SignalTypeOK, TaskIsThere, TaskNeedsFile, SharedByFork, FilesOf

(* What SignalClose and EndProgram have in common: the files of left are   *)
(* those of holders without p in some of them.                             *)
LEMMA DriverCloseHolds ==
    ASSUME SignalInv, NEW p \in Programs, DriverClose(holders'),
           holders' \in [Files -> SUBSET running],
           \A f \in Files : holders'[f] \in {holders[f], holders[f] \ {p}},
           sharers' = sharers, running' \in {running, running \ {p}},
           running' # running => \A f \in Files : p \notin holders'[f]
    PROVE  TaskIsThere' /\ TaskNeedsFile' /\ SharedByFork'
<1> USE DEF SignalInv
<1>1. SharedByFork'
  BY DEF SharedByFork
<1>2. CASE task' = Nobody
  BY <1>1, <1>2 DEF TaskIsThere, TaskNeedsFile
<1>3. CASE task' # Nobody
  <2>1. /\ task' = task
        /\ \A f \in Files : holders[f] # {} => holders'[f] # {}
    BY <1>3 DEF DriverClose
  <2>2. TaskNeedsFile'
    BY <1>3, <2>1 DEF TaskNeedsFile
  <2>3. ASSUME task \notin sharers
        PROVE  task \in running' /\ \E f \in Files : task \in holders'[f]
    <3>1. task \in running /\ \E f \in Files : task \in holders[f]
      BY <1>3, <2>1, <2>3 DEF TaskIsThere, FilesOf
    <3>2. PICK f \in Files : task \in holders[f]
      BY <3>1
    <3>3. holders[f] = {task}
      BY <2>3, <3>2 DEF SharedByFork
    <3>4. task \in holders'[f]
      BY <2>1, <3>3
    <3> QED
      BY <3>1, <3>4
  <2> QED
    BY <1>1, <2>1, <2>2, <2>3 DEF TaskIsThere, FilesOf
<1> QED
  BY <1>2, <1>3

LEMMA CloseHolds ==
    ASSUME SignalInv, NEW p \in Programs, SignalClose(p)
    PROVE  SignalInv'
<1>1. PICK f \in FilesOf(p) : holders' = [holders EXCEPT ![f] = @ \ {p}]
  BY DEF SignalClose
<1>2. /\ DriverClose(holders') /\ owed' = owed \ {p}
      /\ UNCHANGED <<running, ended, pending, sharers>>
  BY DEF SignalClose
<1>3. /\ holders' \in [Files -> SUBSET running]
      /\ \A g \in Files : holders'[g] \in {holders[g], holders[g] \ {p}}
  BY <1>1 DEF SignalInv, SignalTypeOK, FilesOf
<1>4. TaskIsThere' /\ TaskNeedsFile' /\ SharedByFork'
  BY <1>2, <1>3, DriverCloseHolds
<1>5. SignalTypeOK'
  BY <1>2, <1>3 DEF SignalInv, SignalTypeOK, DriverClose
<1> QED
  BY <1>4, <1>5 DEF SignalInv

LEMMA EndHolds ==
    ASSUME SignalInv, NEW p \in Programs, EndProgram(p)
    PROVE  SignalInv'
<1>1. /\ holders' = [f \in Files |-> holders[f] \ {p}]
      /\ DriverClose(holders') /\ owed' = owed \ {p} /\ pending' = pending \ {p}
      /\ running' = running \ {p} /\ ended' = ended \cup {p} /\ sharers' = sharers
  BY DEF EndProgram
<1>2. /\ holders' \in [Files -> SUBSET running']
      /\ \A f \in Files : holders'[f] = holders[f] \ {p}
  BY <1>1 DEF SignalInv, SignalTypeOK
<1>3. TaskIsThere' /\ TaskNeedsFile' /\ SharedByFork'
  <2>1. holders' \in [Files -> SUBSET running]
    BY <1>1, <1>2
  <2> QED
    BY <1>1, <1>2, <2>1, DriverCloseHolds
<1>4. SignalTypeOK'
  BY <1>1, <1>2 DEF SignalInv, SignalTypeOK, DriverClose
<1> QED
  BY <1>3, <1>4 DEF SignalInv

LEMMA ForkHolds ==
    ASSUME SignalInv, NEW p \in Programs, NEW c \in Programs \ {p}, Fork(p, c)
    PROVE  SignalInv'
<1> USE DEF SignalInv
<1>1. /\ running' = running \cup {c} /\ c \notin running \cup ended
      /\ holders' = [f \in Files |->
                       IF p \in holders[f] THEN holders[f] \cup {c} ELSE holders[f]]
      /\ sharers' = IF FilesOf(p) = {} THEN sharers ELSE sharers \cup {p, c}
      /\ UNCHANGED <<task, ended, pending, owed>>
  BY DEF Fork
<1>2. SignalTypeOK'
  BY <1>1 DEF SignalTypeOK
<1>3. \A f \in Files : holders[f] \subseteq holders'[f]
  BY <1>1
<1>4. TaskIsThere' /\ TaskNeedsFile'
  BY <1>1, <1>3 DEF TaskIsThere, TaskNeedsFile, FilesOf
<1>5. ASSUME NEW f \in Files, NEW a \in holders'[f], NEW b \in holders'[f], a # b
      PROVE  a \in sharers'
  <2>1. CASE p \in holders[f]
    <3>1. p \in sharers' /\ c \in sharers' /\ sharers \subseteq sharers'
      BY <1>1, <2>1 DEF FilesOf
    <3>2. a \in {p, c} \/ a \in sharers
      BY <1>1, <1>5, <2>1 DEF SharedByFork
    <3> QED
      BY <3>1, <3>2
  <2>2. CASE p \notin holders[f]
    BY <1>1, <1>5, <2>2 DEF SharedByFork
  <2> QED
    BY <2>1, <2>2
<1> QED
  BY <1>2, <1>4, <1>5 DEF SharedByFork

LEMMA SignalNextHolds == SignalInv /\ [SignalNext]_signalVars => SignalInv'
<1> SUFFICES ASSUME SignalInv, [SignalNext]_signalVars
             PROVE  SignalInv'
  OBVIOUS
<1>1. CASE UNCHANGED signalVars
  BY <1>1 DEF signalVars, SignalInv, SignalTypeOK, TaskIsThere, TaskNeedsFile,
     SharedByFork, FilesOf
<1>2. CASE Press
  BY <1>2, OutsideHolds
<1>3. ASSUME NEW p \in Programs, SignalStep(p)
      PROVE  SignalInv'
  <2>1. CASE StartProgram(p) \/ HandleSignal(p)
    BY <2>1, OutsideHolds
  <2>2. CASE SignalOpen(p)
    BY <2>2, OpenHolds
  <2>3. CASE Register(p)
    BY <2>3, RegisterHolds
  <2>4. CASE SignalClose(p)
    BY <2>4, CloseHolds
  <2>5. CASE EndProgram(p)
    BY <2>5, EndHolds
  <2>6. CASE \E c \in Programs \ {p} : Fork(p, c)
    BY <2>6, ForkHolds
  <2> QED
    BY <1>3, <2>1, <2>2, <2>3, <2>4, <2>5, <2>6 DEF SignalStep
<1> QED
  BY <1>1, <1>2, <1>3 DEF SignalNext

LEMMA SignalAlways == SignalSpec => []SignalInv
BY SignalInitHolds, SignalNextHolds, PTL DEF SignalSpec

(* Whatever programs do with the device, start, end and fork: as long as   *)
(* the registered program shares no file with another process, it exists   *)
(* and has the device open when the interrupt sends its signal.            *)
THEOREM TaskIsAlive == SignalSpec => []TaskIsThere
<1>1. SignalInv => TaskIsThere
  BY DEF SignalInv
<1> QED
  BY <1>1, SignalAlways, PTL

(* No pointer to a program outlives the last close of all.                 *)
THEOREM NoTaskAfterLastClose == SignalSpec => []TaskNeedsFile
<1>1. SignalInv => TaskNeedsFile
  BY DEF SignalInv
<1> QED
  BY <1>1, SignalAlways, PTL

(* One process at a time: nobody else has the device open meanwhile.       *)
OneHolder ==
    \A f, g \in Files : \A p \in holders[f], q \in holders[g] : p = q

(* Who has registered has the device open, and task points to it.          *)
OwedIsTask == \A p \in owed : task = p /\ FilesOf(p) # {}

LEMMA OneHolderOnly ==
    ASSUME OneHolder, NEW p, NEW q, FilesOf(p) # {}, FilesOf(q) # {}
    PROVE  p = q
  BY DEF OneHolder, FilesOf

LEMMA OwedNext ==
    ASSUME SignalTypeOK, OneHolder, OwedIsTask, [SignalNext]_signalVars
    PROVE  OwedIsTask'
<1> USE DEF OwedIsTask
<1>1. CASE UNCHANGED signalVars
  BY <1>1 DEF signalVars, FilesOf
<1>2. CASE Press
  BY <1>2 DEF Press, FilesOf
<1>3. ASSUME NEW p \in Programs, StartProgram(p) \/ HandleSignal(p)
      PROVE  OwedIsTask'
  BY <1>3 DEF StartProgram, HandleSignal, FilesOf
<1>4. ASSUME NEW p \in Programs, SignalOpen(p)
      PROVE  OwedIsTask'
  <2>1. PICK f \in Files : holders[f] = {} /\ holders' = [holders EXCEPT ![f] = {p}]
    BY <1>4 DEF SignalOpen
  <2>2. \A g \in Files : holders[g] \subseteq holders'[g]
    BY <2>1 DEF SignalTypeOK
  <2>3. QED  BY <1>4, <2>2 DEF SignalOpen, FilesOf
<1>5. ASSUME NEW p \in Programs, Register(p)
      PROVE  OwedIsTask'
  <2>1. \A q \in owed : q = p
    BY <1>5, OneHolderOnly DEF Register
  <2>2. FilesOf(p)' = FilesOf(p)
    BY <1>5 DEF Register, FilesOf
  <2>3. QED  BY <1>5, <2>1, <2>2 DEF Register
<1>6. ASSUME NEW p \in Programs, SignalClose(p)
      PROVE  OwedIsTask'
  <2>1. \A q \in owed : q = p
    BY <1>6, OneHolderOnly DEF SignalClose
  <2>2. QED  BY <1>6, <2>1 DEF SignalClose
<1>7. ASSUME NEW p \in Programs, EndProgram(p)
      PROVE  OwedIsTask'
  <2>1. CASE FilesOf(p) # {}
    <3>1. \A q \in owed : q = p
      BY <2>1, OneHolderOnly
    <3>2. QED  BY <1>7, <3>1 DEF EndProgram
  <2>2. CASE FilesOf(p) = {}
    <3>1. \A f \in Files : holders'[f] = holders[f]
      BY <1>7, <2>2 DEF EndProgram, FilesOf
    <3>2. task' = task
      BY <1>7, <3>1 DEF EndProgram, DriverClose
    <3>3. QED  BY <1>7, <3>1, <3>2 DEF EndProgram, FilesOf
  <2>3. QED  BY <2>1, <2>2
<1>8. ASSUME NEW p \in Programs, NEW c \in Programs \ {p}, Fork(p, c)
      PROVE  OwedIsTask'
  <2>1. \A f \in Files : holders[f] \subseteq holders'[f]
    BY <1>8 DEF Fork
  <2>2. QED  BY <1>8, <2>1 DEF Fork, FilesOf
<1> QED
  BY <1>1, <1>2, <1>3, <1>4, <1>5, <1>6, <1>7, <1>8 DEF SignalNext, SignalStep

(* What is true in place of the claim that Signal_lost refutes: while one  *)
(* process at a time has the device open, every press of the button        *)
(* reaches the program that registered.                                    *)
THEOREM SoleHolderIsSignalled ==
    SignalSpec /\ []OneHolder => RegisteredIsSignalled
<1>1. SignalInit => OwedIsTask
  BY DEF SignalInit, OwedIsTask
<1>2. SignalInv => SignalTypeOK
  BY DEF SignalInv
<1>3. SignalTypeOK /\ OneHolder /\ OwedIsTask /\ [SignalNext]_signalVars
          => OwedIsTask'
  BY OwedNext
<1>4. SignalTypeOK /\ OwedIsTask => [Press => owed \subseteq pending']_signalVars
  <2> SUFFICES ASSUME SignalTypeOK, OwedIsTask, Press, NEW p \in owed
               PROVE  p \in pending'
    OBVIOUS
  <2>1. task = p /\ p \in Programs
    BY DEF SignalTypeOK, OwedIsTask
  <2>2. QED  BY <2>1, NobodyIsNoProgram DEF Press
<1> QED
  BY <1>1, <1>2, <1>3, <1>4, SignalAlways, PTL
     DEF SignalSpec, RegisteredIsSignalled

-----------------------------------------------------------------------------
(* The poll example                                                        *)

FlagIsForAll == irq_ready = 1 => untold = Pollers

(* A program that will sleep if the flag is not set is on the queue.       *)
SleepersQueued ==
    \A p \in Pollers : ppc[p] = "test" /\ p \notin expired => p \in table

PollInv ==
    /\ PollTypeOK /\ FlagIsForAll /\ SleepersQueued
    /\ PollinMeansPress /\ PressIsKept /\ NoPollerLeftAsleep

LEMMA PollInitHolds == PollInit => PollInv
<1> SUFFICES ASSUME PollInit
             PROVE  PollInv
  OBVIOUS
<1>1. /\ ~unseen
      /\ irq_ready = 0 /\ handler = "idle" /\ ppc = [p \in Pollers |-> "away"]
      /\ table = {} /\ triggered = {} /\ expired = {} /\ untold = {}
  BY DEF PollInit
<1>2. unseen \in BOOLEAN
  BY DEF PollInit
<1> QED
  BY <1>1, <1>2 DEF PollInv, PollTypeOK, FlagIsForAll, SleepersQueued,
     PollinMeansPress, PressIsKept, NoPollerLeftAsleep

LEMMA HandlerHolds ==
    ASSUME PollInv, PressButton \/ WakePollers
    PROVE  PollInv'
<1> USE DEF PollInv, PollTypeOK, FlagIsForAll, SleepersQueued, PollinMeansPress,
        PressIsKept, NoPollerLeftAsleep
<1>1. CASE PressButton
  BY <1>1 DEF PressButton
<1>2. CASE WakePollers
  BY <1>2 DEF WakePollers
<1> QED
  BY <1>1, <1>2

LEMMA PollerHolds ==
    ASSUME PollInv, NEW p \in Pollers, CallPoll(p) \/ PollRuns(p) \/ PollTimeout(p)
    PROVE  PollInv'
<1> USE DEF PollInv, PollTypeOK, FlagIsForAll, SleepersQueued, PollinMeansPress,
        PressIsKept, NoPollerLeftAsleep, PollGoto
<1>1. CASE CallPoll(p)
  <2>1. CASE PollGoto(p, "away", "enter") /\ UNCHANGED expired
    BY <1>1, <2>1 DEF CallPoll
  <2>2. CASE PollGoto(p, "away", "test") /\ expired' = expired \cup {p}
    BY <1>1, <2>2 DEF CallPoll
  <2> QED
    BY <1>1, <2>1, <2>2 DEF CallPoll
<1>2. CASE PollWait(p)
  BY <1>2 DEF PollWait
<1>3. CASE TestReady(p)
  BY <1>3 DEF TestReady, AfterZero
<1>4. CASE ClearReady(p)
  <2>1. /\ ~unseen' /\ PollGoto(p, "clear", "return")
        /\ irq_ready' = 0 /\ untold' = untold \ {p}
        /\ UNCHANGED <<handler, table, triggered, expired>>
    BY <1>4 DEF ClearReady
  <2>2. unseen' \in BOOLEAN
    BY <1>4 DEF ClearReady
  <2> QED
    BY <2>1, <2>2
<1>5. CASE WakesUp(p)
  BY <1>5 DEF WakesUp
<1>6. CASE PollTimeout(p)
  BY <1>6 DEF PollTimeout
<1>7. CASE ReturnPoll(p)
  BY <1>7 DEF ReturnPoll
<1> QED
  BY <1>1, <1>2, <1>3, <1>4, <1>5, <1>6, <1>7 DEF PollRuns

LEMMA PollNextHolds == PollInv /\ [PollNext]_pollVars => PollInv'
<1> SUFFICES ASSUME PollInv, [PollNext]_pollVars
             PROVE  PollInv'
  OBVIOUS
<1>1. CASE UNCHANGED pollVars
  BY <1>1 DEF pollVars, PollInv, PollTypeOK, FlagIsForAll, SleepersQueued,
     PollinMeansPress, PressIsKept, NoPollerLeftAsleep
<1>2. CASE PollNext
  BY <1>2, HandlerHolds, PollerHolds DEF PollNext
<1> QED
  BY <1>1, <1>2

LEMMA PollAlways == PollSpec => []PollInv
BY PollInitHolds, PollNextHolds, PTL DEF PollSpec

(* For any number of programs that poll: each POLLIN is about a press that *)
(* the program has not been told of.                                       *)
THEOREM PollinIsOfAPress == PollSpec => []PollinMeansPress
<1>1. PollInv => PollinMeansPress
  BY DEF PollInv
<1> QED
  BY <1>1, PollAlways, PTL

(* A press is kept until somebody is told of it.                           *)
THEOREM PressesAreKept == PollSpec => []PressIsKept
<1>1. PollInv => PressIsKept
  BY DEF PollInv
<1> QED
  BY <1>1, PollAlways, PTL

(* Nobody sleeps on while there is a press to be told of.                  *)
THEOREM NobodyIsLeftAsleep == PollSpec => []NoPollerLeftAsleep
<1>1. PollInv => NoPollerLeftAsleep
  BY DEF PollInv
<1> QED
  BY <1>1, PollAlways, PTL

-----------------------------------------------------------------------------
(* The multiplier                                                          *)

LEMMA WrapBounds == \A n \in Int : Wrap(n) \in IntRange
BY HalfAssumption DEF Wrap, IntRange

LEMMA WrapIsIdentity == \A n \in IntRange : Wrap(n) = n
BY HalfAssumption DEF Wrap, IntRange

LEMMA ProductIsInt == \A m, n \in IntRange : m * n \in Int
BY HalfAssumption DEF IntRange

(* Whoever may still know the multiplier is right, the argument is on the  *)
(* stack until it is multiplied, and the product of an unchanged one then. *)
MultInv ==
    /\ MultTypeOK
    /\ AnswerIsProduct
    /\ \A u \in Users : own[u] # Unknown => own[u] = multiplier
    /\ \A u \in Users : upc[u] = "multiply" => answer[u] = arg[u]

LEMMA MultInitHolds == MultInit => MultInv
BY HalfAssumption DEF MultInit, MultInv, MultTypeOK, AnswerIsProduct, IntRange

LEMMA MultStepHolds ==
    ASSUME MultInv, NEW u \in Users,
           \/ CmdReset(u) \/ CmdWrite(u) \/ CmdRead(u)
           \/ FetchFactor(u) \/ Multiply(u) \/ ReturnAnswer(u)
    PROVE  MultInv'
<1> USE DEF MultInv
<1>1. 0 \in IntRange /\ 1 \in IntRange /\ Factors \subseteq IntRange
  BY HalfAssumption, FactorsAreInts DEF IntRange
<1>2. multiplier \in IntRange /\ Unknown \notin IntRange
  BY UnknownIsNone DEF MultTypeOK, IntRange
<1>3. ASSUME NEW n \in IntRange, multiplier' = n, own' = Known(u, n), upc[u] = "out",
             UNCHANGED <<answer, upc, arg>>
      PROVE  MultInv'
  BY <1>2, <1>3 DEF MultTypeOK, AnswerIsProduct, Known
<1>4. CASE CmdReset(u)
  BY <1>1, <1>3, <1>4 DEF CmdReset
<1>5. CASE CmdWrite(u)
  BY <1>1, <1>3, <1>5 DEF CmdWrite
<1>6. CASE CmdRead(u)
  <2>1. MultTypeOK'
    BY <1>1, <1>2, <1>6 DEF CmdRead, MultTypeOK
  <2>2. multiplier = Wrap(1 * multiplier)
    <3>1. 1 * multiplier = multiplier
      BY <1>2 DEF IntRange
    <3> QED
      BY <1>2, <3>1, WrapIsIdentity
  <2>3. AnswerIsProduct'
    BY <1>6, <2>2 DEF CmdRead, MultTypeOK, AnswerIsProduct
  <2> QED
    BY <1>6, <2>1, <2>3 DEF CmdRead, MultTypeOK
<1>7. CASE FetchFactor(u)
  BY <1>1, <1>7 DEF FetchFactor, MultTypeOK, AnswerIsProduct
<1>8. CASE Multiply(u)
  <2>1. answer[u] = arg[u] /\ arg[u] \in IntRange
    BY <1>8 DEF Multiply, MultTypeOK
  <2>2. Wrap(arg[u] * multiplier) \in IntRange
    BY <1>2, <2>1, WrapBounds, ProductIsInt
  <2>3. /\ answer' = [answer EXCEPT ![u] = Wrap(arg[u] * multiplier)]
        /\ upc' = [upc EXCEPT ![u] = "return"]
        /\ UNCHANGED <<multiplier, arg, own>>
    BY <1>8, <2>1 DEF Multiply, MultTypeOK
  <2>4. MultTypeOK'
    BY <2>2, <2>3 DEF MultTypeOK
  <2>5. AnswerIsProduct'
    BY <2>3 DEF MultTypeOK, AnswerIsProduct
  <2> QED
    BY <2>3, <2>4, <2>5 DEF MultTypeOK
<1>9. CASE ReturnAnswer(u)
  BY <1>9 DEF ReturnAnswer, MultTypeOK, AnswerIsProduct
<1> QED
  BY <1>4, <1>5, <1>6, <1>7, <1>8, <1>9

LEMMA MultNextHolds == MultInv /\ [MultNext]_multVars => MultInv'
<1> SUFFICES ASSUME MultInv, [MultNext]_multVars
             PROVE  MultInv'
  OBVIOUS
<1>1. CASE UNCHANGED multVars
  BY <1>1 DEF multVars, MultInv, MultTypeOK, AnswerIsProduct
<1>2. CASE MultNext
  BY <1>2, MultStepHolds DEF MultNext
<1> QED
  BY <1>1, <1>2

LEMMA MultAlways == MultSpec => []MultInv
BY MultInitHolds, MultNextHolds, PTL DEF MultSpec

(* For any number of programs, any arguments and any width of the int: a   *)
(* program whose multiplier nobody has changed gets the products it asks   *)
(* for, modulo the range of the int.                                       *)
THEOREM AnswersAreProducts == MultSpec => []AnswerIsProduct
<1>1. MultInv => AnswerIsProduct
  BY DEF MultInv
<1> QED
  BY <1>1, MultAlways, PTL

-----------------------------------------------------------------------------
(* The character device                                                    *)

(* Bytes below the length, and those that a call has stored or will fetch, *)
(* have been stored.                                                       *)
StoredBelow ==
    /\ \A i \in 1..buffer_pointer : buffer[i] # Blank
    /\ \A c \in Calls("write") : \A i \in 1..call[c].done : buffer[i] # Blank
    /\ \A c \in Calls("read") : \A i \in 1..call[c].todo : buffer[i] # Blank

(* A write that is alone is the only one, and the buffer begins with the   *)
(* bytes that it has stored; with the text of the last write when that was *)
(* alone.                                                                  *)
BufferIsText ==
    /\ clean # Idle =>
         /\ Calls("write") = {}
         /\ clean \in Stored /\ Len(clean) = buffer_pointer
         /\ \A i \in 1..buffer_pointer : buffer[i] = clean[i]
    /\ \A c \in Calls("write") :
         call[c].alone =>
           /\ Calls("write") = {c}
           /\ \A i \in 1..call[c].done : buffer[i] = call[c].text[i]

(* A read that is alone sees the buffer of the last write all the time.    *)
ReadIsText ==
    \A c \in Calls("read") :
        call[c].alone => Calls("write") = {} /\ call[c].text = clean

EchoInv ==
    /\ EchoTypeOK /\ StoredBelow /\ BufferIsText /\ ReadIsText
    /\ EchoWhenAlone /\ NoBlankIsRead

LEMMA EchoInitHolds == EchoInit => EchoInv
BY BufferIsThere
   DEF EchoInit, Stored, EchoInv, EchoTypeOK, Bytes, StoredBelow, BufferIsText, ReadIsText,
   EchoWhenAlone, NoBlankIsRead, Calls

LEMMA LeastBounds ==
    \A a, b \in Nat : Least(a, b) \in Nat /\ Least(a, b) <= a /\ Least(a, b) <= b
BY DEF Least

LEMMA WriteOfType ==
    ASSUME NEW t \in Texts
    PROVE  /\ WriteOf(t) \in WriteCalls
           /\ Len(WriteOf(t).text) <= BufferSize /\ WriteOf(t).done = 0
           /\ WriteOf(t).op = "write"
           /\ WriteOf(t).alone <=> Calls("write") = {}
<1>1. t \in Seq(Letters) /\ Len(t) \in Nat /\ BufferSize \in Nat
  BY TextsAreSequences, BufferIsThere
<1>2. DEFINE n == Least(Len(t), BufferSize)
<1>3. n \in Nat /\ n <= Len(t) /\ n <= BufferSize
  BY <1>1, LeastBounds
<1> HIDE DEF n
<1>4. /\ SubSeq(t, 1, n) \in Stored
      /\ Len(SubSeq(t, 1, n)) = n
  BY <1>1, <1>3 DEF Stored
<1> QED
  BY <1>3, <1>4 DEF WriteOf, WriteCalls, n

(* A write begins: the others are no longer alone.                         *)
LEMMA BeginWriteHolds ==
    ASSUME EchoInv, NEW c \in Clients, BeginWrite(c)
    PROVE  EchoInv'
<1> USE DEF EchoInv
<1>1. PICK t \in Texts : call' = [Overlapped EXCEPT ![c] = WriteOf(t)]
  BY DEF BeginWrite
<1>2. call[c] = Idle /\ clean' = Idle /\ UNCHANGED <<buffer, buffer_pointer>>
  BY DEF BeginWrite
<1>3. /\ call'[c] = WriteOf(t) /\ DOMAIN call' = Clients
      /\ \A d \in Clients \ {c} :
            call'[d] = IF call[d] = Idle THEN Idle ELSE [call[d] EXCEPT !.alone = FALSE]
  BY <1>1 DEF Overlapped
<1>4. ASSUME NEW d \in Clients \ {c}, call'[d] # Idle
      PROVE  /\ call[d] # Idle /\ call'[d] \in WriteCalls \cup ReadCalls
             /\ call[d].op = call'[d].op /\ call[d].text = call'[d].text
             /\ ~call'[d].alone
             /\ call[d].op = "write" => call[d].done = call'[d].done
             /\ call[d].op = "read" =>
                  /\ call[d].todo = call'[d].todo
                  /\ call[d].out = call'[d].out
  <2>1. call[d] # Idle /\ call'[d] = [call[d] EXCEPT !.alone = FALSE]
    BY <1>3, <1>4
  <2>2. CASE call[d] \in WriteCalls
    BY <2>1, <2>2 DEF WriteCalls
  <2>3. CASE call[d] \in ReadCalls
    BY <2>1, <2>3 DEF ReadCalls
  <2> QED
    BY <2>1, <2>2, <2>3 DEF EchoTypeOK
<1>5. Calls("read")' \subseteq Calls("read") \ {c}
  BY <1>3, <1>4, WriteOfType DEF Calls
<1>6. Calls("write")' \subseteq Calls("write") \cup {c}
  BY <1>3, <1>4 DEF Calls
<1>7. \A d \in Calls("read")' : d # c /\ d \in Clients /\ call'[d] # Idle
  BY <1>5 DEF Calls
<1>8. EchoTypeOK'
  <2>1. \A d \in Clients : call'[d] # Idle => call'[d] \in WriteCalls \cup ReadCalls
    BY <1>3, <1>4, WriteOfType
  <2>2. \A d \in Calls("write")' :
           Len(call'[d].text) <= BufferSize /\ call'[d].done <= Len(call'[d].text)
    BY <1>3, <1>4, <1>6, WriteOfType DEF Calls, EchoTypeOK, WriteCalls, Stored
  <2>3. \A d \in Calls("read")' :
           call'[d].todo <= BufferSize /\ Len(call'[d].out) <= call'[d].todo
    BY <1>4, <1>5, <1>7 DEF Calls, EchoTypeOK
  <2> QED
    BY <1>2, <1>3, <2>1, <2>2, <2>3 DEF EchoTypeOK, Stored
<1>9. StoredBelow'
  BY <1>2, <1>3, <1>4, <1>5, <1>6, <1>7, WriteOfType DEF Calls, StoredBelow
<1>10. BufferIsText'
  BY <1>2, <1>3, <1>4, <1>6, WriteOfType DEF Calls, BufferIsText
<1>11. ReadIsText' /\ EchoWhenAlone'
  BY <1>4, <1>7 DEF ReadIsText, EchoWhenAlone
<1>12. NoBlankIsRead'
  BY <1>4, <1>5, <1>7 DEF Calls, NoBlankIsRead
<1> QED
  BY <1>8, <1>9, <1>10, <1>11, <1>12

(* The other steps change the call of one program only.                    *)
LEMMA OtherCalls ==
    ASSUME EchoTypeOK, NEW c \in Clients, NEW r, call' = [call EXCEPT ![c] = r]
    PROVE  /\ DOMAIN call' = Clients /\ call'[c] = r
           /\ \A d \in Clients \ {c} : call'[d] = call[d]
           /\ \A op : Calls(op)' \subseteq Calls(op) \cup {c}
           /\ \A op : Calls(op) \subseteq Calls(op)' \cup {c}
           /\ \A op : c \in Calls(op)' <=> r # Idle /\ r.op = op
           /\ \A op : \A d \in Calls(op)' : d \in Clients /\ call'[d] # Idle
BY DEF EchoTypeOK, Calls

LEMMA WriteByteHolds ==
    ASSUME EchoInv, NEW c \in Clients, WriteByte(c)
    PROVE  EchoInv'
<1> USE DEF EchoInv
<1> DEFINE i == call[c].done + 1
           r == [call[c] EXCEPT !.done = i]
<1>1. /\ c \in Calls("write") /\ call[c].done < Len(call[c].text)
      /\ buffer' = [buffer EXCEPT ![i] = call[c].text[i]]
      /\ call' = [call EXCEPT ![c] = r]
      /\ UNCHANGED <<buffer_pointer, clean>>
  BY DEF WriteByte
<1>2. /\ call[c] \in WriteCalls /\ r \in WriteCalls /\ r.op = "write"
      /\ r.text = call[c].text /\ r.alone = call[c].alone /\ r.done = i
      /\ i \in 1..Len(call[c].text) /\ i \in 1..BufferSize
  <2>1. call[c] \in WriteCalls /\ Len(call[c].text) <= BufferSize
    BY <1>1 DEF Calls, EchoTypeOK, WriteCalls, ReadCalls
  <2>2. Len(call[c].text) \in Nat /\ call[c].done \in Nat
    BY <2>1 DEF WriteCalls, Stored
  <2>3. i \in 1..Len(call[c].text) /\ i \in 1..BufferSize
    BY <1>1, <2>1, <2>2, BufferIsThere
  <2> QED
    BY <2>1, <2>2, <2>3 DEF WriteCalls
<1>3. call[c].text[i] \in Bytes \ {Blank}
  BY <1>2, NoLetterIsBlank DEF WriteCalls, Stored, Bytes
<1> HIDE DEF i, r
<1>4. /\ call'[c] = r /\ \A d \in Clients \ {c} : call'[d] = call[d]
      /\ DOMAIN call' = Clients
      /\ Calls("read")' = Calls("read") /\ c \notin Calls("read")
      /\ Calls("write")' \subseteq Calls("write")
  BY <1>1, <1>2, OtherCalls DEF Calls, EchoTypeOK
<1>5. /\ buffer' \in [1..BufferSize -> Bytes] /\ buffer'[i] = call[c].text[i]
      /\ \A j \in 1..BufferSize : j # i => buffer'[j] = buffer[j]
      /\ \A j \in 1..BufferSize : buffer[j] # Blank => buffer'[j] # Blank
  BY <1>1, <1>2, <1>3 DEF EchoTypeOK
<1>6. EchoTypeOK'
  BY <1>1, <1>2, <1>4, <1>5 DEF EchoTypeOK, Calls
<1>7. \A d \in Calls("write") : call[d].done \in 0..BufferSize
  BY BufferIsThere DEF EchoTypeOK, Calls, WriteCalls, ReadCalls, Stored
<1>8. \A d \in Calls("read") : call[d].todo \in 0..BufferSize
  BY BufferIsThere DEF EchoTypeOK, Calls, WriteCalls, ReadCalls
<1>9. StoredBelow'
  <2>1. \A j \in 1..buffer_pointer' : buffer'[j] # Blank
    BY <1>1, <1>5, BufferIsThere DEF StoredBelow, EchoTypeOK
  <2>2. \A d \in Calls("read")' : \A j \in 1..call'[d].todo : buffer'[j] # Blank
    BY <1>4, <1>5, <1>8, BufferIsThere DEF StoredBelow, Calls
  <2>3. ASSUME NEW d \in Calls("write")', NEW j \in 1..call'[d].done
        PROVE  buffer'[j] # Blank
    <3>1. CASE d = c
      <4>1. j = i \/ j \in 1..call[c].done
        BY <1>2, <1>4, <2>3, <3>1 DEF i, WriteCalls
      <4>2. CASE j = i
        BY <1>3, <1>5, <4>2
      <4>3. CASE j \in 1..call[c].done
        <5>1. buffer[j] # Blank /\ j \in 1..BufferSize
          BY <1>1, <1>7, <4>3, BufferIsThere DEF StoredBelow
        <5> QED
          BY <1>5, <5>1
      <4> QED
        BY <4>1, <4>2, <4>3
    <3>2. CASE d # c
      BY <1>4, <1>5, <1>7, <2>3, <3>2, BufferIsThere DEF StoredBelow, Calls
    <3> QED
      BY <3>1, <3>2
  <2> QED
    BY <2>1, <2>2, <2>3 DEF StoredBelow
<1>10. BufferIsText'
  <2>1. clean' = Idle
    BY <1>1 DEF BufferIsText
  <2>2. ASSUME NEW d \in Calls("write")', call'[d].alone
        PROVE  /\ Calls("write")' = {d}
               /\ \A j \in 1..call'[d].done : buffer'[j] = call'[d].text[j]
    <3>1. call[d].alone /\ d \in Calls("write")
      BY <1>2, <1>4, <2>2 DEF Calls
    <3>2. d = c /\ Calls("write")' = {d}
      BY <1>1, <1>4, <3>1 DEF BufferIsText
    <3>3. ASSUME NEW j \in 1..i
          PROVE  buffer'[j] = call[c].text[j]
      <4>1. j = i \/ (j \in 1..call[c].done /\ j # i)
        BY <1>2 DEF i, WriteCalls
      <4>2. CASE j = i
        BY <1>5, <4>2
      <4>3. CASE j \in 1..call[c].done /\ j # i
        <5>1. j \in 1..BufferSize
          BY <1>2, BufferIsThere
        <5>2. buffer[j] = call[c].text[j]
          BY <1>1, <3>1, <3>2, <4>3 DEF BufferIsText
        <5> QED
          BY <1>5, <4>3, <5>1, <5>2
      <4> QED
        BY <4>1, <4>2, <4>3
    <3> QED
      BY <1>2, <1>4, <3>2, <3>3
  <2> QED
    BY <2>1, <2>2 DEF BufferIsText
<1>11. ReadIsText' /\ EchoWhenAlone' /\ NoBlankIsRead'
  BY <1>1, <1>4 DEF ReadIsText, EchoWhenAlone, NoBlankIsRead, Calls
<1> QED
  BY <1>6, <1>9, <1>10, <1>11

(* The rest of the text becomes zeros: what is stored already stays.       *)
LEMMA FaultInWriteHolds ==
    ASSUME EchoInv, NEW c \in Clients, FaultInWrite(c)
    PROVE  EchoInv'
<1> USE DEF EchoInv
<1> DEFINE text == [i \in DOMAIN call[c].text |->
                      IF i <= call[c].done THEN call[c].text[i] ELSE Nul]
           r == [call[c] EXCEPT !.text = text]
<1>1. /\ c \in Calls("write")
      /\ call' = [call EXCEPT ![c] = r]
      /\ UNCHANGED <<buffer, buffer_pointer, clean>>
  BY DEF FaultInWrite
<1>2. call[c] \in WriteCalls
  BY <1>1 DEF Calls, EchoTypeOK, ReadCalls
<1>3. text \in Stored /\ Len(text) = Len(call[c].text)
  BY <1>2 DEF WriteCalls, Stored
<1>4. /\ r \in WriteCalls /\ r.op = "write" /\ r.text = text
      /\ r.alone = call[c].alone /\ r.done = call[c].done
  BY <1>2, <1>3 DEF WriteCalls
<1>5. \A i \in 1..call[c].done : text[i] = call[c].text[i]
  BY <1>1, <1>2 DEF EchoTypeOK, WriteCalls, Stored
<1> HIDE DEF text, r
<1>6. /\ call'[c] = r /\ \A d \in Clients \ {c} : call'[d] = call[d]
      /\ DOMAIN call' = Clients
      /\ Calls("read")' = Calls("read") /\ c \notin Calls("read")
      /\ Calls("write")' \subseteq Calls("write")
  BY <1>1, <1>4, OtherCalls DEF Calls, EchoTypeOK
<1>7. EchoTypeOK'
  BY <1>1, <1>3, <1>4, <1>6 DEF EchoTypeOK, Calls
<1>8. StoredBelow'
  BY <1>1, <1>4, <1>6 DEF StoredBelow, Calls
<1>9. BufferIsText'
  <2>1. clean' = Idle
    BY <1>1 DEF BufferIsText
  <2>2. \A d \in Calls("write")' : d # c => ~call'[d].alone
    BY <1>1, <1>6 DEF BufferIsText, Calls
  <2>3. ASSUME c \in Calls("write")', call'[c].alone
        PROVE  /\ Calls("write")' = {c}
               /\ \A i \in 1..call'[c].done : buffer'[i] = call'[c].text[i]
    <3>1. /\ Calls("write") = {c}
          /\ \A i \in 1..call[c].done : buffer[i] = call[c].text[i]
      BY <1>1, <1>4, <1>6, <2>3 DEF BufferIsText
    <3>2. Calls("write")' = {c}
      BY <1>6, <2>3, <3>1
    <3> QED
      BY <1>1, <1>4, <1>5, <1>6, <3>1, <3>2
  <2> QED
    BY <2>1, <2>2, <2>3 DEF BufferIsText
<1>10. ReadIsText' /\ EchoWhenAlone' /\ NoBlankIsRead'
  BY <1>1, <1>6 DEF ReadIsText, EchoWhenAlone, NoBlankIsRead, Calls
<1> QED
  BY <1>7, <1>8, <1>9, <1>10

LEMMA EndWriteHolds ==
    ASSUME EchoInv, NEW c \in Clients, EndWrite(c)
    PROVE  EchoInv'
<1> USE DEF EchoInv
<1>1. /\ c \in Calls("write") /\ call[c].done = Len(call[c].text)
      /\ buffer_pointer' = call[c].done
      /\ clean' = IF call[c].alone THEN call[c].text ELSE Idle
      /\ call' = [call EXCEPT ![c] = Idle]
      /\ buffer' = buffer
  BY DEF EndWrite
<1>2. call[c] \in WriteCalls /\ call[c].done \in 0..BufferSize
  BY <1>1, BufferIsThere DEF Calls, EchoTypeOK, ReadCalls, WriteCalls, Stored
<1>3. /\ call'[c] = Idle /\ \A d \in Clients \ {c} : call'[d] = call[d]
      /\ DOMAIN call' = Clients
      /\ Calls("read")' = Calls("read") /\ c \notin Calls("read")
      /\ Calls("write")' = Calls("write") \ {c}
  BY <1>1, OtherCalls DEF Calls, EchoTypeOK
<1>4. EchoTypeOK'
  BY <1>1, <1>2, <1>3 DEF EchoTypeOK, Calls, WriteCalls
<1>5. StoredBelow'
  BY <1>1, <1>3 DEF StoredBelow, Calls
<1>6. BufferIsText'
  BY <1>1, <1>2, <1>3 DEF BufferIsText, Calls, WriteCalls
<1>7. ReadIsText'
  BY <1>1, <1>3 DEF ReadIsText, Calls
<1>8. EchoWhenAlone' /\ NoBlankIsRead'
  BY <1>1, <1>3 DEF EchoWhenAlone, NoBlankIsRead, Calls
<1> QED
  BY <1>4, <1>5, <1>6, <1>7, <1>8

(* A read begins with the length that there is.                            *)
LEMMA BeginReadHolds ==
    ASSUME EchoInv, NEW c \in Clients, BeginRead(c)
    PROVE  EchoInv'
<1> USE DEF EchoInv
<1>1. /\ call[c] = Idle /\ UNCHANGED <<buffer, buffer_pointer, clean>>
      /\ \E count \in Counts :
            call' = [call EXCEPT ![c] =
                [op |-> "read", todo |-> Least(count, buffer_pointer), count |-> count,
                 out |-> <<>>, text |-> clean, alone |-> Calls("write") = {}]]
  BY DEF BeginRead
<1>2. PICK count \in Counts :
            call' = [call EXCEPT ![c] =
                [op |-> "read", todo |-> Least(count, buffer_pointer), count |-> count,
                 out |-> <<>>, text |-> clean, alone |-> Calls("write") = {}]]
  BY <1>1
<1> DEFINE r == [op |-> "read", todo |-> Least(count, buffer_pointer), count |-> count,
                 out |-> <<>>, text |-> clean, alone |-> Calls("write") = {}]
<1>3. Least(count, buffer_pointer) \in 0..buffer_pointer
  BY CountsAreNaturals, BufferIsThere DEF EchoTypeOK, Least
<1>4. r \in ReadCalls /\ r.op = "read" /\ r.todo \in 0..buffer_pointer
  BY <1>3, BufferIsThere DEF EchoTypeOK, ReadCalls
<1>5. /\ r.out = <<>> /\ r.text = clean /\ r.todo = Least(r.count, buffer_pointer)
      /\ r.alone <=> Calls("write") = {}
  OBVIOUS
<1>6. call' = [call EXCEPT ![c] = r]
  BY <1>2
<1> HIDE DEF r
<1>7. /\ call'[c] = r /\ \A d \in Clients \ {c} : call'[d] = call[d]
      /\ DOMAIN call' = Clients
      /\ Calls("read")' \subseteq Calls("read") \cup {c}
      /\ Calls("write")' = Calls("write") /\ c \notin Calls("write")
  BY <1>1, <1>4, <1>6, OtherCalls DEF Calls, EchoTypeOK
<1>8. EchoTypeOK'
  <2>1. r.todo <= BufferSize /\ Len(r.out) = 0 /\ r.todo >= 0
    BY <1>4, <1>5, BufferIsThere DEF EchoTypeOK
  <2>2. \A d \in Calls("read")' :
           call'[d].todo <= BufferSize /\ Len(call'[d].out) <= call'[d].todo
    BY <1>7, <2>1 DEF EchoTypeOK, Calls
  <2>3. \A d \in Clients : call'[d] # Idle => call'[d] \in WriteCalls \cup ReadCalls
    BY <1>4, <1>7 DEF EchoTypeOK
  <2>4. \A d \in Calls("write")' :
           Len(call'[d].text) <= BufferSize /\ call'[d].done <= Len(call'[d].text)
    BY <1>7 DEF EchoTypeOK, Calls
  <2> QED
    BY <1>1, <1>7, <2>2, <2>3, <2>4 DEF EchoTypeOK
<1>9. StoredBelow'
  BY <1>1, <1>4, <1>7 DEF StoredBelow, Calls, EchoTypeOK
<1>10. BufferIsText'
  BY <1>1, <1>7 DEF BufferIsText, Calls
<1>11. ReadIsText'
  BY <1>1, <1>5, <1>7 DEF ReadIsText, Calls
<1>12. EchoWhenAlone'
  <2>1. clean # Idle => r.todo = Least(r.count, Len(clean)) /\ r.out = SubSeq(clean, 1, Len(r.out))
    BY <1>5 DEF BufferIsText
  <2> QED
    BY <1>1, <1>5, <1>7, <2>1 DEF EchoWhenAlone, Calls
<1>13. NoBlankIsRead'
  BY <1>1, <1>5, <1>7 DEF NoBlankIsRead, Calls
<1> QED
  BY <1>8, <1>9, <1>10, <1>11, <1>12, <1>13

LEMMA ReadByteHolds ==
    ASSUME EchoInv, NEW c \in Clients, ReadByte(c)
    PROVE  EchoInv'
<1> USE DEF EchoInv
<1> DEFINE n == Len(call[c].out)
           r == [call[c] EXCEPT !.out = Append(@, buffer[n + 1])]
<1>1. /\ c \in Calls("read") /\ n < call[c].todo
      /\ call' = [call EXCEPT ![c] = r]
      /\ UNCHANGED <<buffer, buffer_pointer, clean>>
  BY DEF ReadByte
<1>2. call[c] \in ReadCalls /\ n \in Nat /\ n + 1 \in 1..call[c].todo
  BY <1>1 DEF Calls, EchoTypeOK, WriteCalls, ReadCalls
<1>3. n + 1 \in 1..BufferSize /\ buffer[n + 1] \in Bytes \ {Blank}
  BY <1>1, <1>2, BufferIsThere DEF EchoTypeOK, StoredBelow, ReadCalls
<1>4. /\ r \in ReadCalls /\ r.op = "read" /\ r.todo = call[c].todo
      /\ r.count = call[c].count /\ r.text = call[c].text /\ r.alone = call[c].alone
      /\ r.out = Append(call[c].out, buffer[n + 1])
  <2>1. Append(call[c].out, buffer[n + 1]) \in Seq(Bytes)
    BY <1>2, <1>3 DEF ReadCalls
  <2> HIDE DEF n
  <2> QED
    BY <1>2, <2>1 DEF ReadCalls
<1>5. /\ Len(r.out) = n + 1 /\ r.out[n + 1] = buffer[n + 1]
      /\ \A i \in 1..n : r.out[i] = call[c].out[i]
      /\ r.out \in Seq(Bytes)
  BY <1>2, <1>3, <1>4 DEF ReadCalls
<1> HIDE DEF r
<1>6. /\ call'[c] = r /\ \A d \in Clients \ {c} : call'[d] = call[d]
      /\ DOMAIN call' = Clients
      /\ Calls("read")' \subseteq Calls("read")
      /\ Calls("write")' = Calls("write") /\ c \notin Calls("write")
  BY <1>1, <1>4, OtherCalls DEF Calls, EchoTypeOK
<1>7. EchoTypeOK'
  BY <1>1, <1>2, <1>4, <1>5, <1>6 DEF EchoTypeOK, Calls
<1>8. StoredBelow' /\ BufferIsText' /\ ReadIsText'
  BY <1>1, <1>4, <1>6 DEF StoredBelow, BufferIsText, ReadIsText, Calls
<1>9. NoBlankIsRead'
  <2>1. \A i \in 1..BufferSize : i <= Len(r.out) => r.out[i] # Blank
    <3> SUFFICES ASSUME NEW i \in 1..BufferSize, i <= Len(r.out)
                 PROVE  r.out[i] # Blank
      OBVIOUS
    <3>1. i = n + 1 \/ i \in 1..n
      BY <1>2, <1>5
    <3> QED
      BY <1>1, <1>3, <1>5, <3>1 DEF NoBlankIsRead
  <2> QED
    BY <1>1, <1>6, <2>1 DEF NoBlankIsRead, Calls
<1>10. EchoWhenAlone'
  <2>1. ASSUME r.alone, r.text # Idle
        PROVE  /\ r.todo = Least(r.count, Len(r.text))
               /\ r.out = SubSeq(r.text, 1, Len(r.out))
    <3>1. /\ r.todo = Least(r.count, Len(r.text)) /\ r.text = clean
          /\ call[c].out = SubSeq(clean, 1, n)
      BY <1>1, <1>4, <2>1 DEF EchoWhenAlone, ReadIsText
    <3>2. /\ clean \in Stored /\ Len(clean) = buffer_pointer
          /\ \A i \in 1..buffer_pointer : buffer[i] = clean[i]
      BY <2>1, <3>1 DEF BufferIsText
    <3>3. n + 1 \in 1..Len(clean)
      <4>1. r.todo <= Len(clean)
        BY <1>4, <3>1, <3>2, CountsAreNaturals, BufferIsThere
           DEF ReadCalls, EchoTypeOK, Least
      <4> QED
        BY <1>2, <1>4, <3>2, <4>1, BufferIsThere DEF EchoTypeOK, ReadCalls
    <3>4. buffer[n + 1] = clean[n + 1]
      BY <3>2, <3>3
    <3>5. Append(SubSeq(clean, 1, n), clean[n + 1]) = SubSeq(clean, 1, n + 1)
      BY <1>2, <3>2, <3>3 DEF Stored
    <3> QED
      BY <1>4, <1>5, <3>1, <3>4, <3>5
  <2> QED
    BY <1>1, <1>6, <2>1 DEF EchoWhenAlone, Calls
<1> QED
  BY <1>7, <1>8, <1>9, <1>10

LEMMA EndReadHolds ==
    ASSUME EchoInv, NEW c \in Clients, EndRead(c)
    PROVE  EchoInv'
<1> USE DEF EchoInv
<1>1. /\ c \in Calls("read") /\ call' = [call EXCEPT ![c] = Idle]
      /\ UNCHANGED <<buffer, buffer_pointer, clean>>
  BY DEF EndRead
<1>2. /\ DOMAIN call' = Clients /\ \A d \in Clients : call'[d] \in {Idle, call[d]}
      /\ Calls("read")' \subseteq Calls("read")
      /\ Calls("write")' = Calls("write") /\ c \notin Calls("write")
      /\ c \notin Calls("read")' /\ \A d \in Clients \ {c} : call'[d] = call[d]
  BY <1>1, OtherCalls DEF Calls, EchoTypeOK
<1>3. EchoTypeOK'
  BY <1>1, <1>2 DEF EchoTypeOK, Calls
<1>4. StoredBelow' /\ BufferIsText' /\ ReadIsText'
  BY <1>1, <1>2 DEF StoredBelow, BufferIsText, ReadIsText, Calls
<1>5. EchoWhenAlone' /\ NoBlankIsRead'
  BY <1>1, <1>2 DEF EchoWhenAlone, NoBlankIsRead, Calls
<1> QED
  BY <1>3, <1>4, <1>5

LEMMA EchoNextHolds == EchoInv /\ [EchoNext]_echoVars => EchoInv'
<1> SUFFICES ASSUME EchoInv, [EchoNext]_echoVars
             PROVE  EchoInv'
  OBVIOUS
<1>1. CASE UNCHANGED echoVars
  BY <1>1 DEF echoVars, EchoInv, EchoTypeOK, StoredBelow, BufferIsText, ReadIsText,
     EchoWhenAlone, NoBlankIsRead, Calls
<1>2. CASE EchoNext
  BY <1>2, BeginWriteHolds, WriteByteHolds, FaultInWriteHolds, EndWriteHolds,
     BeginReadHolds, ReadByteHolds, EndReadHolds DEF EchoNext
<1> QED
  BY <1>1, <1>2

LEMMA EchoAlways == EchoSpec => []EchoInv
BY EchoInitHolds, EchoNextHolds, PTL DEF EchoSpec

(* For any number of programs, any texts and any size of the buffer: a     *)
(* read that overlaps no write returns the last text, if that was written  *)
(* without another write in between.                                       *)
THEOREM TextsComeBack == EchoSpec => []EchoWhenAlone
<1>1. EchoInv => EchoWhenAlone
  BY DEF EchoInv
<1> QED
  BY <1>1, EchoAlways, PTL

(* No read, whatever it overlaps, returns a byte that no write has stored. *)
THEOREM OnlyStoredIsRead == EchoSpec => []NoBlankIsRead
<1>1. EchoInv => NoBlankIsRead
  BY DEF EchoInv
<1> QED
  BY <1>1, EchoAlways, PTL

-----------------------------------------------------------------------------
(* The LED                                                                 *)

Digits == {"0", "1"}

(* How many characters of its text the driver has taken from a program.    *)
Written(p) == IF rest[p] = NoText THEN Len(order[p]) ELSE Len(order[p]) - Len(rest[p])

(* What a program has still to write is the end of its text.               *)
RestIsSuffix ==
    \A p \in Echoers :
        rest[p] # NoText =>
            /\ order[p] # NoText /\ Len(rest[p]) <= Len(order[p])
            /\ rest[p] = <<>> => order[p] = <<>>
            /\ \A i \in 1..Len(rest[p]) : rest[p][i] = order[p][Written(p) + i]

(* A program of which it is known how the LED was is the only writer.      *)
OnlyWriter ==
    \A p \in Echoers :
        before[p] # NoText => \A q \in Echoers \ {p} : rest[q] = NoText

(* The LED shows the last digit of the first d characters.                 *)
Shows(t, d, start, now) ==
    \/ \E i \in 1..d : /\ t[i] \in Digits /\ now = Char(t[i])
                       /\ \A j \in i + 1..d : t[j] \notin Digits
    \/ now = start /\ \A i \in 1..d : t[i] \notin Digits

Watched(p) == order[p] # NoText /\ before[p] # NoText

GpioShows ==
    loaded = "gpio_driver" =>
        /\ my_led = "led"
        /\ \A p \in Echoers : Watched(p) /\ order[p] # <<>> =>
               Shows(order[p], Written(p), before[p], led)

DtShows ==
    loaded = "dt_gpio" /\ my_led = "led" =>
        \A p \in Echoers : Watched(p) /\ Len(order[p]) < Room =>
            IF rest[p] # NoText THEN rest[p] = order[p] /\ led = before[p]
            ELSE led = IF Number(order[p]) = 2 THEN before[p] ELSE Number(order[p])

LedInv ==
    /\ LedTypeOK /\ loaded \in {"gpio_driver", "dt_gpio"}
    /\ RestIsSuffix /\ OnlyWriter /\ GpioShows /\ DtShows

LEMMA CharBounds == \A c : Char(c) \in 0..2 /\ (Char(c) = 2 <=> c \notin Digits)
BY DEF Char, Digits

LEMMA NumberBounds == ASSUME NEW t \in TextsOfLed PROVE Number(t) \in 0..2
BY CharBounds DEF Number

LEMMA LedInitHolds == LedInit => LedInv
BY DriversAreKnown
   DEF LedInit, LedStart, LedInv, LedTypeOK, RestIsSuffix, OnlyWriter, GpioShows, DtShows,
   Watched

(* The last digit that there is.                                           *)
LEMMA LastDigitShown ==
    ASSUME NEW t \in TextsOfLed, NEW start, NEW now, Shows(t, Len(t), start, now)
    PROVE  now = IF LastDigit(t) = 2 THEN start ELSE LastDigit(t)
<1>1. DOMAIN t = 1..Len(t) /\ Len(t) \in Nat
  BY DEF TextsOfLed
<1> DEFINE digits == {i \in DOMAIN t : t[i] \in {"0", "1"}}
<1>2. CASE \E i \in 1..Len(t) : /\ t[i] \in Digits /\ now = Char(t[i])
                               /\ \A j \in i + 1..Len(t) : t[j] \notin Digits
  <2>1. PICK i \in 1..Len(t) : /\ t[i] \in Digits /\ now = Char(t[i])
                               /\ \A j \in i + 1..Len(t) : t[j] \notin Digits
    BY <1>2
  <2>2. i \in digits /\ \A j \in digits : j <= i
    BY <1>1, <2>1 DEF Digits
  <2>3. \A k \in digits : (\A j \in digits : j <= k) => k = i
    BY <1>1, <2>2
  <2>4. (CHOOSE k \in digits : \A j \in digits : j <= k) = i
    <3> HIDE DEF digits
    <3> QED
      BY <2>2, <2>3
  <2>5. LastDigit(t) = Char(t[i])
    BY <2>2, <2>4 DEF LastDigit
  <2> QED
    BY <2>1, <2>5, CharBounds
<1>3. CASE now = start /\ \A i \in 1..Len(t) : t[i] \notin Digits
  <2>1. digits = {}
    BY <1>1, <1>3 DEF Digits
  <2> QED
    BY <1>3, <2>1 DEF LastDigit
<1> QED
  BY <1>2, <1>3 DEF Shows

LEMMA LedObeysHolds == LedInv => LedObeys
<1> SUFFICES ASSUME LedInv, NEW p \in Echoers, rest[p] = NoText, Watched(p),
                    Defined(order[p])
             PROVE  led = IF Asks(order[p]) = 2 THEN before[p] ELSE Asks(order[p])
  BY DEF LedObeys, Watched
<1> USE DEF LedInv
<1>1. order[p] \in TextsOfLed
  BY DEF Watched, LedTypeOK
<1>2. CASE loaded = "gpio_driver"
  <2>1. Shows(order[p], Len(order[p]), before[p], led)
    BY <1>2 DEF GpioShows, Defined, Written
  <2> QED
    BY <1>1, <1>2, <2>1, LastDigitShown DEF Asks
<1>3. CASE loaded = "dt_gpio"
  BY <1>3 DEF DtShows, Defined, Asks
<1> QED
  BY <1>2, <1>3

LEMMA BeginHolds ==
    ASSUME LedInv, NEW p \in Echoers, Begin(p)
    PROVE  LedInv'
<1> USE DEF LedInv
<1>1. PICK t \in Orders : /\ rest' = [rest EXCEPT ![p] = t]
                          /\ order' = [order EXCEPT ![p] = t]
  BY DEF Begin
<1>2. /\ before' = [q \in Echoers |->
                      IF q = p /\ \A r \in Echoers : rest[r] = NoText THEN led ELSE NoText]
      /\ UNCHANGED <<loaded, led, my_led>>
  BY DEF Begin
<1>3. t \in TextsOfLed /\ t # NoText /\ Len(t) \in Nat
  BY OrdersAreTexts, NoTextIsNoText DEF TextsOfLed
<1>4. /\ rest'[p] = t /\ order'[p] = t
      /\ \A q \in Echoers \ {p} : rest'[q] = rest[q] /\ order'[q] = order[q]
  BY <1>1 DEF LedTypeOK
<1>5. \A q \in Echoers : before'[q] # NoText =>
          q = p /\ before'[p] = led /\ \A r \in Echoers : rest[r] = NoText
  BY <1>2
<1>6. LedTypeOK'
  BY <1>1, <1>2, <1>3 DEF LedTypeOK
<1>7. RestIsSuffix'
  <2>1. \A q \in Echoers \ {p} : Written(q)' = Written(q)
    BY <1>4 DEF Written
  <2>2. Written(p)' = 0
    BY <1>3, <1>4 DEF Written
  <2>3. ASSUME NEW q \in Echoers \ {p}, rest'[q] # NoText
        PROVE  /\ order'[q] # NoText /\ Len(rest'[q]) <= Len(order'[q])
               /\ rest'[q] = <<>> => order'[q] = <<>>
               /\ \A i \in 1..Len(rest'[q]) : rest'[q][i] = order'[q][Written(q)' + i]
    BY <1>4, <2>1, <2>3 DEF RestIsSuffix
  <2>4. \A i \in 1..Len(rest'[p]) : rest'[p][i] = order'[p][Written(p)' + i]
    BY <1>3, <1>4, <2>2
  <2> QED
    BY <1>3, <1>4, <2>3, <2>4 DEF RestIsSuffix
<1>8. OnlyWriter'
  BY <1>4, <1>5 DEF OnlyWriter
<1>9. GpioShows'
  <2>1. Written(p)' = 0
    BY <1>3, <1>4 DEF Written
  <2> QED
    BY <1>2, <1>4, <1>5, <2>1 DEF GpioShows, Watched, Shows
<1>10. DtShows'
  BY <1>2, <1>3, <1>4, <1>5 DEF DtShows, Watched
<1> QED
  BY <1>2, <1>6, <1>7, <1>8, <1>9, <1>10

(* The driver takes the first n characters.                                *)
LEMMA TakenRest ==
    ASSUME LedInv, NEW p \in Echoers, NEW n \in Nat \ {0}, rest[p] # NoText, Taken(p, n),
           UNCHANGED order
    PROVE  /\ rest' \in [Echoers -> TextsOfLed \cup {NoText}]
           /\ \A q \in Echoers \ {p} : rest'[q] = rest[q]
           /\ RestIsSuffix'
           /\ n >= Len(rest[p]) => rest'[p] = NoText
           /\ n < Len(rest[p]) => rest'[p] # NoText /\ Len(rest'[p]) = Len(rest[p]) - n
<1> USE DEF LedInv
<1> DEFINE r == rest[p]
<1>1. r \in TextsOfLed /\ Len(r) \in Nat
  BY DEF LedTypeOK, TextsOfLed
<1>2. rest' = [rest EXCEPT ![p] = IF n >= Len(r) THEN NoText ELSE SubSeq(r, n + 1, Len(r))]
  BY DEF Taken
<1>3. rest' \in [Echoers -> TextsOfLed \cup {NoText}]
  <2>1. n < Len(r) => SubSeq(r, n + 1, Len(r)) \in TextsOfLed
    BY <1>1 DEF TextsOfLed
  <2> QED
    BY <1>1, <1>2, <2>1 DEF LedTypeOK
<1>4. \A q \in Echoers \ {p} : rest'[q] = rest[q]
  BY <1>2 DEF LedTypeOK
<1>5. n >= Len(r) => rest'[p] = NoText
  BY <1>2 DEF LedTypeOK
<1>6. ASSUME n < Len(r)
      PROVE  /\ rest'[p] # NoText /\ Len(rest'[p]) = Len(r) - n /\ rest'[p] # <<>>
             /\ \A i \in 1..Len(r) - n : rest'[p][i] = r[n + i]
  <2>1. rest'[p] = SubSeq(r, n + 1, Len(r))
    BY <1>1, <1>2, <1>6 DEF LedTypeOK
  <2>2. /\ rest'[p] \in TextsOfLed /\ Len(rest'[p]) = Len(r) - n
        /\ \A i \in 1..Len(r) - n : rest'[p][i] = r[n + i]
    BY <1>1, <1>6, <2>1 DEF TextsOfLed
  <2>3. rest'[p] # <<>>
    BY <1>1, <1>6, <2>2
  <2> QED
    BY <2>2, <2>3, NoTextIsNoText
<1>7. RestIsSuffix'
  <2>1. \A q \in Echoers \ {p} : Written(q)' = Written(q)
    BY <1>4 DEF Written
  <2>2. ASSUME rest'[p] # NoText
        PROVE  /\ order'[p] # NoText /\ Len(rest'[p]) <= Len(order'[p])
               /\ rest'[p] # <<>>
               /\ \A i \in 1..Len(rest'[p]) : rest'[p][i] = order'[p][Written(p)' + i]
    <3>1. n < Len(r)
      BY <1>1, <1>5, <2>2
    <3>2. order[p] # NoText /\ Len(r) <= Len(order[p]) /\ Len(order[p]) \in Nat
      BY DEF RestIsSuffix, LedTypeOK, TextsOfLed
    <3>3. /\ Written(p) = Len(order[p]) - Len(r) /\ Written(p) \in Int
          /\ Written(p)' = Written(p) + n
      <4>1. Written(p) = Len(order[p]) - Len(r)
        BY DEF Written
      <4>2. Written(p)' = Len(order[p]) - (Len(r) - n)
        BY <1>6, <3>1 DEF Written
      <4> QED
        BY <1>1, <3>2, <4>1, <4>2
    <3>4. ASSUME NEW i \in 1..Len(rest'[p])
          PROVE  rest'[p][i] = order'[p][Written(p)' + i]
      <4>1. i \in 1..Len(r) - n /\ n + i \in 1..Len(r)
        BY <1>1, <1>6, <3>1
      <4>2. r[n + i] = order[p][Written(p) + (n + i)]
        BY <4>1 DEF RestIsSuffix
      <4>3. \A w, j \in Int : w + (n + j) = (w + n) + j
        OBVIOUS
      <4>4. Written(p) + (n + i) = (Written(p) + n) + i
        <5>1. Written(p) \in Int /\ i \in Int
          BY <1>1, <3>3, <4>1
        <5> QED
          BY <4>3, <5>1, Zenon
      <4>5. rest'[p][i] = order[p][Written(p) + (n + i)]
        BY <1>6, <3>1, <4>1, <4>2
      <4> QED
        BY <3>3, <4>4, <4>5
    <3> QED
      BY <1>1, <1>6, <3>1, <3>2, <3>4
  <2> QED
    BY <1>4, <2>1, <2>2 DEF RestIsSuffix
<1> QED
  BY <1>3, <1>4, <1>5, <1>6, <1>7

(* A step of the only writer: what is known of the others is kept.         *)
LEMMA LedTypes ==
    ASSUME LedInv, NEW value \in 0..2, SetLed(value)
    PROVE  led' \in {0, 1}
BY DEF LedInv, LedTypeOK, SetLed

LEMMA GpioWriteHolds ==
    ASSUME LedInv, NEW p \in Echoers, GpioWrite(p)
    PROVE  LedInv'
<1> USE DEF LedInv
<1>1. /\ loaded = "gpio_driver" /\ rest[p] # NoText /\ Taken(p, 1)
      /\ UNCHANGED <<loaded, my_led, order, before>>
  BY DEF GpioWrite
<1>2. PICK value \in 0..2 :
         SetLed(value) /\ (rest[p] # <<>> => value = Char(rest[p][1]))
  BY CharBounds DEF GpioWrite
<1>3. rest[p] \in TextsOfLed /\ Len(rest[p]) \in Nat
  BY <1>1 DEF LedTypeOK, TextsOfLed
<1>4. /\ rest' \in [Echoers -> TextsOfLed \cup {NoText}] /\ RestIsSuffix'
      /\ \A q \in Echoers \ {p} : rest'[q] = rest[q]
      /\ 1 >= Len(rest[p]) => rest'[p] = NoText
      /\ 1 < Len(rest[p]) => rest'[p] # NoText /\ Len(rest'[p]) = Len(rest[p]) - 1
  BY <1>1, TakenRest
<1>5. LedTypeOK' /\ OnlyWriter'
  BY <1>1, <1>2, <1>4, LedTypes DEF LedTypeOK, OnlyWriter
<1>6. \A q \in Echoers \ {p} : before[q] = NoText
  BY <1>1 DEF OnlyWriter
<1>7. ASSUME Watched(p), order[p] # <<>>
      PROVE  Shows(order[p], Written(p)', before[p], led')
  <2> DEFINE t == order[p]
             d == Written(p)
  <2>1. /\ Len(t) \in Nat /\ Len(rest[p]) \in 1..Len(t)
        /\ d = Len(t) - Len(rest[p]) /\ rest[p] # <<>> /\ rest[p][1] = t[d + 1]
    <3>1. t \in TextsOfLed /\ Len(rest[p]) <= Len(t) /\ rest[p] # <<>>
      BY <1>1, <1>7 DEF LedTypeOK, Watched, RestIsSuffix
    <3>2. Len(rest[p]) \in 1..Len(t) /\ Len(t) \in Nat
      BY <1>3, <3>1 DEF TextsOfLed
    <3>3. d = Len(t) - Len(rest[p])
      BY <1>1 DEF Written
    <3>4. rest[p][1] = t[d + 1]
      BY <1>1, <3>2 DEF RestIsSuffix
    <3> QED
      BY <3>1, <3>2, <3>3, <3>4
  <2>2. Written(p)' = d + 1
    <3>1. CASE Len(rest[p]) = 1
      <4>1. Written(p)' = Len(t)
        BY <1>1, <1>4, <3>1 DEF Written
      <4> QED
        BY <2>1, <3>1, <4>1
    <3>2. CASE Len(rest[p]) > 1
      <4>1. Written(p)' = Len(t) - (Len(rest[p]) - 1)
        BY <1>1, <1>4, <3>2 DEF Written
      <4> QED
        BY <2>1, <4>1
    <3>3. Len(rest[p]) = 1 \/ Len(rest[p]) > 1
      <4>1. \A k \in Nat : \A l \in 1..k : l = 1 \/ l > 1
        OBVIOUS
      <4> QED
        BY <2>1, <4>1
    <3> QED
      BY <3>1, <3>2, <3>3
  <2>3. Shows(t, d, before[p], led) /\ my_led = "led"
    BY <1>1, <1>7 DEF GpioShows
  <2>4. led' = IF t[d + 1] \in Digits THEN Char(t[d + 1]) ELSE led
    BY <1>2, <2>1, <2>3, CharBounds DEF SetLed
  <2>5. d \in Nat
    BY <2>1
  <2> HIDE DEF t, d
  <2>6. Shows(t, d + 1, before[p], led')
    <3>1. CASE t[d + 1] \in Digits
      BY <2>4, <2>5, <3>1 DEF Shows
    <3>2. CASE t[d + 1] \notin Digits
      <4>1. led' = led
        BY <2>4, <3>2
      <4>2. CASE led = before[p] /\ \A i \in 1..d : t[i] \notin Digits
        BY <2>5, <3>2, <4>1, <4>2 DEF Shows
      <4>3. ASSUME NEW i \in 1..d, t[i] \in Digits, led = Char(t[i]),
                   \A j \in i + 1..d : t[j] \notin Digits
            PROVE  Shows(t, d + 1, before[p], led')
        <5>1. i \in 1..d + 1 /\ \A j \in i + 1..d + 1 : t[j] \notin Digits
          BY <2>5, <3>2, <4>3
        <5> QED
          BY <4>1, <4>3, <5>1 DEF Shows
      <4> QED
        BY <2>3, <4>2, <4>3 DEF Shows
    <3> QED
      BY <3>1, <3>2
  <2> QED
    BY <2>2, <2>6 DEF t
<1>8. GpioShows'
  BY <1>1, <1>6, <1>7 DEF GpioShows, Watched
<1>9. DtShows'
  BY <1>1 DEF DtShows
<1> QED
  BY <1>1, <1>4, <1>5, <1>8, <1>9

LEMMA DtGpioWriteHolds ==
    ASSUME LedInv, NEW p \in Echoers, DtGpioWrite(p)
    PROVE  LedInv'
<1> USE DEF LedInv
<1>1. /\ loaded = "dt_gpio" /\ rest[p] # NoText /\ Taken(p, Room)
      /\ UNCHANGED <<loaded, my_led, order, before>>
  BY DEF DtGpioWrite
<1>2. rest[p] \in TextsOfLed /\ Len(rest[p]) \in Nat
  BY <1>1 DEF LedTypeOK, TextsOfLed
<1>3. PICK value \in 0..2 :
         SetLed(value) /\ (Len(rest[p]) < Room => value = Number(rest[p]))
  BY <1>2, NumberBounds, RoomAssumption DEF DtGpioWrite
<1>4. /\ rest' \in [Echoers -> TextsOfLed \cup {NoText}] /\ RestIsSuffix'
      /\ \A q \in Echoers \ {p} : rest'[q] = rest[q]
      /\ Room >= Len(rest[p]) => rest'[p] = NoText
  BY <1>1, TakenRest, RoomAssumption
<1>5. LedTypeOK' /\ OnlyWriter'
  BY <1>1, <1>3, <1>4, LedTypes DEF LedTypeOK, OnlyWriter
<1>6. \A q \in Echoers \ {p} : before[q] = NoText
  BY <1>1 DEF OnlyWriter
<1>7. ASSUME my_led = "led", Watched(p), Len(order[p]) < Room
      PROVE  /\ rest'[p] = NoText
             /\ led' = IF Number(order[p]) = 2 THEN before[p] ELSE Number(order[p])
  <2>1. rest[p] = order[p] /\ led = before[p]
    BY <1>1, <1>7 DEF DtShows
  <2> QED
    BY <1>2, <1>3, <1>4, <1>7, <2>1, RoomAssumption DEF SetLed
<1>8. DtShows'
  BY <1>1, <1>6, <1>7 DEF DtShows, Watched
<1>9. GpioShows'
  BY <1>1 DEF GpioShows
<1> QED
  BY <1>1, <1>4, <1>5, <1>8, <1>9

LEMMA FaultInOrderHolds ==
    ASSUME LedInv, NEW p \in Echoers, FaultInOrder(p)
    PROVE  LedInv'
<1> USE DEF LedInv
<1>1. /\ rest[p] # NoText
      /\ rest' = [rest EXCEPT ![p] = NoText] /\ order' = [order EXCEPT ![p] = NoText]
      /\ UNCHANGED <<loaded, my_led, before>>
  BY DEF FaultInOrder
<1>2. PICK n \in 0..Len(rest[p]) - 1 : SetLed(Number(SubSeq(rest[p], 1, n)))
  BY DEF FaultInOrder
<1>3. led' \in {0, 1}
  <2>1. SubSeq(rest[p], 1, n) \in TextsOfLed
    BY <1>1 DEF LedTypeOK, TextsOfLed
  <2> QED
    BY <1>2, <2>1, NumberBounds, LedTypes
<1>4. /\ rest'[p] = NoText /\ order'[p] = NoText
      /\ \A q \in Echoers \ {p} : rest'[q] = rest[q] /\ order'[q] = order[q]
  BY <1>1 DEF LedTypeOK
<1>5. \A q \in Echoers \ {p} : before[q] = NoText
  BY <1>1 DEF OnlyWriter
<1>6. LedTypeOK' /\ OnlyWriter'
  BY <1>1, <1>3, <1>4 DEF LedTypeOK, OnlyWriter
<1>7. RestIsSuffix'
  <2>1. \A q \in Echoers \ {p} : Written(q)' = Written(q)
    BY <1>4 DEF Written
  <2> QED
    BY <1>4, <2>1 DEF RestIsSuffix
<1>8. GpioShows' /\ DtShows'
  BY <1>1, <1>4, <1>5 DEF GpioShows, DtShows, Watched
<1> QED
  BY <1>1, <1>6, <1>7, <1>8

LEMMA LedNextHolds == LedInv /\ [LedNext]_ledVars => LedInv'
<1> SUFFICES ASSUME LedInv, [LedNext]_ledVars
             PROVE  LedInv'
  OBVIOUS
<1>1. CASE UNCHANGED ledVars
  BY <1>1 DEF ledVars, LedInv, LedTypeOK, RestIsSuffix, OnlyWriter, GpioShows, DtShows,
     Watched, Written
<1>2. CASE Rebind
  BY <1>2 DEF Rebind, LedInv, LedTypeOK, RestIsSuffix, OnlyWriter, GpioShows, DtShows,
     Watched, Written
<1>3. CASE LedNext /\ ~Rebind
  BY <1>3, BeginHolds, GpioWriteHolds, DtGpioWriteHolds, FaultInOrderHolds DEF LedNext
<1> QED
  BY <1>1, <1>2, <1>3

LEMMA LedAlways == LedSpec => []LedInv
BY LedInitHolds, LedNextHolds, PTL DEF LedSpec

(* For any number of programs, any texts and any size of the buffer: a     *)
(* program that writes alone leaves the LED as its text asks for.          *)
THEOREM LedDoesAsAsked == LedSpec => []LedObeys
<1>1. LedInv => LedObeys
  BY LedObeysHolds
<1> QED
  BY <1>1, LedAlways, PTL
=============================================================================
