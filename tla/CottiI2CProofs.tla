--------------------------- MODULE CottiI2CProofs ---------------------------
(***************************************************************************)
(* Type correctness of CottiI2C, the inductive invariant, and what follows *)
(* from it when no answer is late: the bus belongs to the holder of        *)
(* lock_bus, g_len stays inside g_write, a call that reports success was   *)
(* performed, and a call is what RegisterBus promises to its caller.       *)
(* Nobody is ever stuck, late answers or not.                              *)
(***************************************************************************)
EXTENDS CottiI2CReaders, CottiI2CProgress, TLAPS

LEMMA Widths == U8Max \in Nat /\ U16Max \in Nat /\ U16Max > 2
  BY DEF U8Max, U16Max

(* The arguments of a call in progress.                                    *)
LEMMA Arguments ==
  ASSUME CallTypes, NEW p \in Procs, pc[p] # "idle"
  PROVE  /\ req[p] \in Requests(p)
         /\ req[p].reg \in Byte
         /\ ~IsRead(p) => req[p] \in Writes /\ req[p].val \in Byte
         /\ IsRead(p) => p \in Readers
<1>1. req[p] \in Requests(p)
  BY DEF CallTypes
<1>2. req[p] \in Writes \cup Reads
  BY <1>1 DEF Requests
<1>3. req[p].reg \in Byte
  BY <1>2 DEF Reads, Writes
<1>4. req[p] \in Writes => req[p].val \in Byte /\ req[p].op = "write"
  BY DEF Writes
<1>5. req[p] \in Reads => req[p].op = "read"
  BY DEF Reads
<1>6. QED
  BY <1>1, <1>2, <1>3, <1>4, <1>5 DEF Requests, IsRead

(* Type correctness holds with late answers, too.                          *)
LEMMA Started == Init => MasterInit /\ mem \in [Byte -> Byte]
  BY BytesAssumption DEF Init

LEMMA TypeInit == MasterInit /\ mem \in [Byte -> Byte] => TypeOK
<1> SUFFICES ASSUME MasterInit, mem \in [Byte -> Byte] PROVE TypeOK
  OBVIOUS
<1> USE BytesAssumption, PollsAssumption, Widths DEF MasterInit
<1>1. CallTypes        BY DEF CallTypes, Labels, Err
<1>2. BufferTypes      BY DEF BufferTypes
<1>3. ControllerTypes  BY DEF ControllerTypes
<1>4. SensorTypes      BY DEF SensorTypes, Outcomes
<1>5. QED  BY <1>1, <1>2, <1>3, <1>4 DEF TypeOK

LEMMA TypeCalls ==
  ASSUME TypeOK, NEW p \in Procs, Call(p) \/ Proceed(p) \/ DrainSignal(p)
  PROVE  CallTypes'
<1> USE DEF TypeOK, CallTypes, Goto, Moves, Labels
<1>1. CASE Call(p)
  <2>1. PICK r \in Requests(p) : req' = [req EXCEPT ![p] = r]
    BY <1>1 DEF Call, CallWith
  <2>2. r \in {None} \cup Writes \cup Reads
    BY DEF Requests
  <2>3. QED  BY <1>1, <2>1, <2>2, PollsAssumption DEF Call, CallWith, Err
<1>2. CASE PollFree(p)  BY <1>2 DEF PollFree
<1>3. CASE PollAgain(p)  BY <1>3, PollsAssumption DEF PollAgain
<1>4. CASE PollGiveUp(p)  BY <1>4 DEF PollGiveUp, Err
<1>5. CASE Lock(p)  BY <1>5 DEF Lock
<1>6. CASE Count(p)  BY <1>6 DEF Count
<1>7. CASE Start(p)  BY <1>7 DEF Start
<1>8. CASE Drain(p)  BY <1>8 DEF Drain
<1>9. CASE DrainTimeout(p)  BY <1>9 DEF DrainTimeout
<1>10. CASE Stop(p)  BY <1>10 DEF Stop
<1>11. CASE StopTimeout(p)  BY <1>11 DEF StopTimeout
<1>12. CASE RxCount(p)  BY <1>12 DEF RxCount
<1>13. CASE RxStart(p)  BY <1>13 DEF RxStart
<1>14. CASE RxData(p)  BY <1>14 DEF RxData
<1>15. CASE RxStop(p)  BY <1>15 DEF RxStop
<1>16. CASE RxTimeout(p)  BY <1>16 DEF RxTimeout
<1>17. CASE Fail(p)  BY <1>17 DEF Fail, Err
<1>18. CASE RxFail(p)  BY <1>18 DEF RxFail, Err
<1>19. CASE FinishWrite(p)  BY <1>19, BytesAssumption DEF FinishWrite
<1>20. CASE FinishRead(p)  BY <1>20 DEF FinishRead
<1>21. CASE Return(p)  BY <1>21 DEF Return, BufferTypes
<1>22. CASE DrainSignal(p)  BY <1>22 DEF DrainSignal
<1>23. QED
  BY <1>1, <1>2, <1>3, <1>4, <1>5, <1>6, <1>7, <1>8, <1>9, <1>10, <1>11,
     <1>12, <1>13, <1>14, <1>15, <1>16, <1>17, <1>18, <1>19, <1>20,
     <1>21, <1>22
     DEF Proceed

LEMMA TypeBuffers ==
  ASSUME TypeOK, NEW p \in Procs, Call(p) \/ Proceed(p) \/ DrainSignal(p)
  PROVE  BufferTypes'
<1> USE Widths DEF TypeOK, BufferTypes, bufVars, compVars, SetCount, Moves
<1>1. CASE Call(p)  BY <1>1 DEF Call, CallWith
<1>2. CASE PollFree(p)  BY <1>2 DEF PollFree
<1>3. CASE PollAgain(p)  BY <1>3 DEF PollAgain
<1>4. CASE PollGiveUp(p)  BY <1>4 DEF PollGiveUp
<1>5. CASE Lock(p)  BY <1>5 DEF Lock
<1>6. CASE Count(p)
  <2>1. req[p].reg \in Byte /\ (~IsRead(p) => req[p].val \in Byte)
    BY <1>6, Arguments DEF Count, Goto
  <2>2. gWrite' \in [0..1 -> Byte]
    BY <1>6, <2>1 DEF Count
  <2>3. QED  BY <1>6, <2>2 DEF Count
<1>7. CASE Start(p)  BY <1>7 DEF Start
<1>8. CASE Drain(p)  BY <1>8 DEF Drain
<1>9. CASE DrainTimeout(p)  BY <1>9 DEF DrainTimeout
<1>10. CASE Stop(p)  BY <1>10 DEF Stop
<1>11. CASE StopTimeout(p)  BY <1>11 DEF StopTimeout
<1>12. CASE RxCount(p)  BY <1>12 DEF RxCount
<1>13. CASE RxStart(p)  BY <1>13 DEF RxStart
<1>14. CASE RxData(p)  BY <1>14 DEF RxData
<1>15. CASE RxStop(p)  BY <1>15 DEF RxStop
<1>16. CASE RxTimeout(p)  BY <1>16 DEF RxTimeout
<1>17. CASE Fail(p)  BY <1>17 DEF Fail
<1>18. CASE RxFail(p)  BY <1>18 DEF RxFail
<1>19. CASE FinishWrite(p)  BY <1>19 DEF FinishWrite
<1>20. CASE FinishRead(p)  BY <1>20 DEF FinishRead
<1>21. CASE Return(p)  BY <1>21 DEF Return
<1>22. CASE DrainSignal(p)  BY <1>22 DEF DrainSignal
<1>23. QED
  BY <1>1, <1>2, <1>3, <1>4, <1>5, <1>6, <1>7, <1>8, <1>9, <1>10, <1>11,
     <1>12, <1>13, <1>14, <1>15, <1>16, <1>17, <1>18, <1>19, <1>20,
     <1>21, <1>22
     DEF Proceed

LEMMA TypeControllerSensor ==
  ASSUME TypeOK, NEW p \in Procs, Call(p) \/ Proceed(p) \/ DrainSignal(p)
  PROVE  ControllerTypes' /\ SensorTypes'
<1> USE DEF TypeOK, ControllerTypes, SensorTypes, Outcomes, hwVars, sensorVars,
            SetCount, Moves
<1>1. CASE Call(p)  BY <1>1 DEF Call, CallWith
<1>2. CASE PollFree(p)  BY <1>2 DEF PollFree
<1>3. CASE PollAgain(p)  BY <1>3 DEF PollAgain
<1>4. CASE PollGiveUp(p)  BY <1>4 DEF PollGiveUp
<1>5. CASE Lock(p)  BY <1>5 DEF Lock
<1>6. CASE Count(p)  BY <1>6 DEF Count
<1>7. CASE Start(p)  BY <1>7 DEF Start
<1>8. CASE Drain(p)  BY <1>8 DEF Drain
<1>9. CASE DrainTimeout(p)  BY <1>9 DEF DrainTimeout
<1>10. CASE Stop(p)  BY <1>10 DEF Stop
<1>11. CASE StopTimeout(p)  BY <1>11 DEF StopTimeout
<1>12. CASE RxCount(p)  BY <1>12 DEF RxCount
<1>13. CASE RxStart(p)  BY <1>13 DEF RxStart
<1>14. CASE RxData(p)  BY <1>14 DEF RxData
<1>15. CASE RxStop(p)  BY <1>15 DEF RxStop
<1>16. CASE RxTimeout(p)  BY <1>16 DEF RxTimeout
<1>17. CASE Fail(p)  BY <1>17 DEF Fail
<1>18. CASE RxFail(p)  BY <1>18 DEF RxFail
<1>19. CASE FinishWrite(p)  BY <1>19 DEF FinishWrite
<1>20. CASE FinishRead(p)  BY <1>20 DEF FinishRead
<1>21. CASE Return(p)  BY <1>21 DEF Return
<1>22. CASE DrainSignal(p)  BY <1>22 DEF DrainSignal
<1>23. QED
  BY <1>1, <1>2, <1>3, <1>4, <1>5, <1>6, <1>7, <1>8, <1>9, <1>10, <1>11,
     <1>12, <1>13, <1>14, <1>15, <1>16, <1>17, <1>18, <1>19, <1>20,
     <1>21, <1>22
     DEF Proceed

LEMMA TypeHardware ==
  ASSUME TypeOK, Isr \/ Transfer \/ HwAbort
  PROVE  TypeOK'
<1> USE Widths DEF TypeOK, procVars, bufVars, compVars, sensorVars
<1>1. CASE Isr
  <2>1. gLen' \in 0..U16Max
    BY <1>1 DEF Isr, LenAfterTx, LenAfterRx, Decrement, BufferTypes
  <2>2. tx' \in Byte \cup {None}
    BY <1>1 DEF Isr, BufferTypes, ControllerTypes
  <2>3. BufferTypes'
    BY <1>1, <2>1 DEF Isr, BufferTypes, ControllerTypes
  <2>4. ControllerTypes'
    BY <1>1, <2>2 DEF Isr, ControllerTypes
  <2>5. CallTypes' /\ SensorTypes'
    BY <1>1 DEF Isr, CallTypes, SensorTypes
  <2>6. QED  BY <2>3, <2>4, <2>5
<1>2. CASE HwXrdy \/ HwStop \/ HwAbort
  <2>1. ControllerTypes'
    BY <1>2 DEF HwXrdy, HwStop, HwAbort, ControllerTypes, Interrupts
  <2>2. CallTypes' /\ BufferTypes' /\ SensorTypes'
    BY <1>2 DEF HwXrdy, HwStop, HwAbort, CallTypes, BufferTypes, SensorTypes
  <2>3. QED  BY <2>1, <2>2
<1>3. CASE HwSend
  <2>1. ControllerTypes'
    BY <1>3 DEF HwSend, ControllerTypes
  <2>2. SensorTypes'
    BY <1>3 DEF HwSend, ControllerTypes, SensorTypes, Outcomes
  <2>3. CallTypes' /\ BufferTypes'
    BY <1>3 DEF HwSend, CallTypes, BufferTypes
  <2>4. QED  BY <2>1, <2>2, <2>3
<1>4. CASE HwRecv
  <2>1. ControllerTypes'
    BY <1>4 DEF HwRecv, ControllerTypes, SensorTypes, Interrupts
  <2>2. SensorTypes'
    BY <1>4 DEF HwRecv, ControllerTypes, SensorTypes, Outcomes
  <2>3. CallTypes' /\ BufferTypes'
    BY <1>4 DEF HwRecv, CallTypes, BufferTypes
  <2>4. QED  BY <2>1, <2>2, <2>3
<1>5. QED  BY <1>1, <1>2, <1>3, <1>4 DEF Transfer

(* Every step keeps the types.                                             *)
LEMMA TypeNext ==
  ASSUME TypeOK, [Next]_vars
  PROVE  TypeOK'
<1>1. ASSUME NEW p \in Procs, Call(p) \/ Proceed(p) \/ DrainSignal(p)
      PROVE  TypeOK'
  BY <1>1, TypeCalls, TypeBuffers, TypeControllerSensor DEF TypeOK
<1>2. CASE Isr \/ Transfer \/ HwAbort
  BY <1>2, TypeHardware
<1>3. CASE UNCHANGED vars
  BY <1>3 DEF TypeOK, CallTypes, BufferTypes, ControllerTypes, SensorTypes,
              vars
<1>4. QED  BY <1>1, <1>2, <1>3 DEF Next

(* TypeOK of cotti_i2c.c for every number of processes and every byte set. *)
THEOREM TypeCorrect == Spec => []TypeOK
<1>1. Init => TypeOK
  BY Started, TypeInit
<1>2. TypeOK /\ [Next]_vars => TypeOK'
  BY TypeNext
<1>3. QED  BY <1>1, <1>2, PTL DEF Spec

(* lock_bus changes hands only with the program counter of the process     *)
(* that takes it or gives it back.                                         *)
LEMMA LockInit == MasterInit => LockPaired
  BY NoneIsNoValue DEF MasterInit, LockPaired, Locked

LEMMA LockCalls ==
  ASSUME TypeOK, LockPaired,
         NEW p \in Procs, Call(p) \/ Proceed(p) \/ DrainSignal(p)
  PROVE  LockPaired'
<1> USE NoneIsNoValue
    DEF TypeOK, CallTypes, LockPaired, Locked, Labels, Goto, Moves
<1>1. CASE Call(p)  BY <1>1 DEF Call, CallWith
<1>2. CASE PollFree(p)  BY <1>2 DEF PollFree
<1>3. CASE PollAgain(p)  BY <1>3 DEF PollAgain
<1>4. CASE PollGiveUp(p)  BY <1>4 DEF PollGiveUp
<1>5. CASE Lock(p)  BY <1>5 DEF Lock
<1>6. CASE Count(p)  BY <1>6 DEF Count
<1>7. CASE Start(p)  BY <1>7 DEF Start
<1>8. CASE Drain(p)  BY <1>8 DEF Drain
<1>9. CASE DrainTimeout(p)  BY <1>9 DEF DrainTimeout
<1>10. CASE Stop(p)  BY <1>10 DEF Stop
<1>11. CASE StopTimeout(p)  BY <1>11 DEF StopTimeout
<1>12. CASE RxCount(p)  BY <1>12 DEF RxCount
<1>13. CASE RxStart(p)  BY <1>13 DEF RxStart
<1>14. CASE RxData(p)  BY <1>14 DEF RxData
<1>15. CASE RxStop(p)  BY <1>15 DEF RxStop
<1>16. CASE RxTimeout(p)  BY <1>16 DEF RxTimeout
<1>17. CASE Fail(p)  BY <1>17 DEF Fail
<1>18. CASE RxFail(p)  BY <1>18 DEF RxFail
<1>19. CASE FinishWrite(p)  BY <1>19 DEF FinishWrite
<1>20. CASE FinishRead(p)  BY <1>20 DEF FinishRead
<1>21. CASE Return(p)  BY <1>21 DEF Return
<1>22. CASE DrainSignal(p)  BY <1>22 DEF DrainSignal
<1>23. QED
  BY <1>1, <1>2, <1>3, <1>4, <1>5, <1>6, <1>7, <1>8, <1>9, <1>10, <1>11,
     <1>12, <1>13, <1>14, <1>15, <1>16, <1>17, <1>18, <1>19, <1>20,
     <1>21, <1>22
     DEF Proceed

LEMMA LockNext ==
  ASSUME TypeOK, LockPaired, [Next]_vars
  PROVE  LockPaired'
<1>1. CASE Isr \/ Transfer \/ HwAbort
  BY <1>1 DEF Isr, Transfer, HwXrdy, HwSend, HwRecv, HwStop, HwAbort,
              procVars, LockPaired
<1>2. CASE UNCHANGED vars
  BY <1>2 DEF vars, LockPaired
<1>3. QED  BY <1>1, <1>2, LockCalls DEF Next

(* Whatever the controller and the sensor do, late answers included: every *)
(* call that takes lock_bus gives it back, on the error paths, too.        *)
THEOREM LockIsPaired == Spec => []LockPaired
<1>1. Init => LockPaired
  BY Started, LockInit
<1>2. TypeOK /\ LockPaired /\ [Next]_vars => LockPaired'
  BY LockNext
<1>3. QED  BY <1>1, <1>2, TypeCorrect, PTL DEF Spec

-----------------------------------------------------------------------------
(* Safety when answers are never late.                                     *)

(* Whatever the registers of the sensor hold when the driver starts.       *)
LEMMA InvInit == MasterInit /\ mem \in [Byte -> Byte] => IInv
<1> SUFFICES ASSUME MasterInit, mem \in [Byte -> Byte] PROVE IInv
  OBVIOUS
<1>1. TypeOK
  BY TypeInit
<1>2. LockPaired
  BY LockInit
<1>3. AtRest /\ Owned /\ Empty
  BY DEF MasterInit, AtRest, Owned, Empty, Quiet
<1>4. ASSUME NEW p \in Procs PROVE At(p)
  <2>1. pc[p] = "idle" /\ res[p] = Err
    BY DEF MasterInit
  <2>2. QED  BY <2>1 DEF At
<1>5. QED  BY <1>1, <1>2, <1>3, <1>4 DEF IInv, InvBody

(* The process for which the controller works.                             *)
LEMMA Holder ==
  ASSUME IInv, ~Quiet
  PROVE  \E h \in Procs :
           /\ pc[h] \in Waiting /\ lock = h /\ owner = h
           /\ \A q \in Procs : q # h => pc[q] \notin Locked
<1>1. PICK h \in Procs : pc[h] \in Waiting
  BY DEF IInv, InvBody, AtRest
<1>2. lock = h
  BY <1>1 DEF IInv, InvBody, LockPaired, Locked, Labels, Waiting
<1>3. owner = h
  BY <1>2 DEF IInv, InvBody, Owned
<1>4. \A q \in Procs : q # h => pc[q] \notin Locked
  BY <1>2 DEF IInv, InvBody, LockPaired
<1>5. QED  BY <1>1, <1>2, <1>3, <1>4

(* While the holder of the lock is not waiting, the controller is at rest. *)
LEMMA HolderAtRest ==
  ASSUME IInv, NEW p \in Procs, lock = p, pc[p] \notin Waiting
  PROVE  Quiet
  BY DEF IInv, InvBody, LockPaired, AtRest, Locked, Labels, Waiting

(* A process outside the lock keeps its facts when its own data and g_read *)
(* stay as they are.                                                       *)
LEMMA Outside ==
  ASSUME NEW p \in Procs, At(p), pc[p] \notin Locked, pc[p] \in Labels,
         pc'[p] = pc[p], req'[p] = req[p], res'[p] = res[p],
         did'[p] = did[p], gRead' = gRead
  PROVE  At(p)'
<1>1. pc[p] \in {"idle", "poll", "lock", "ret"}
  BY DEF Locked, Labels
<1>2. IsRead(p)' <=> IsRead(p)
  BY DEF IsRead
<1>3. QED  BY <1>1, <1>2 DEF At, Stored

(* A process keeps its facts when nothing they mention changes.            *)
LEMMA Untouched ==
  ASSUME NEW p \in Procs, At(p), pc'[p] = pc[p], req'[p] = req[p],
         res'[p] = res[p], did'[p] = did[p],
         UNCHANGED <<bufVars, compVars, hwVars, sensorVars>>
  PROVE  At(p)'
<1>1. IsRead(p)' <=> IsRead(p)
  BY DEF IsRead
<1>2. Length(p)' = Length(p)
  BY <1>1 DEF Length
<1>3. Buffer(p)' <=> Buffer(p)
  BY <1>1 DEF Buffer, bufVars
<1>4. Stored(p)' <=> Stored(p)
  BY DEF Stored
<1>5. Sending(p)' <=> Sending(p)
  BY <1>1, <1>2, <1>3, <1>4
     DEF Sending, bufVars, compVars, hwVars, sensorVars
<1>6. Receiving(p)' <=> Receiving(p)
  BY DEF Receiving, bufVars, compVars, hwVars, sensorVars
<1>7. QED
  BY <1>1, <1>2, <1>3, <1>4, <1>5, <1>6
     DEF At, bufVars, compVars, hwVars, sensorVars

(* While p holds the lock or takes it, the other processes are outside.    *)
LEMMA Others ==
  ASSUME IInv, NEW p \in Procs, lock \in {p, None}, NEW q \in Procs, q # p,
         pc'[q] = pc[q], req'[q] = req[q], res'[q] = res[q],
         did'[q] = did[q], gRead' = gRead
  PROVE  At(q)'
<1>1. pc[q] \in Labels
  BY DEF IInv, InvBody, TypeOK, CallTypes
<1>2. pc[q] \notin Locked
  BY NoneIsNoValue DEF IInv, InvBody, LockPaired
<1>3. At(q)
  BY DEF IInv, InvBody
<1>4. QED  BY <1>1, <1>2, <1>3, Outside

(* The steps that neither take nor hold the lock.                          *)
LEMMA StepOutside ==
  ASSUME IInv, NEW p \in Procs,
         \/ Call(p) \/ PollFree(p) \/ PollAgain(p) \/ PollGiveUp(p)
         \/ Return(p)
  PROVE  InvBody'
<1> USE DEF Goto, Moves
<1>1. /\ pc[p] \in {"idle", "poll", "ret"}
      /\ pc'[p] \in {"idle", "poll", "lock"}
      /\ pc' \in [Procs -> Labels]
      /\ \A q \in Procs : q # p => pc'[q] = pc[q]
  <2>1. pc \in [Procs -> Labels]
    BY DEF IInv, InvBody, TypeOK, CallTypes
  <2>2. QED
    BY <2>1 DEF Call, CallWith, PollFree, PollAgain, PollGiveUp, Return, Labels
<1>2. UNCHANGED <<lock, bufVars, compVars, hwVars, sensorVars>>
  BY DEF Call, CallWith, PollFree, PollAgain, PollGiveUp, Return
<1>3. \A q \in Procs : q # p => /\ req'[q] = req[q] /\ res'[q] = res[q]
                                /\ did'[q] = did[q]
  <2>1. /\ req \in [Procs -> {None} \cup Writes \cup Reads]
        /\ res \in [Procs -> Byte \cup {Err}]
        /\ did \in [Procs -> Outcomes]
    BY DEF IInv, InvBody, TypeOK, CallTypes, SensorTypes
  <2>2. CASE Call(p)        BY <2>1, <2>2 DEF Call, CallWith
  <2>3. CASE PollFree(p)    BY <2>3 DEF PollFree
  <2>4. CASE PollAgain(p)   BY <2>4 DEF PollAgain
  <2>5. CASE PollGiveUp(p)  BY <2>1, <2>5 DEF PollGiveUp
  <2>6. CASE Return(p)      BY <2>1, <2>6 DEF Return
  <2>7. QED  BY <2>2, <2>3, <2>4, <2>5, <2>6
<1>4. LockPaired'
  BY <1>1, <1>2 DEF IInv, InvBody, LockPaired, Locked
<1>5. AtRest'
  BY <1>1, <1>2 DEF IInv, InvBody, AtRest, Waiting, Quiet, hwVars
<1>6. Owned' /\ Empty'
  BY <1>2 DEF IInv, InvBody, Owned, Empty, Quiet, hwVars, compVars
<1>7. ASSUME NEW q \in Procs, q # p PROVE At(q)'
  <2>1. At(q)
    BY DEF IInv, InvBody
  <2>2. QED  BY <1>1, <1>2, <1>3, <1>7, <2>1, Untouched
<1>8. At(p)'
  <2>1. CASE Call(p)
    <3>1. pc'[p] = "poll" /\ did'[p] = None
      BY <2>1 DEF Call, CallWith, IInv, InvBody, TypeOK, CallTypes, SensorTypes
    <3>2. QED  BY <3>1 DEF At
  <2>2. CASE PollFree(p) \/ PollAgain(p)
    <3>1. pc'[p] \in {"poll", "lock"} /\ did'[p] = None
      BY <2>2, <1>1 DEF PollFree, PollAgain, IInv, InvBody, TypeOK, CallTypes, At
    <3>2. QED  BY <3>1 DEF At
  <2>3. CASE PollGiveUp(p)
    <3>1. pc'[p] = "idle" /\ res'[p] = Err
      BY <2>3 DEF PollGiveUp, IInv, InvBody, TypeOK, CallTypes
    <3>2. QED  BY <3>1 DEF At
  <2>4. CASE Return(p)
    <3>1. /\ pc'[p] = "idle" /\ res'[p] = gRead
          /\ req'[p] = req[p] /\ did'[p] = did[p]
      BY <2>4 DEF Return, IInv, InvBody, TypeOK, CallTypes
    <3>2. /\ IsRead(p)
          /\ OneReader => did[p] = <<req[p].reg, gRead>>
      BY <2>4 DEF Return, IInv, InvBody, At
    <3>3. IsRead(p)' /\ req'[p] \notin Writes
      BY <3>1, <3>2 DEF IsRead, Reads, Writes
    <3>4. QED  BY <3>1, <3>2, <3>3 DEF At
  <2>5. QED  BY <2>1, <2>2, <2>3, <2>4
<1>9. QED  BY <1>4, <1>5, <1>6, <1>7, <1>8 DEF InvBody

(* A step of the holder of the lock that moves to l, reduced to what it    *)
(* does to the holder's own facts.                                         *)
LEMMA Frame ==
  ASSUME IInv, NEW p \in Procs, lock = p, NEW l \in Labels,
         pc' = [pc EXCEPT ![p] = l],
         UNCHANGED <<req, did, gRead>>,
         \A q \in Procs : q # p => res'[q] = res[q],
         \/ /\ l \in Locked /\ lock' = lock
            /\ l \in Waiting \/ Quiet'
            /\ Quiet' \/ owner' = p
         \/ /\ l \notin Locked /\ lock' = None
            /\ Quiet' /\ compRead' = 0 /\ compStop' = 0,
         At(p)'
  PROVE  InvBody'
<1>1. pc'[p] = l /\ \A q \in Procs : q # p => pc'[q] = pc[q]
  BY DEF IInv, InvBody, TypeOK, CallTypes
<1>2. lock' \in {p, None} /\ p # None
  BY NoneIsNoValue
<1>3. LockPaired'
  <2>1. ASSUME NEW q \in Procs, q # p PROVE (pc[q] \in Locked <=> lock = q)'
    BY <1>1, <1>2, <2>1, NoneIsNoValue DEF IInv, InvBody, LockPaired
  <2>2. (pc[p] \in Locked <=> lock = p)'
    BY <1>1, <1>2
  <2>3. QED  BY <2>1, <2>2 DEF LockPaired
<1>4. AtRest'
  BY <1>1 DEF AtRest
<1>5. Owned' /\ Empty'
  BY <1>2 DEF Owned, Empty
<1>6. ASSUME NEW q \in Procs, q # p PROVE At(q)'
  BY <1>1, <1>6, Others
<1>7. QED  BY <1>3, <1>4, <1>5, <1>6 DEF InvBody

LEMMA StepLock ==
  ASSUME IInv, NEW p \in Procs, Lock(p)
  PROVE  InvBody'
<1>1. pc[p] = "lock" /\ pc' = [pc EXCEPT ![p] = "count"] /\ lock = None
      /\ lock' = p
      /\ UNCHANGED <<req, res, did, bufVars, compVars, hwVars, sensorVars>>
  BY DEF Lock, Goto, Moves
<1>2. pc'[p] = "count" /\ \A q \in Procs : q # p => pc'[q] = pc[q]
  BY <1>1 DEF IInv, InvBody, TypeOK, CallTypes
<1>3. \A q \in Procs : pc[q] \notin Locked
  BY <1>1, NoneIsNoValue DEF IInv, InvBody, LockPaired
<1>4. Quiet /\ compRead = 0 /\ compStop = 0
  BY <1>1, <1>3 DEF IInv, InvBody, AtRest, Empty, Locked, Labels, Waiting
<1>5. LockPaired'
  BY <1>1, <1>2, <1>3 DEF LockPaired, Locked, Labels
<1>6. AtRest' /\ Owned' /\ Empty'
  BY <1>1, <1>4, NoneIsNoValue
     DEF AtRest, Owned, Empty, Quiet, hwVars, compVars
<1>7. At(p)'
  <2>1. did'[p] = None /\ compRead' = 0 /\ compStop' = 0
    BY <1>1, <1>4 DEF IInv, InvBody, At, compVars
  <2>2. QED  BY <1>2, <2>1 DEF At
<1>8. ASSUME NEW q \in Procs, q # p PROVE At(q)'
  BY <1>1, <1>2, <1>8, Others DEF bufVars
<1>9. QED  BY <1>5, <1>6, <1>7, <1>8 DEF InvBody

(* What a holder of the lock can rely on.                                  *)
LEMMA HolderFacts ==
  ASSUME IInv, NEW p \in Procs, pc[p] \in Locked
  PROVE  /\ lock = p /\ At(p) /\ TypeOK
         /\ pc[p] \notin Waiting => Quiet
         /\ pc[p] # "idle" /\ pc \in [Procs -> Labels]
         /\ ~Quiet => owner = p
<1>1. lock = p /\ At(p) /\ TypeOK
  BY DEF IInv, InvBody, LockPaired
<1>2. QED
  BY <1>1, HolderAtRest DEF IInv, InvBody, TypeOK, CallTypes, Locked, Labels, Owned

(* Programming the first transfer.                                         *)
LEMMA StepProgram ==
  ASSUME IInv, NEW p \in Procs, Count(p) \/ Start(p)
  PROVE  InvBody'
<1>1. pc[p] \in Locked /\ pc[p] \notin Waiting
  BY DEF Count, Start, Goto, Moves, Locked, Labels, Waiting
<1>2. /\ lock = p /\ At(p) /\ Quiet /\ compRead = 0 /\ compStop = 0
      /\ did[p] = None /\ pc \in [Procs -> Labels]
  BY <1>1, HolderFacts DEF Count, Start, Goto, Moves, At
<1>3. CASE Count(p)
  <2>1. /\ pc' = [pc EXCEPT ![p] = "start"] /\ pc'[p] = "start"
        /\ UNCHANGED <<req, res, did, lock, gRead, compVars, mode, irq, owner>>
    BY <1>2, <1>3 DEF Count, Goto, Moves
  <2>2. IsRead(p)' <=> IsRead(p)
    BY <2>1 DEF IsRead
  <2>3. Buffer(p)' /\ gLen' = Length(p)' /\ cnt' = Length(p)'
    <3>1. gWrite \in [0..1 -> Byte]
      BY DEF IInv, InvBody, TypeOK, BufferTypes
    <3>2. QED  BY <1>3, <2>1, <2>2, <3>1 DEF Count, SetCount, Buffer, Length
  <2>4. At(p)'
    BY <1>2, <2>1, <2>3 DEF At, compVars
  <2>5. Quiet' /\ "start" \in Locked /\ "start" \in Labels
    BY <1>2, <2>1 DEF Quiet, Locked, Labels
  <2>6. QED  BY <1>2, <2>1, <2>4, <2>5, Frame
<1>4. CASE Start(p)
  <2>1. /\ pc' = [pc EXCEPT ![p] = "drain"] /\ pc'[p] = "drain"
        /\ tx' = None /\ mode' = "tx" /\ due' = "reg" /\ owner' = p
        /\ UNCHANGED <<req, res, did, lock, bufVars, compVars, cnt, irq>>
    BY <1>2, <1>4 DEF Start, Goto, Moves
  <2>2. Buffer(p) /\ gLen = Length(p) /\ cnt = Length(p)
    BY <1>2, <1>4 DEF Start, Goto, Moves, At
  <2>3. IsRead(p)' <=> IsRead(p)
    BY <2>1 DEF IsRead
  <2>4. Buffer(p)' /\ Length(p)' = Length(p) /\ Length(p) \in {1, 2}
    BY <2>1, <2>2, <2>3 DEF Buffer, Length, bufVars
  <2>5. gLen' = Length(p) /\ cnt' = Length(p) /\ irq' = {}
        /\ compRead' = 0 /\ compStop' = 0 /\ did'[p] = None
    BY <1>2, <2>1, <2>2 DEF bufVars, compVars, Quiet
  <2>6. Sending(p)'
    BY <2>1, <2>3, <2>4, <2>5 DEF Sending
  <2>7. At(p)'
    BY <2>1, <2>6 DEF At
  <2>8. "drain" \in Locked /\ "drain" \in Labels /\ "drain" \in Waiting
    BY DEF Locked, Labels, Waiting
  <2>9. UNCHANGED gRead
    BY <2>1 DEF bufVars
  <2>10. QED  BY <1>2, <2>1, <2>7, <2>8, <2>9, Frame
<1>5. QED  BY <1>3, <1>4

(* Waiting for the first transfer.                                         *)
LEMMA StepSending ==
  ASSUME IInv, ~LateAnswers, NEW p \in Procs,
         \/ Drain(p) \/ DrainSignal(p) \/ DrainTimeout(p)
         \/ Stop(p) \/ StopTimeout(p)
  PROVE  InvBody'
<1>1. pc[p] \in {"drain", "stop"} /\ pc[p] \in Locked
  BY DEF Drain, DrainSignal, DrainTimeout, Stop, StopTimeout, Goto, Moves,
         Locked, Labels
<1>2. lock = p /\ Sending(p) /\ TypeOK /\ pc \in [Procs -> Labels]
      /\ (~Quiet => owner = p)
  BY <1>1, HolderFacts DEF At
<1>3. UNCHANGED <<req, res, did, lock, gRead, hwVars, bufVars, sensorVars>>
  BY DEF Drain, DrainSignal, DrainTimeout, Stop, StopTimeout, Moves, bufVars
<1>4. (IsRead(p)' <=> IsRead(p)) /\ (Quiet' <=> Quiet) /\ (Stored(p)' <=> Stored(p))
  BY <1>3 DEF IsRead, Quiet, hwVars, Stored
<1>5. CASE Drain(p) \/ DrainSignal(p)
  <2>1. pc' = [pc EXCEPT ![p] = "stop"] /\ pc'[p] = "stop"
        /\ UNCHANGED compVars
    BY <1>2, <1>5 DEF Drain, DrainSignal, Goto, Moves
  <2>2. Length(p)' = Length(p) /\ (Buffer(p)' <=> Buffer(p))
    BY <1>3, <1>4 DEF Length, Buffer, bufVars
  <2>3. Sending(p)'
    BY <1>2, <1>3, <1>4, <2>1, <2>2
       DEF Sending, bufVars, compVars, hwVars, sensorVars
  <2>4. At(p)'
    BY <2>1, <2>3 DEF At
  <2>5. "stop" \in Locked /\ "stop" \in Labels /\ "stop" \in Waiting
    BY DEF Locked, Labels, Waiting
  <2>6. owner' = owner
    BY <1>3 DEF hwVars
  <2>7. QED  BY <1>2, <1>3, <1>4, <2>1, <2>4, <2>5, <2>6, Frame
<1>6. CASE DrainTimeout(p) \/ StopTimeout(p)
  <2>1. pc' = [pc EXCEPT ![p] = "fail"] /\ pc'[p] = "fail"
        /\ UNCHANGED compVars
    BY <1>2, <1>6 DEF DrainTimeout, StopTimeout, Goto, Moves
  <2>2. Quiet
    BY <1>6 DEF DrainTimeout, StopTimeout, MayTimeOut, Quiet
  <2>3. compRead' = 0
    BY <1>2, <2>1 DEF Sending, compVars
  <2>4. At(p)'
    BY <2>1, <2>3 DEF At
  <2>5. "fail" \in Locked /\ "fail" \in Labels
    BY DEF Locked, Labels
  <2>6. QED  BY <1>2, <1>3, <1>4, <2>1, <2>2, <2>4, <2>5, Frame
<1>7. CASE Stop(p)
  <2> DEFINE l == IF IsRead(p) THEN "rxcount" ELSE "finish"
  <2>1. pc' = [pc EXCEPT ![p] = l] /\ pc'[p] = l
        /\ compStop > 0 /\ compStop' = compStop - 1 /\ UNCHANGED compRead
    BY <1>2, <1>7 DEF Stop, Goto, Moves
  <2>2. mode = "idle" /\ cnt = 0 /\ compStop = 1
    <3>1. mode \in {"idle", "tx", "rx"} /\ cnt \in 0..2
      BY <1>2 DEF TypeOK, ControllerTypes
    <3>2. QED  BY <1>2, <2>1, <3>1 DEF Sending
  <2>3. Quiet
    <3>1. irq \subseteq Interrupts
      BY <1>2 DEF TypeOK, ControllerTypes
    <3>2. irq = {}
      BY <1>2, <2>2, <3>1 DEF Sending, Interrupts
    <3>3. QED  BY <2>2, <3>2 DEF Quiet
  <2>4. compRead' = 0 /\ compStop' = 0
    BY <1>2, <2>1, <2>2 DEF Sending
  <2>5. /\ ptr = req[p].reg
        /\ IF IsRead(p) THEN did[p] = None ELSE Stored(p)
    BY <1>2, <2>2 DEF Sending, Length
  <2>6. At(p)'
    <3>1. CASE IsRead(p)
      <4>1. pc'[p] = "rxcount" /\ did'[p] = None /\ ptr' = req'[p].reg
            /\ IsRead(p)'
        BY <1>3, <1>4, <2>1, <2>5, <3>1 DEF sensorVars
      <4>2. QED  BY <2>4, <4>1 DEF At
    <3>2. CASE ~IsRead(p)
      <4>1. pc'[p] = "finish" /\ Stored(p)' /\ ~IsRead(p)'
        BY <1>4, <2>1, <2>5, <3>2
      <4>2. QED  BY <2>4, <4>1 DEF At
    <3>3. QED  BY <3>1, <3>2
  <2>7. l \in Locked /\ l \in Labels
    BY DEF Locked, Labels
  <2> HIDE DEF l
  <2>8. QED  BY <1>2, <1>3, <1>4, <2>1, <2>3, <2>6, <2>7, Frame
<1>8. QED  BY <1>5, <1>6, <1>7

(* The second transfer of a read.                                          *)
LEMMA StepReceiving ==
  ASSUME IInv, ~LateAnswers, NEW p \in Procs,
         \/ RxCount(p) \/ RxStart(p) \/ RxData(p) \/ RxStop(p) \/ RxTimeout(p)
  PROVE  InvBody'
<1>1. pc[p] \in {"rxcount", "rxstart", "rxdata", "rxstop"} /\ pc[p] \in Locked
  BY DEF RxCount, RxStart, RxData, RxStop, RxTimeout, Goto, Moves, Locked, Labels
<1>2. lock = p /\ At(p) /\ IsRead(p) /\ TypeOK /\ pc \in [Procs -> Labels]
      /\ (pc[p] \notin Waiting => Quiet) /\ (~Quiet => owner = p)
  BY <1>1, HolderFacts DEF At
<1>3. UNCHANGED <<req, res, did, lock, gRead, irq, rx, sensorVars>>
  BY DEF RxCount, RxStart, RxData, RxStop, RxTimeout, Moves, bufVars, hwVars
<1>4. IsRead(p)'
  BY <1>2, <1>3 DEF IsRead
<1>5. CASE RxCount(p)
  <2>1. /\ pc' = [pc EXCEPT ![p] = "rxstart"] /\ pc'[p] = "rxstart"
        /\ gLen' = 1 /\ cnt' = 1 /\ UNCHANGED <<compVars, mode, owner>>
        /\ pc[p] = "rxcount" /\ pc[p] \notin Waiting
    BY <1>2, <1>5 DEF RxCount, Goto, Moves, SetCount, Waiting
  <2>2. At(p)'
    BY <1>2, <1>3, <1>4, <2>1 DEF At, compVars, sensorVars
  <2>3. Quiet' /\ "rxstart" \in Locked /\ "rxstart" \in Labels
    BY <1>2, <1>3, <2>1 DEF Quiet, Locked, Labels
  <2>4. QED  BY <1>2, <1>3, <2>1, <2>2, <2>3, Frame
<1>6. CASE RxStart(p)
  <2>1. /\ pc' = [pc EXCEPT ![p] = "rxdata"] /\ pc'[p] = "rxdata"
        /\ mode' = "rx" /\ owner' = p /\ UNCHANGED <<compVars, gLen, cnt>>
        /\ pc[p] = "rxstart" /\ pc[p] \notin Waiting
    BY <1>2, <1>6 DEF RxStart, Goto, Moves, bufVars, Waiting
  <2>2. gLen' = 1 /\ cnt' = 1 /\ irq' = {} /\ compRead' = 0 /\ compStop' = 0
        /\ did'[p] = None /\ ptr' = req'[p].reg
    BY <1>2, <1>3, <2>1 DEF At, Quiet, compVars, sensorVars
  <2>3. Receiving(p)'
    BY <2>1, <2>2 DEF Receiving
  <2>4. At(p)'
    BY <1>4, <2>1, <2>3 DEF At
  <2>5. "rxdata" \in Locked /\ "rxdata" \in Labels /\ "rxdata" \in Waiting
    BY DEF Locked, Labels, Waiting
  <2>6. QED  BY <1>2, <1>3, <2>1, <2>4, <2>5, Frame
<1>7. CASE RxData(p)
  <2>1. /\ pc' = [pc EXCEPT ![p] = "rxstop"] /\ pc'[p] = "rxstop"
        /\ pc[p] = "rxdata"
        /\ compRead > 0 /\ compRead' = compRead - 1
        /\ UNCHANGED <<compStop, mode, cnt, gLen, owner>>
    BY <1>2, <1>7 DEF RxData, Goto, Moves, bufVars, hwVars
  <2>2. Receiving(p)
    BY <1>2, <2>1 DEF At
  <2>3. cnt = 0 /\ "RRDY" \notin irq
    BY <2>1, <2>2 DEF Receiving
  <2>4. gRead = rx /\ compRead = 1
    BY <2>1, <2>2, <2>3 DEF Receiving
  <2>5. Receiving(p)'
    BY <1>3, <2>1, <2>2, <2>3, <2>4 DEF Receiving, sensorVars
  <2>6. At(p)'
    BY <1>4, <2>1, <2>5 DEF At
  <2>7. "rxstop" \in Locked /\ "rxstop" \in Labels /\ "rxstop" \in Waiting
    BY DEF Locked, Labels, Waiting
  <2>8. Quiet' <=> Quiet
    BY <1>3, <2>1 DEF Quiet
  <2>9. QED  BY <1>2, <1>3, <2>1, <2>6, <2>7, <2>8, Frame
<1>8. CASE RxStop(p)
  <2>1. /\ pc' = [pc EXCEPT ![p] = "finish"] /\ pc'[p] = "finish"
        /\ pc[p] = "rxstop"
        /\ compStop > 0 /\ compStop' = compStop - 1
        /\ UNCHANGED <<compRead, mode>>
    BY <1>2, <1>8 DEF RxStop, Goto, Moves, hwVars
  <2>2. Receiving(p) /\ mode \in {"idle", "tx", "rx"} /\ irq \subseteq Interrupts
    BY <1>2, <2>1 DEF At, TypeOK, ControllerTypes
  <2>3. cnt = 0 /\ mode = "idle" /\ "RRDY" \notin irq
    BY <2>1, <2>2 DEF Receiving
  <2>4. compRead = 0 /\ compStop = 1 /\ gRead = rx /\ did[p] = <<req[p].reg, rx>>
    BY <2>1, <2>2, <2>3 DEF Receiving
  <2>5. irq = {}
    BY <2>1, <2>2, <2>3, <2>4 DEF Receiving, Interrupts
  <2>6. Quiet'
    BY <1>3, <2>1, <2>3, <2>5 DEF Quiet
  <2>7. compRead' = 0 /\ compStop' = 0 /\ did'[p] = <<req'[p].reg, gRead'>>
    BY <1>3, <2>1, <2>4
  <2>8. At(p)'
    BY <1>4, <2>1, <2>7 DEF At
  <2>9. "finish" \in Locked /\ "finish" \in Labels
    BY DEF Locked, Labels
  <2>10. QED  BY <1>2, <1>3, <2>1, <2>6, <2>8, <2>9, Frame
<1>9. CASE RxTimeout(p)
  <2>1. /\ pc' = [pc EXCEPT ![p] = "rxfail"] /\ pc'[p] = "rxfail"
        /\ UNCHANGED mode
    BY <1>2, <1>9 DEF RxTimeout, Goto, Moves, hwVars
  <2>2. Quiet'
    BY <1>3, <1>9, <2>1 DEF RxTimeout, MayTimeOut, Quiet
  <2>3. At(p)'
    BY <1>4, <2>1 DEF At
  <2>4. "rxfail" \in Locked /\ "rxfail" \in Labels
    BY DEF Locked, Labels
  <2>5. QED  BY <1>2, <1>3, <2>1, <2>2, <2>3, <2>4, Frame
<1>10. QED  BY <1>5, <1>6, <1>7, <1>8, <1>9

(* The ends of a call.                                                     *)
LEMMA StepUnlock ==
  ASSUME IInv, NEW p \in Procs,
         Fail(p) \/ RxFail(p) \/ FinishWrite(p) \/ FinishRead(p)
  PROVE  InvBody'
<1> DEFINE l == IF FinishRead(p) THEN "ret" ELSE "idle"
<1>1. pc[p] \in {"fail", "rxfail", "finish"}
  BY DEF Fail, RxFail, FinishWrite, FinishRead, Goto, Moves
<1>2. pc[p] \in Locked /\ pc[p] \notin Waiting
  BY <1>1 DEF Locked, Labels, Waiting
<1>3. lock = p /\ At(p) /\ Quiet /\ pc \in [Procs -> Labels]
      /\ res \in [Procs -> Byte \cup {Err}]
  BY <1>2, HolderFacts DEF TypeOK, CallTypes
<1>4. UNCHANGED <<req, did, gRead, mode, irq>> /\ lock' = None
  BY DEF Fail, RxFail, FinishWrite, FinishRead, bufVars, hwVars
<1>5. (IsRead(p)' <=> IsRead(p)) /\ (Stored(p)' <=> Stored(p))
      /\ (req'[p] \in Writes => ~IsRead(p))
  BY <1>4 DEF IsRead, Stored, Reads, Writes
<1>6. pc' = [pc EXCEPT ![p] = l] /\ pc'[p] = l
  BY <1>3 DEF Fail, RxFail, FinishWrite, FinishRead, Goto, Moves
<1>7. \A q \in Procs : q # p => res'[q] = res[q]
  BY <1>3 DEF Fail, RxFail, FinishWrite, FinishRead
<1>8. compRead' = 0 /\ compStop' = 0
  BY <1>3 DEF Fail, RxFail, FinishWrite, FinishRead, Goto, Moves, At
<1>9. At(p)'
  <2>1. CASE Fail(p) \/ RxFail(p)
    <3>1. pc'[p] = "idle" /\ res'[p] = Err
      BY <1>3, <2>1 DEF Fail, RxFail, Goto, Moves
    <3>2. QED  BY <3>1 DEF At
  <2>2. CASE FinishWrite(p)
    <3>1. pc'[p] = "idle" /\ Stored(p)' /\ ~IsRead(p)'
      BY <1>3, <1>5, <2>2 DEF FinishWrite, Goto, Moves, At
    <3>2. QED  BY <3>1 DEF At
  <2>3. CASE FinishRead(p)
    <3>1. pc'[p] = "ret" /\ IsRead(p)' /\ did'[p] = <<req'[p].reg, gRead'>>
      BY <1>3, <1>4, <1>5, <2>3 DEF FinishRead, Goto, Moves, At
    <3>2. QED  BY <3>1 DEF At
  <2>4. QED  BY <2>1, <2>2, <2>3
<1>10. l \in Labels /\ l \notin Locked
  BY DEF Labels, Locked
<1>11. Quiet'
  BY <1>3, <1>4 DEF Quiet
<1> HIDE DEF l
<1>12. QED
  BY <1>3, <1>4, <1>6, <1>7, <1>8, <1>9, <1>10, <1>11, Frame

(* A step of the controller or of the handler, reduced to what it does to  *)
(* the holder of the lock.                                                 *)
LEMMA HwFrame ==
  ASSUME IInv, NEW h \in Procs, pc[h] \in Waiting, lock = h, owner = h,
         UNCHANGED <<procVars, lock, owner>>,
         \A q \in Procs : q # h => did'[q] = did[q],
         gRead' = gRead \/ IsRead(h),
         At(h)'
  PROVE  InvBody'
<1>1. LockPaired'
  BY DEF IInv, InvBody, LockPaired, procVars
<1>2. AtRest'
  BY DEF AtRest, procVars
<1>3. Owned' /\ Empty'
  BY NoneIsNoValue DEF Owned, Empty
<1>4. ASSUME NEW q \in Procs, q # h PROVE At(q)'
  <2>1. At(q) /\ pc[q] \in Labels /\ pc[q] \notin Locked
    BY <1>4 DEF IInv, InvBody, TypeOK, CallTypes, LockPaired
  <2>2. CASE gRead' = gRead
    BY <1>4, <2>1, <2>2, Outside DEF procVars
  <2>3. CASE IsRead(h)
    <3>1. IsRead(q) => pc[q] # "ret" \/ ~OneReader
      <4>1. SUFFICES ASSUME IsRead(q), pc[q] = "ret", OneReader PROVE FALSE
        OBVIOUS
      <4>2. CallTypes /\ pc[h] # "idle"
        BY DEF IInv, InvBody, TypeOK, Waiting
      <4>3. h \in Readers /\ q \in Readers
        BY <2>3, <4>1, <4>2, Arguments
      <4>4. QED  BY <1>4, <4>1, <4>3 DEF OneReader
    <3>2. (IsRead(q)' <=> IsRead(q)) /\ (Stored(q)' <=> Stored(q))
      BY <1>4 DEF IsRead, Stored, procVars
    <3>3. pc[q] \in {"idle", "poll", "lock", "ret"}
      BY <2>1 DEF Locked, Labels
    <3>4. pc[q] = "ret" => IsRead(q)
      BY <2>1 DEF At
    <3>5. pc'[q] = pc[q] /\ req'[q] = req[q] /\ res'[q] = res[q]
          /\ did'[q] = did[q]
      BY <1>4 DEF procVars
    <3>6. QED
      BY <2>1, <3>1, <3>2, <3>3, <3>4, <3>5 DEF At
  <2>4. QED  BY <2>2, <2>3
<1>5. QED  BY <1>1, <1>2, <1>3, <1>4 DEF InvBody

(* What the controller and the handler keep of a sending process.          *)
LEMMA KeepArguments ==
  ASSUME NEW p \in Procs, UNCHANGED <<procVars, gWrite>>
  PROVE  /\ IsRead(p)' <=> IsRead(p)
         /\ Length(p)' = Length(p) /\ Length(p) \in {1, 2}
         /\ Buffer(p)' <=> Buffer(p)
         /\ req'[p] = req[p] /\ pc'[p] = pc[p]
<1>1. req'[p] = req[p] /\ pc'[p] = pc[p]
  BY DEF procVars
<1>2. IsRead(p)' <=> IsRead(p)
  BY <1>1 DEF IsRead
<1>3. QED  BY <1>1, <1>2 DEF Length, Buffer

LEMMA HwSending ==
  ASSUME IInv, NEW h \in Procs, pc[h] \in {"drain", "stop"},
         lock = h, owner = h,
         Isr \/ Transfer \/ HwAbort
  PROVE  InvBody'
<1>1. Sending(h) /\ TypeOK /\ did \in [Procs -> Outcomes]
  BY DEF IInv, InvBody, At, TypeOK, SensorTypes
<1>2. /\ mode \in {"idle", "tx", "rx"} /\ cnt \in 0..2
      /\ irq \subseteq Interrupts /\ compStop \in Nat /\ gLen \in 0..U16Max
      /\ gWrite \in [0..1 -> Byte] /\ None \notin Byte
  BY <1>1, NoneIsNoValue DEF TypeOK, ControllerTypes, BufferTypes
<1>3. UNCHANGED <<procVars, lock, owner, gWrite>>
  BY DEF Isr, Transfer, HwXrdy, HwSend, HwRecv, HwStop, HwAbort, bufVars
<1>4. /\ IsRead(h)' <=> IsRead(h)
      /\ Length(h)' = Length(h) /\ Length(h) \in {1, 2}
      /\ Buffer(h)' <=> Buffer(h)
      /\ req'[h] = req[h] /\ pc'[h] = pc[h]
  BY <1>3, KeepArguments
<1>5. mode # "rx"
  BY <1>1 DEF Sending
<1>6. UNCHANGED gRead
  BY <1>1 DEF Isr, Transfer, HwXrdy, HwSend, HwRecv, HwStop, HwAbort,
              bufVars, Sending
<1>7. \A q \in Procs : q # h => did'[q] = did[q]
  BY <1>1, <1>5 DEF Isr, Transfer, HwXrdy, HwSend, HwRecv, HwStop, HwAbort
<1>8. Sending(h)'
  <2>1. CASE Isr
    <3>1. /\ irq' = {} /\ UNCHANGED <<mode, cnt, due, sensorVars, did>>
          /\ compStop' = IF "ARDY" \in irq THEN compStop + 1 ELSE compStop
      BY <2>1 DEF Isr
    <3>2. compRead' = 0
      BY <1>1, <2>1 DEF Isr, Sending
    <3>3. CASE "XRDY" \notin irq
      <4>1. UNCHANGED <<gLen, tx>>
        BY <1>1, <2>1, <3>3 DEF Isr, LenAfterTx, LenAfterRx, Sending
      <4>2. Stored(h)' <=> Stored(h)
        BY <1>4, <3>1 DEF Stored
      <4>3. QED
        BY <1>1, <1>2, <1>3, <1>4, <3>1, <3>2, <3>3, <4>1, <4>2
           DEF Sending, sensorVars
    <3>4. CASE "XRDY" \in irq
      <4>1. tx = None /\ cnt > 0 /\ gLen = cnt /\ cnt \in {1, 2}
        BY <1>1, <1>2, <3>4 DEF Sending
      <4>2. LenAfterTx = cnt - 1
        BY <1>1, <3>4, <4>1
           DEF LenAfterTx, LenAfterRx, Decrement, Sending
      <4>3. gLen' = cnt - 1 /\ tx' = gWrite[cnt - 1] /\ tx' # None
        BY <1>2, <2>1, <3>4, <4>1, <4>2 DEF Isr
      <4>4. QED
        BY <1>1, <1>2, <1>3, <1>4, <3>1, <3>2, <4>1, <4>3
           DEF Sending, sensorVars
    <3>5. QED  BY <3>3, <3>4
  <2>2. CASE HwXrdy
    <3>1. /\ mode = "tx" /\ cnt > 0 /\ tx = None /\ irq' = irq \cup {"XRDY"}
          /\ UNCHANGED <<gLen, compRead, compStop, mode, cnt, tx, due, ptr, did>>
      BY <2>2 DEF HwXrdy, bufVars, compVars, sensorVars
    <3>2. QED
      BY <1>1, <1>2, <1>4, <3>1, <1>3 DEF Sending
  <2>3. CASE HwSend
    <3>1. /\ mode = "tx" /\ cnt > 0 /\ tx # None
          /\ cnt' = cnt - 1 /\ tx' = None /\ due' = "val"
          /\ UNCHANGED <<gLen, compRead, compStop, mode, irq>>
      BY <2>3 DEF HwSend, bufVars, compVars
    <3>2. gLen = cnt - 1 /\ tx = gWrite[cnt - 1] /\ cnt \in {1, 2}
      BY <1>1, <1>2, <3>1 DEF Sending
    <3>3. CASE due = "reg"
      <4>1. cnt = Length(h)
        BY <1>1, <3>1, <3>3 DEF Sending
      <4>2. tx = req[h].reg
        BY <1>1, <3>2, <4>1 DEF Sending, Buffer, Length
      <4>3. ptr' = req[h].reg /\ UNCHANGED did
        BY <2>3, <3>3, <4>2 DEF HwSend
      <4>4. QED
        BY <1>1, <1>2, <1>3, <1>4, <3>1, <3>2, <4>1, <4>3
           DEF Sending, Length
    <3>4. CASE due # "reg"
      <4>1. cnt = 1 /\ Length(h) = 2 /\ ~IsRead(h)
        BY <1>1, <1>4, <3>1, <3>2, <3>4 DEF Sending, Length
      <4>2. tx = req[h].val /\ ptr = req[h].reg
        BY <1>1, <3>2, <4>1 DEF Sending, Buffer
      <4>3. UNCHANGED ptr /\ did'[h] = <<req[h].reg, req[h].val>>
        BY <1>1, <2>3, <3>4, <4>2 DEF HwSend
      <4>4. Stored(h)'
        BY <1>4, <4>3 DEF Stored
      <4>5. QED
        BY <1>1, <1>2, <1>3, <1>4, <3>1, <3>2, <4>1, <4>2, <4>3, <4>4
           DEF Sending
    <3>5. QED  BY <3>3, <3>4
  <2>4. CASE HwStop
    <3>1. /\ mode = "tx" /\ cnt = 0 /\ mode' = "idle" /\ irq' = irq \cup {"ARDY"}
          /\ UNCHANGED <<gLen, compRead, compStop, cnt, tx, due, ptr, did>>
      BY <1>2, <1>5, <2>4 DEF HwStop, bufVars, compVars, sensorVars
    <3>2. Stored(h)' <=> Stored(h)
      BY <1>4, <3>1 DEF Stored
    <3>3. QED
      BY <1>1, <1>2, <1>3, <1>4, <3>1, <3>2 DEF Sending
  <2>5. CASE HwAbort
    <3>1. /\ mode = "tx" /\ cnt > 0 /\ mode' = "idle"
          /\ \E e \in {"AL", "NACK"} : irq' = irq \cup {e}
          /\ UNCHANGED <<gLen, compRead, compStop, cnt, tx, due, ptr, did>>
      BY <1>2, <1>5, <2>5 DEF HwAbort, bufVars, compVars, sensorVars
    <3>2. QED
      BY <1>1, <1>2, <1>3, <1>4, <3>1 DEF Sending
  <2>6. CASE HwRecv
    BY <1>5, <2>6 DEF HwRecv
  <2>7. QED  BY <2>1, <2>2, <2>3, <2>4, <2>5, <2>6 DEF Transfer
<1>9. At(h)'
  BY <1>4, <1>8 DEF At
<1>10. pc[h] \in Waiting
  BY DEF Waiting
<1>11. QED  BY <1>3, <1>6, <1>7, <1>9, <1>10, HwFrame

LEMMA HwReceiving ==
  ASSUME IInv, NEW h \in Procs, pc[h] \in {"rxdata", "rxstop"},
         lock = h, owner = h,
         Isr \/ Transfer \/ HwAbort
  PROVE  InvBody'
<1>1. Receiving(h) /\ IsRead(h) /\ TypeOK /\ did \in [Procs -> Outcomes]
  BY DEF IInv, InvBody, At, TypeOK, SensorTypes
<1>2. /\ mode \in {"idle", "tx", "rx"} /\ cnt \in {0, 1}
      /\ irq \subseteq Interrupts /\ compStop \in Nat /\ compRead \in Nat
      /\ gLen \in 0..U16Max
  BY <1>1 DEF TypeOK, ControllerTypes, BufferTypes, Receiving
<1>3. UNCHANGED <<procVars, lock, owner, gWrite, ptr>>
  BY <1>1 DEF Isr, Transfer, HwXrdy, HwSend, HwRecv, HwStop, HwAbort,
              bufVars, sensorVars, Receiving
<1>4. IsRead(h)' /\ req'[h] = req[h] /\ pc'[h] = pc[h]
  BY <1>1, <1>3, KeepArguments
<1>5. mode # "tx" /\ ptr = req[h].reg
  BY <1>1 DEF Receiving
<1>6. \A q \in Procs : q # h => did'[q] = did[q]
  BY <1>1, <1>5 DEF Isr, Transfer, HwXrdy, HwSend, HwRecv, HwStop, HwAbort
<1>7. Receiving(h)'
  <2>1. CASE Isr
    <3>1. /\ irq' = {} /\ UNCHANGED <<mode, cnt, rx, did>>
          /\ compStop' = IF "ARDY" \in irq THEN compStop + 1 ELSE compStop
          /\ compRead' = IF "RRDY" \in irq THEN compRead + 1 ELSE compRead
          /\ gRead' = IF "RRDY" \in irq THEN rx ELSE gRead
          /\ gLen' = LenAfterTx
      BY <2>1 DEF Isr
    <3>2. CASE cnt = 1
      <4>1. "RRDY" \notin irq /\ "XRDY" \notin irq /\ "ARDY" \notin irq
        BY <1>1, <3>2 DEF Receiving
      <4>2. gLen' = gLen
        BY <3>1, <4>1 DEF LenAfterTx, LenAfterRx
      <4>3. QED
        BY <1>1, <1>3, <1>4, <3>1, <3>2, <4>1, <4>2 DEF Receiving
    <3>3. CASE cnt = 0
      BY <1>1, <1>2, <1>3, <1>4, <3>1, <3>3 DEF Receiving
    <3>4. QED  BY <1>2, <3>2, <3>3
  <2>2. CASE HwRecv
    <3>1. /\ mode = "rx" /\ cnt = 1 /\ cnt' = 0 /\ rx' = mem[ptr]
          /\ irq' = irq \cup {"RRDY"}
          /\ did'[h] = <<ptr, mem[ptr]>>
          /\ UNCHANGED <<gLen, compRead, compStop, mode>>
      BY <1>1, <1>2, <2>2 DEF HwRecv, bufVars, compVars
    <3>2. QED
      BY <1>1, <1>2, <1>3, <1>4, <1>5, <3>1 DEF Receiving
  <2>3. CASE HwStop
    <3>1. /\ mode = "rx" /\ cnt = 0 /\ mode' = "idle"
          /\ irq' = irq \cup {"ARDY"}
          /\ UNCHANGED <<gLen, gRead, compRead, compStop, cnt, rx, did>>
      BY <1>2, <1>5, <2>3 DEF HwStop, bufVars, compVars
    <3>2. QED
      BY <1>1, <1>2, <1>3, <1>4, <3>1 DEF Receiving
  <2>4. CASE HwAbort
    <3>1. /\ mode = "rx" /\ cnt = 1 /\ mode' = "idle"
          /\ \E e \in {"AL", "NACK"} : irq' = irq \cup {e}
          /\ UNCHANGED <<gLen, gRead, compRead, compStop, cnt, rx, did>>
      BY <1>2, <1>5, <2>4 DEF HwAbort, bufVars, compVars
    <3>2. QED
      BY <1>1, <1>2, <1>3, <1>4, <3>1 DEF Receiving
  <2>5. CASE HwXrdy \/ HwSend
    BY <1>5, <2>5 DEF HwXrdy, HwSend
  <2>6. QED  BY <2>1, <2>2, <2>3, <2>4, <2>5 DEF Transfer
<1>8. At(h)'
  BY <1>4, <1>7 DEF At
<1>9. pc[h] \in Waiting
  BY DEF Waiting
<1>10. QED  BY <1>1, <1>3, <1>6, <1>8, <1>9, HwFrame

(* Every step keeps the invariant when answers are never late.             *)
LEMMA InvNext ==
  ASSUME IInv, ~LateAnswers, [Next]_vars
  PROVE  IInv'
<1>1. TypeOK'
  BY TypeNext DEF IInv, InvBody
<1>2. ASSUME NEW p \in Procs, Call(p) \/ Proceed(p) \/ DrainSignal(p)
      PROVE  InvBody'
  BY <1>2, StepOutside, StepLock, StepProgram, StepSending, StepReceiving,
     StepUnlock DEF Proceed
<1>3. ASSUME Isr \/ Transfer \/ HwAbort PROVE InvBody'
  <2>1. ~Quiet
    BY <1>3 DEF Isr, Transfer, HwXrdy, HwSend, HwRecv, HwStop, HwAbort, Quiet
  <2>2. PICK h \in Procs : pc[h] \in Waiting /\ lock = h /\ owner = h
    BY <2>1, Holder
  <2>3. CASE pc[h] \in {"drain", "stop"}
    BY <1>3, <2>2, <2>3, HwSending
  <2>4. CASE pc[h] \in {"rxdata", "rxstop"}
    BY <1>3, <2>2, <2>4, HwReceiving
  <2>5. QED  BY <2>2, <2>3, <2>4 DEF Waiting
<1>4. CASE UNCHANGED vars
  <2>1. \A p \in Procs : At(p)'
    BY <1>4, Untouched
       DEF vars, IInv, InvBody, bufVars, compVars, hwVars, sensorVars
  <2>2. QED
    BY <1>1, <1>4, <2>1 DEF vars, IInv, InvBody, LockPaired, AtRest, Owned, Empty, Quiet
<1>5. QED  BY <1>1, <1>2, <1>3, <1>4 DEF Next, IInv, InvBody

(* The strengthening is an invariant, with answers in time and any callers. *)
THEOREM InvAlways ==
  ASSUME ~LateAnswers
  PROVE  Spec => []IInv
<1>1. Init => IInv
  BY Started, InvInit
<1>2. IInv /\ [Next]_vars => IInv'
  BY InvNext
<1>3. QED  BY <1>1, <1>2, PTL DEF Spec

(* What the invariant says to the handler and to the callers.              *)
LEMMA InvPromises ==
  ASSUME IInv
  PROVE  /\ BusOwned /\ LenInBounds /\ CompletionsFresh /\ WriteSucceeded
         /\ OneReader => ReadReturnsOwn
<1>1. BusOwned
  <2>1. CASE Quiet
    BY <2>1 DEF BusOwned, Quiet
  <2>2. CASE ~Quiet
    BY <2>2, Holder DEF BusOwned
  <2>3. QED  BY <2>1, <2>2
<1>2. ASSUME irq \cap {"RRDY", "XRDY"} # {} PROVE gLen \in 1..2
  <2>1. ~Quiet
    BY <1>2 DEF Quiet
  <2>2. PICK h \in Procs : pc[h] \in Waiting
    BY <2>1, Holder
  <2>3. At(h) /\ cnt \in 0..2
    BY DEF IInv, InvBody, TypeOK, ControllerTypes
  <2>4. CASE pc[h] \in {"drain", "stop"}
    <3>1. Sending(h)
      BY <2>3, <2>4 DEF At
    <3>2. QED  BY <1>2, <2>3, <3>1 DEF Sending
  <2>5. CASE pc[h] \in {"rxdata", "rxstop"}
    <3>1. Receiving(h)
      BY <2>3, <2>5 DEF At
    <3>2. QED  BY <1>2, <3>1 DEF Receiving
  <2>6. QED  BY <2>2, <2>4, <2>5 DEF Waiting
<1>3. CompletionsFresh
  BY DEF IInv, InvBody, At, CompletionsFresh
<1>4. WriteSucceeded
  BY DEF IInv, InvBody, At, Stored, WriteSucceeded
<1>5. OneReader => ReadReturnsOwn
  BY DEF IInv, InvBody, At, IsRead, ReadReturnsOwn
<1>6. QED  BY <1>1, <1>2, <1>3, <1>4, <1>5 DEF LenInBounds

(* Any number of callers: a transfer and its interrupts belong to the      *)
(* holder of lock_bus, which is waiting for them.                          *)
THEOREM BusIsOwned ==
  ASSUME ~LateAnswers
  PROVE  Spec => []BusOwned
<1>1. IInv => BusOwned
  BY InvPromises
<1>2. QED  BY <1>1, InvAlways, PTL

(* prv_isr never takes g_len below 0.                                      *)
THEOREM LenStaysInBounds ==
  ASSUME ~LateAnswers
  PROVE  Spec => []LenInBounds
<1>1. IInv => LenInBounds
  BY InvPromises
<1>2. QED  BY <1>1, InvAlways, PTL

(* No call starts with a completion of an earlier one.                     *)
THEOREM CompletionsAreFresh ==
  ASSUME ~LateAnswers
  PROVE  Spec => []CompletionsFresh
<1>1. IInv => CompletionsFresh
  BY InvPromises
<1>2. QED  BY <1>1, InvAlways, PTL

(* A cotti_i2c_write that returned 0 has stored its value.                 *)
THEOREM WritesSucceed ==
  ASSUME ~LateAnswers
  PROVE  Spec => []WriteSucceeded
<1>1. IInv => WriteSucceeded
  BY InvPromises
<1>2. QED  BY <1>1, InvAlways, PTL

(* A cotti_i2c_read that returned a byte returned its own, as long as only *)
(* one process reads.                                                      *)
THEOREM ReadsReturnTheirOwn ==
  ASSUME ~LateAnswers, OneReader
  PROVE  Spec => []ReadReturnsOwn
<1>1. IInv => ReadReturnsOwn
  BY InvPromises
<1>2. QED  BY <1>1, InvAlways, PTL

(* The sensor's registers change only as the holder of the lock asks.      *)
THEOREM RegistersChangeAsAsked ==
  ASSUME ~LateAnswers
  PROVE  Spec => RegisterWrites
<1> DEFINE Asked == /\ lock \in Procs /\ req[lock] \in Writes
                    /\ mem' = [mem EXCEPT ![req[lock].reg] = req[lock].val]
<1>1. ASSUME IInv, [Next]_vars, mem' # mem PROVE Asked
  <2>1. HwSend /\ due = "val"
    BY <1>1 DEF Next, vars, Moves, Call, CallWith, Proceed, PollFree, PollAgain, PollGiveUp,
       Lock, Count, Start, Drain, DrainSignal, DrainTimeout, Stop,
       StopTimeout, RxCount, RxStart, RxData, RxStop, RxTimeout, Fail, RxFail,
       FinishWrite, FinishRead, Return, Isr, Transfer, HwXrdy, HwSend,
       HwRecv, HwStop, HwAbort, sensorVars
  <2>2. ~Quiet
    BY <2>1 DEF HwSend, Quiet
  <2>3. PICK h \in Procs : pc[h] \in Waiting /\ lock = h
    BY <1>1, <2>2, Holder
  <2>4. At(h) /\ CallTypes /\ cnt \in 0..2
    BY <1>1 DEF IInv, InvBody, TypeOK, ControllerTypes
  <2>5. Sending(h)
    BY <2>1, <2>3, <2>4 DEF HwSend, At, Receiving, Waiting
  <2>6. cnt = 1 /\ ~IsRead(h)
    BY <2>1, <2>4, <2>5 DEF HwSend, Sending, Length
  <2>7. tx = gWrite[0] /\ gWrite[0] = req[h].val /\ ptr = req[h].reg
    BY <2>1, <2>5, <2>6 DEF HwSend, Sending, Length, Buffer
  <2>8. req[h] \in Writes
    BY <2>3, <2>4, <2>6, Arguments DEF Waiting
  <2>9. QED  BY <2>1, <2>3, <2>7, <2>8 DEF HwSend
<1>2. IInv /\ [Next]_vars => [mem' # mem => Asked]_vars
  BY <1>1
<1>3. QED  BY <1>2, InvAlways, PTL DEF Spec, RegisterWrites

-----------------------------------------------------------------------------
(* Any number of readers, answers in time: g_read may be another call's    *)
(* byte, but not one that is older than the call that returns it.          *)

(* The history variable only watches.                                      *)
LEMMA ReadersStep == [ReadersNext]_readersVars => [Next]_vars
  BY DEF ReadersNext, Next, Transfer, readersVars

LEMMA ReadersAreSpec == ReadersSpec => Spec
<1>1. ReadersInit => Init
  BY DEF ReadersInit
<1>2. QED  BY <1>1, ReadersStep, PTL DEF ReadersSpec, Spec

LEMMA ReadersInvAlways ==
  ASSUME ~LateAnswers
  PROVE  ReadersSpec => []IInv
  BY ReadersAreSpec, InvAlways, PTL

(* A step of a process moves that process alone, leaves g_read and the     *)
(* receive side of the controller alone, and sets CNT only under the lock. *)
LEMMA ProcessStep ==
  ASSUME TypeOK, NEW q \in Procs, Call(q) \/ Proceed(q) \/ DrainSignal(q)
  PROVE  /\ \A p \in Procs : p # q => pc'[p] = pc[p] /\ req'[p] = req[p]
         /\ pc[q] # "idle" => req' = req
         /\ UNCHANGED <<gRead, rx, irq>>
         /\ cnt' # cnt => pc[q] \in {"count", "rxcount"}
<1>1. pc \in [Procs -> Labels] /\ DOMAIN req = Procs
  BY DEF TypeOK, CallTypes
<1>2. /\ \A p \in Procs : p # q => pc'[p] = pc[p] /\ req'[p] = req[p]
      /\ pc[q] # "idle" => req' = req
  BY <1>1 DEF Goto, Moves, Call, CallWith, Proceed, DrainSignal, PollFree, PollAgain,
     PollGiveUp, Lock, Count, Start, Drain, DrainTimeout, Stop, StopTimeout,
     RxCount, RxStart, RxData, RxStop, RxTimeout, Fail, RxFail, FinishWrite,
     FinishRead, Return
<1>3. UNCHANGED <<gRead, rx, irq>>
  BY DEF Moves, Call, CallWith, Proceed, DrainSignal, PollFree, PollAgain,
     PollGiveUp, Lock, Count, Start, Drain, DrainTimeout, Stop, StopTimeout,
     RxCount, RxStart, RxData, RxStop, RxTimeout, Fail, RxFail, FinishWrite,
     FinishRead, Return, bufVars, hwVars
<1>4. cnt' # cnt => pc[q] \in {"count", "rxcount"}
  BY DEF Goto, Moves, Call, CallWith, Proceed, DrainSignal, PollFree, PollAgain,
     PollGiveUp, Lock, Count, Start, Drain, DrainTimeout, Stop, StopTimeout,
     RxCount, RxStart, RxData, RxStop, RxTimeout, Fail, RxFail, FinishWrite,
     FinishRead, Return, hwVars
<1>5. QED  BY <1>2, <1>3, <1>4

LEMMA SentInit == ReadersInit => SentInv
  BY ReadersAreProcs DEF ReadersInit, Init, MasterInit, SentInv, SentTypes, SentAt

(* The types of the history, and what a call in progress has noted.        *)
LEMMA Noted ==
  ASSUME SentTypes, NEW bytes \in SUBSET Byte, Note(bytes)
  PROVE  /\ SentTypes'
         /\ \A p \in Readers :
               pc[p] # "idle" => sent'[p] = sent[p] \cup bytes
<1>1. \A p \in Readers : (IF pc[p] = "idle" THEN {} ELSE sent[p] \cup bytes)
                              \in SUBSET Byte
  BY DEF SentTypes
<1>2. QED  BY <1>1 DEF Note, SentTypes

LEMMA NothingNoted ==
  ASSUME SentTypes, Note({})
  PROVE  /\ SentTypes'
         /\ \A p \in Readers : pc[p] # "idle" => sent'[p] = sent[p]
<1>1. \A p \in Readers : pc[p] # "idle" => sent'[p] = sent[p] \cup {}
  BY Noted
<1>2. SentTypes'
  BY Noted
<1>3. QED  BY <1>1, <1>2

LEMMA SentReceive ==
  ASSUME IInv, SentInv, HwRecv, Note({mem[ptr]})
  PROVE  SentInv'
<1>1. {mem[ptr]} \in SUBSET Byte
  BY DEF IInv, TypeOK, SensorTypes
<1>2. SentTypes' /\ \A p \in Readers :
         pc[p] # "idle" => sent'[p] = sent[p] \cup {mem[ptr]}
  BY <1>1, Noted DEF SentInv
<1>3. rx' = mem[ptr] /\ UNCHANGED <<pc, req, gRead>>
  BY DEF HwRecv, procVars, bufVars
<1>4. ASSUME NEW p \in Readers PROVE SentAt(p)'
  BY <1>2, <1>3 DEF SentInv, SentAt, IsRead
<1>5. QED  BY <1>2, <1>4 DEF SentInv

LEMMA SentHandle ==
  ASSUME IInv, SentInv, Note({}),
         Isr \/ HwXrdy \/ HwSend \/ HwStop \/ HwAbort
  PROVE  SentInv'
<1>1. SentTypes' /\ \A p \in Readers : pc[p] # "idle" => sent'[p] = sent[p]
  BY NothingNoted DEF SentInv
<1>2. UNCHANGED <<pc, req, rx>>
  BY DEF Isr, HwXrdy, HwSend, HwStop, HwAbort, procVars
<1>3. ~Quiet
  BY DEF Isr, HwXrdy, HwSend, HwStop, HwAbort, Quiet
<1>4. ASSUME NEW p \in Readers PROVE pc[p] # "finish"
  <2>1. p \in Procs /\ (pc[p] = "finish" => lock = p)
    BY ReadersAreProcs DEF IInv, InvBody, LockPaired, Locked, Labels
  <2>2. QED  BY <1>3, <2>1, HolderAtRest DEF Waiting
<1>5. ASSUME NEW p \in Readers PROVE SentAt(p)'
  <2>1. SentAt(p)
    BY DEF SentInv
  <2>2. CASE Isr
    <3>1. /\ cnt' = cnt /\ irq' = {}
          /\ gRead' = IF "RRDY" \in irq THEN rx ELSE gRead
      BY <2>2 DEF Isr
    <3>2. QED  BY <1>1, <1>2, <1>4, <2>1, <3>1 DEF SentAt
  <2>3. CASE HwXrdy \/ HwStop \/ HwAbort
    <3>1. cnt' = cnt /\ gRead' = gRead /\ ("RRDY" \in irq' => "RRDY" \in irq)
      BY <2>3 DEF HwXrdy, HwStop, HwAbort, bufVars
    <3>2. QED  BY <1>1, <1>2, <1>4, <2>1, <3>1 DEF SentAt
  <2>4. CASE HwSend
    <3>1. mode = "tx" /\ UNCHANGED <<gRead, irq>>
      BY <2>4 DEF HwSend, bufVars
    <3>2. pc[p] \notin {"rxdata", "rxstop"}
      BY <3>1, ReadersAreProcs DEF IInv, InvBody, At, Receiving
    <3>3. QED  BY <1>1, <1>2, <1>4, <2>1, <3>1, <3>2 DEF SentAt
  <2>5. QED  BY <2>2, <2>3, <2>4
<1>6. QED  BY <1>1, <1>5 DEF SentInv

(* The byte stays where it was, or moves on with its reader: from the FIFO *)
(* when comp_stop came, and when the mutex is released nothing is pending. *)
LEMMA SentProcess ==
  ASSUME IInv, SentInv, Note({}),
         NEW q \in Procs, Call(q) \/ Proceed(q) \/ DrainSignal(q)
  PROVE  SentInv'
<1>1. SentTypes' /\ \A p \in Readers : pc[p] # "idle" => sent'[p] = sent[p]
  BY NothingNoted DEF SentInv
<1>2. /\ \A p \in Procs : p # q => pc'[p] = pc[p] /\ req'[p] = req[p]
      /\ pc[q] # "idle" => req' = req
      /\ UNCHANGED <<gRead, rx, irq>>
      /\ cnt' # cnt => pc[q] \in {"count", "rxcount"}
  BY ProcessStep DEF IInv
<1>3. ASSUME NEW p \in Readers, p # q PROVE SentAt(p)'
  <2>1. SentAt(p) /\ p \in Procs
    BY ReadersAreProcs DEF SentInv
  <2>2. cnt' # cnt => pc[p] \notin {"rxdata", "rxstop"}
    <3>1. cnt' # cnt => lock = q
      BY <1>2 DEF IInv, InvBody, LockPaired, Locked, Labels
    <3>2. pc[p] \in {"rxdata", "rxstop"} => lock = p
      BY <2>1 DEF IInv, InvBody, LockPaired, Locked, Labels
    <3>3. QED  BY <1>3, <3>1, <3>2
  <2>3. QED  BY <1>1, <1>2, <1>3, <2>1, <2>2 DEF SentAt, IsRead
<1>4. ASSUME q \in Readers PROVE SentAt(q)'
  <2>1. SentAt(q) /\ At(q) /\ pc \in [Procs -> Labels]
    BY <1>4 DEF SentInv, IInv, InvBody, TypeOK, CallTypes
  <2>2. CASE RxStart(q)
    <3>1. pc'[q] = "rxdata" /\ pc[q] = "rxstart" /\ cnt' = cnt
      BY <2>1, <2>2 DEF RxStart, Goto
    <3>2. cnt = 1
      BY <2>1, <3>1 DEF At
    <3>3. QED  BY <3>1, <3>2 DEF SentAt
  <2>3. CASE RxData(q)
    <3>1. pc'[q] = "rxstop" /\ pc[q] = "rxdata" /\ cnt' = cnt
      BY <2>1, <2>3 DEF RxData, Goto, hwVars
    <3>2. QED  BY <1>1, <1>2, <1>4, <2>1, <3>1 DEF SentAt
  <2>4. CASE RxStop(q)
    <3>1. pc'[q] = "finish" /\ pc[q] = "rxstop" /\ compStop > 0
      BY <2>1, <2>4 DEF RxStop, Goto
    <3>2. cnt = 0 /\ gRead = rx
      BY <2>1, <3>1 DEF At, Receiving
    <3>3. QED  BY <1>1, <1>2, <1>4, <2>1, <3>1, <3>2 DEF SentAt
  <2>5. CASE FinishRead(q)
    <3>1. pc'[q] = "ret" /\ pc[q] = "finish" /\ IsRead(q)
      BY <2>1, <2>5 DEF FinishRead, Goto
    <3>2. irq = {}
      <4>1. lock = q
        BY <3>1 DEF IInv, InvBody, LockPaired, Locked, Labels
      <4>2. QED  BY <3>1, <4>1, HolderAtRest DEF Waiting, Quiet
    <3>3. QED  BY <1>1, <1>2, <1>4, <2>1, <3>1, <3>2 DEF SentAt
  <2>6. CASE Stop(q)
    <3>1. pc'[q] = (IF IsRead(q) THEN "rxcount" ELSE "finish") /\ req' = req
      BY <2>1, <2>6 DEF Stop, Goto
    <3>2. QED  BY <3>1 DEF SentAt, IsRead
  <2>7. CASE ~(\/ RxStart(q) \/ RxData(q) \/ RxStop(q)
            \/ FinishRead(q) \/ Stop(q))
    <3>1. pc'[q] \notin {"rxdata", "rxstop", "finish", "ret"}
      BY <2>1, <2>7 DEF Goto, Moves, Call, CallWith, Proceed, DrainSignal, PollFree,
         PollAgain, PollGiveUp, Lock, Count, Start, Drain, DrainTimeout,
         StopTimeout, RxCount, RxTimeout, Fail, RxFail, FinishWrite, Return
    <3>2. QED  BY <3>1 DEF SentAt
  <2>8. QED  BY <2>2, <2>3, <2>4, <2>5, <2>6, <2>7
<1>5. QED  BY <1>1, <1>3, <1>4 DEF SentInv

(* Where the byte is that a reader will return, whoever else reads.        *)
THEOREM SentAlways ==
  ASSUME ~LateAnswers
  PROVE  ReadersSpec => []SentInv
<1>1. IInv /\ SentInv /\ [ReadersNext]_readersVars => SentInv'
  <2> SUFFICES ASSUME IInv, SentInv, [ReadersNext]_readersVars PROVE SentInv'
    OBVIOUS
  <2>1. CASE UNCHANGED readersVars
    BY <2>1 DEF readersVars, vars, SentInv, SentTypes, SentAt, IsRead
  <2>2. QED  BY <2>1, SentReceive, SentHandle, SentProcess DEF ReadersNext
<1>2. QED  BY <1>1, SentInit, ReadersInvAlways, PTL DEF ReadersSpec

(* The byte that a read returns was sent by the sensor during that read,   *)
(* with any number of readers.                                             *)
THEOREM ReadsAreFresh ==
  ASSUME ~LateAnswers
  PROVE  ReadersSpec => ReadIsFresh
<1> DEFINE Fresh == \A p \in Readers :
                      pc[p] = "ret" /\ pc'[p] = "idle" => res'[p] \in sent[p]
<1>1. ASSUME IInv, SentInv, ReadersNext,
             NEW p \in Readers, pc[p] = "ret", pc'[p] = "idle"
      PROVE  res'[p] \in sent[p]
  <2>1. p \in Procs /\ TypeOK /\ gRead \in sent[p]
    BY <1>1, ReadersAreProcs DEF IInv, SentInv, SentAt
  <2>2. PICK q \in Procs : Call(q) \/ Proceed(q) \/ DrainSignal(q)
    BY <1>1 DEF ReadersNext, HwRecv, Isr, HwXrdy, HwSend, HwStop, HwAbort,
                procVars
  <2>3. q = p
    BY <1>1, <2>1, <2>2, ProcessStep
  <2>4. Return(p)
    BY <1>1, <2>2, <2>3 DEF Goto, Moves, Call, CallWith, Proceed, DrainSignal,
       PollFree, PollAgain, PollGiveUp, Lock, Count, Start, Drain,
       DrainTimeout, Stop, StopTimeout, RxCount, RxStart, RxData, RxStop,
       RxTimeout, Fail, RxFail, FinishWrite, FinishRead
  <2>5. res'[p] = gRead
    BY <2>1, <2>4 DEF Return, TypeOK, CallTypes
  <2>6. QED  BY <2>1, <2>5
<1>2. IInv /\ SentInv /\ [ReadersNext]_readersVars => [Fresh]_readersVars
  BY <1>1
<1>3. QED
  BY <1>2, SentAlways, ReadersInvAlways, PTL DEF ReadersSpec, ReadIsFresh

-----------------------------------------------------------------------------
(* Progress: what the return of every call needs besides fairness, with    *)
(* late answers, too                                                       *)

(* The handler or the controller can do something unless both are at rest. *)
LEMMA HwNotStuck ==
  ASSUME TypeOK, ~HwCanProceed
  PROVE  Quiet
  BY DEF TypeOK, ControllerTypes, HwCanProceed, Quiet

(* A process that is not waiting for the lock can go on, or the controller *)
(* is at work while it waits.                                              *)
LEMMA UnlockedNotStuck ==
  ASSUME TypeOK, NEW p \in Procs, pc[p] \notin {"idle", "lock"}
  PROVE  CanProceed(p) \/ (pc[p] \in Waiting /\ HwCanProceed)
<1>1. CASE pc[p] \notin Waiting
  BY <1>1 DEF CanProceed, Waiting
<1>2. CASE pc[p] \in Waiting /\ ~HwCanProceed
  <2>1. MayTimeOut
    BY <1>2, HwNotStuck DEF Quiet, MayTimeOut
  <2>2. QED  BY <1>2, <2>1 DEF CanProceed, Waiting
<1>3. QED  BY <1>1, <1>2

(* No call is ever stuck: its process can go on, or the holder of the lock *)
(* it waits for can, or whoever of them waits for a transfer that goes on. *)
THEOREM NobodyIsStuck == Spec => []NobodyStuck
<1>1. TypeOK /\ LockPaired => NobodyStuck
  <2> SUFFICES ASSUME TypeOK, LockPaired, NEW p \in Procs, pc[p] # "idle"
               PROVE  /\ DependsOn(p) \in Procs
                      /\ \/ CanProceed(DependsOn(p))
                         \/ pc[DependsOn(p)] \in Waiting /\ HwCanProceed
    BY DEF NobodyStuck
  <2>1. CASE pc[p] # "lock"
    <3>1. DependsOn(p) = p
      BY <2>1 DEF DependsOn
    <3>2. QED  BY <2>1, <3>1, UnlockedNotStuck
  <2>2. CASE pc[p] = "lock" /\ lock = None
    <3>1. DependsOn(p) = p /\ CanProceed(p)
      BY <2>2 DEF DependsOn, CanProceed
    <3>2. QED  BY <3>1
  <2>3. CASE pc[p] = "lock" /\ lock # None
    <3>1. DependsOn(p) = lock /\ lock \in Procs
      BY <2>3 DEF DependsOn, TypeOK, CallTypes
    <3>2. pc[lock] \notin {"idle", "lock"}
      BY <3>1 DEF LockPaired, Locked
    <3>3. QED  BY <3>1, <3>2, UnlockedNotStuck
  <2>4. QED  BY <2>1, <2>2, <2>3
<1>2. QED  BY <1>1, TypeCorrect, LockIsPaired, PTL

(* Every step of a call brings it closer to its return.                    *)
LEMMA StepsDecrease ==
  ASSUME TypeOK, NEW p \in Procs, Proceed(p) \/ DrainSignal(p)
  PROVE  StepsLeft(p)' < StepsLeft(p)
<1>1. pc \in [Procs -> Labels] /\ polls \in [Procs -> 0..MaxPolls]
  BY DEF TypeOK, CallTypes
<1>2. MaxPolls \in Nat /\ polls[p] \in 0..MaxPolls
  BY <1>1, PollsAssumption
<1>3. CASE PollAgain(p)
  <2>1. pc'[p] = "poll" /\ pc[p] = "poll" /\ polls'[p] = polls[p] + 1
    BY <1>1, <1>3 DEF PollAgain
  <2>2. QED  BY <1>2, <2>1 DEF StepsLeft
<1>4. CASE PollFree(p) \/ PollGiveUp(p)
  <2>1. pc[p] = "poll" /\ pc'[p] \in {"lock", "idle"}
    BY <1>1, <1>4 DEF PollFree, PollGiveUp, Goto, Moves
  <2>2. QED  BY <1>2, <2>1 DEF StepsLeft
<1>5. CASE ~(PollAgain(p) \/ PollFree(p) \/ PollGiveUp(p))
  <2>1. \/ pc[p] = "lock" /\ pc'[p] = "count"
        \/ pc[p] = "count" /\ pc'[p] = "start"
        \/ pc[p] = "start" /\ pc'[p] = "drain"
        \/ pc[p] = "drain" /\ pc'[p] \in {"stop", "fail"}
        \/ pc[p] = "stop" /\ pc'[p] \in {"rxcount", "finish", "fail"}
        \/ pc[p] = "rxcount" /\ pc'[p] = "rxstart"
        \/ pc[p] = "rxstart" /\ pc'[p] = "rxdata"
        \/ pc[p] = "rxdata" /\ pc'[p] \in {"rxstop", "rxfail"}
        \/ pc[p] = "rxstop" /\ pc'[p] \in {"finish", "rxfail"}
        \/ pc[p] \in {"fail", "rxfail"} /\ pc'[p] = "idle"
        \/ pc[p] = "finish" /\ pc'[p] \in {"idle", "ret"}
        \/ pc[p] = "ret" /\ pc'[p] = "idle"
    BY <1>1, <1>5 DEF Proceed, DrainSignal, Lock, Count, Start, Drain,
       DrainTimeout, Stop, StopTimeout, RxCount, RxStart, RxData, RxStop,
       RxTimeout, Fail, RxFail, FinishWrite, FinishRead, Return, Goto, Moves
  <2>2. QED  BY <2>1 DEF StepsLeft
<1>6. QED  BY <1>3, <1>4, <1>5

(* Every step of the handler and the controller leaves them less to do.    *)
LEMMA WorkDecreases ==
  ASSUME TypeOK, Isr \/ Transfer \/ HwAbort
  PROVE  WorkLeft' < WorkLeft
<1> DEFINE M == IF mode = "idle" THEN 0 ELSE 4 * cnt + 2
           I == IF irq = {} THEN 0 ELSE 1
           X == IF mode = "tx" /\ cnt > 0 /\ tx = None /\ "XRDY" \notin irq
                THEN 2 ELSE 0
<1>1. /\ WorkLeft = M + I + X /\ WorkLeft' = M' + I' + X'
      /\ M \in Int /\ I \in 0..1 /\ X \in {0, 2}
      /\ I' \in 0..1 /\ X' \in {0, 2}
  BY DEF WorkLeft, TypeOK, ControllerTypes
<1>2. cnt \in 0..2 /\ mode \in {"idle", "tx", "rx"} /\ gLen \in 0..U16Max
  BY DEF TypeOK, ControllerTypes, BufferTypes
<1>3. CASE Isr
  <2>1. M' = M /\ I = 1 /\ I' = 0
    BY <1>3 DEF Isr
  <2>2. X' = X \/ X' = 0
    <3>1. CASE "XRDY" \notin irq
      BY <1>3, <3>1 DEF Isr
    <3>2. CASE "XRDY" \in irq
      <4>1. tx' \in Byte
        BY <1>3, <3>2 DEF Isr, TypeOK, BufferTypes
      <4>2. tx' # None
        BY <4>1, NoneIsNoValue
      <4>3. QED  BY <4>2
    <3>3. QED  BY <3>1, <3>2
  <2>3. QED
    BY <1>1, <2>1, <2>2
<1>4. CASE HwXrdy
  <2>1. M' = M /\ X = 2 /\ X' = 0
    BY <1>4 DEF HwXrdy
  <2>2. QED  BY <1>1, <2>1
<1>5. CASE HwSend
  <2>1. M' = M - 4 /\ I' = I
    BY <1>2, <1>5 DEF HwSend
  <2>2. QED  BY <1>1, <2>1
<1>6. CASE HwRecv
  <2>1. M' = M - 4 /\ X' = X
    BY <1>2, <1>6 DEF HwRecv
  <2>2. QED  BY <1>1, <2>1
<1>7. CASE HwStop \/ HwAbort
  <2>1. M >= 2 /\ M' = 0 /\ X' = 0
    BY <1>2, <1>7 DEF HwStop, HwAbort
  <2>2. QED  BY <1>1, <2>1
<1>8. QED  BY <1>3, <1>4, <1>5, <1>6, <1>7 DEF Transfer

(* A process counts its own polls.                                         *)
LEMMA PollsStep ==
  ASSUME TypeOK, NEW q \in Procs, Call(q) \/ Proceed(q) \/ DrainSignal(q)
  PROVE  \A p \in Procs : p # q => polls'[p] = polls[p]
<1>1. DOMAIN polls = Procs
  BY DEF TypeOK, CallTypes
<1>2. QED
  BY <1>1 DEF Moves, Call, CallWith, Proceed, DrainSignal, PollFree, PollAgain,
     PollGiveUp, Lock, Count, Start, Drain, DrainTimeout, Stop, StopTimeout,
     RxCount, RxStart, RxData, RxStop, RxTimeout, Fail, RxFail, FinishWrite,
     FinishRead, Return

(* A call takes only so many steps of its own, and what it waits for only  *)
(* so many of the handler and the controller.                              *)
THEOREM CallsAreBounded == Spec => EveryStepCounts
<1> DEFINE Counts ==
      /\ \A p \in Procs :
           /\ pc[p] # "idle" => StepsLeft(p)' <= StepsLeft(p)
           /\ Proceed(p) \/ DrainSignal(p) => StepsLeft(p)' < StepsLeft(p)
      /\ Isr \/ Transfer \/ HwAbort => WorkLeft' < WorkLeft
<1>1. ASSUME TypeOK, [Next]_vars PROVE [Counts]_vars
  <2>1. ASSUME NEW p \in Procs, Proceed(p) \/ DrainSignal(p)
        PROVE  StepsLeft(p)' < StepsLeft(p)
    BY <1>1, <2>1, StepsDecrease
  <2>2. ASSUME Isr \/ Transfer \/ HwAbort PROVE WorkLeft' < WorkLeft
    BY <1>1, <2>2, WorkDecreases
  <2>3. ASSUME NEW p \in Procs, pc[p] # "idle", Next
        PROVE  StepsLeft(p)' <= StepsLeft(p)
    <3>1. StepsLeft(p) \in Int /\ StepsLeft(p)' \in Int
      <4>1. TypeOK'
        BY <1>1, TypeNext
      <4>2. \A n \in 0..MaxPolls : MaxPolls - n \in Int /\ 12 + (MaxPolls - n) \in Int
        BY PollsAssumption
      <4>3. /\ pc[p] \in Labels /\ pc'[p] \in Labels
            /\ polls[p] \in 0..MaxPolls /\ polls'[p] \in 0..MaxPolls
        BY <1>1, <4>1 DEF TypeOK, CallTypes
      <4>4. StepsLeft(p) \in Int
        BY <4>2, <4>3 DEF StepsLeft, Labels
      <4>5. StepsLeft(p)' \in Int
        BY <4>2, <4>3 DEF StepsLeft, Labels
      <4>6. QED  BY <4>4, <4>5
    <3>2. CASE pc'[p] = pc[p] /\ polls'[p] = polls[p]
      <4>1. StepsLeft(p)' = StepsLeft(p)
        BY <3>2 DEF StepsLeft
      <4>2. QED  BY <3>1, <4>1
    <3>3. CASE ~(pc'[p] = pc[p] /\ polls'[p] = polls[p])
      <4>1. Proceed(p) \/ DrainSignal(p)
        <5>1. ~(Isr \/ Transfer \/ HwAbort)
          BY <3>3 DEF Isr, Transfer, HwXrdy, HwSend, HwRecv, HwStop, HwAbort,
             procVars
        <5>2. PICK q \in Procs : Call(q) \/ Proceed(q) \/ DrainSignal(q)
          BY <2>3, <5>1 DEF Next
        <5>3. q # p => pc'[p] = pc[p] /\ polls'[p] = polls[p]
          BY <1>1, <5>2, ProcessStep, PollsStep
        <5>4. q = p /\ ~Call(p)
          BY <2>3, <3>3, <5>3 DEF Call, CallWith, Goto
        <5>5. QED  BY <5>2, <5>4
      <4>2. QED  BY <2>1, <3>1, <4>1
    <3>4. QED  BY <3>2, <3>3
  <2>4. QED  BY <1>1, <2>1, <2>2, <2>3
<1>2. TypeOK /\ [Next]_vars => [Counts]_vars
  BY <1>1
<1>3. QED  BY <1>2, TypeCorrect, PTL DEF Spec, EveryStepCounts

-----------------------------------------------------------------------------
(* CottiI2C implements RegisterBus: every step of a call is a step of the  *)
(* promise or invisible to the callers.                                    *)

LEMMA PromiseInit == Init => Promise!Init
  BY DEF Init, MasterInit, Active, Promise!Init, Err, Promise!Err

(* A step inside a call that neither performs nor ends it.                 *)
LEMMA PromiseStutter ==
  ASSUME UNCHANGED <<mem, req, did, res>>, Active' = Active
  PROVE  UNCHANGED Promise!vars
  BY DEF Promise!vars, Active

LEMMA PromiseCall ==
  ASSUME IInv, NEW p \in Procs, Call(p)
  PROVE  Promise!Invoke(p)
<1>1. pc[p] = "idle" /\ pc' = [pc EXCEPT ![p] = "poll"]
      /\ pc \in [Procs -> Labels]
  BY DEF Call, CallWith, Goto, Moves, IInv, InvBody, TypeOK, CallTypes
<1>2. Active' = Active \cup {p} /\ p \notin Active
  BY <1>1 DEF Active
<1>3. \E r \in Requests(p) : req' = [req EXCEPT ![p] = r]
  BY DEF Call, CallWith
<1>4. /\ did' = [did EXCEPT ![p] = None] /\ res' = [res EXCEPT ![p] = Err]
      /\ UNCHANGED mem
  BY DEF Call, CallWith, sensorVars
<1>5. QED
  BY <1>2, <1>3, <1>4
     DEF Promise!Invoke, Promise!Ask, Active, Requests, Reads, Writes,
         Promise!Reads, Promise!Writes, Err, Promise!Err

(* The ends of a call: refused, or performed and answered.                 *)
LEMMA PromiseReturn ==
  ASSUME IInv, OneReader, NEW p \in Procs,
         \/ PollGiveUp(p) \/ Fail(p) \/ RxFail(p)
         \/ FinishWrite(p) \/ Return(p)
  PROVE  Promise!Refuse(p) \/ Promise!Succeed(p)
<1>1. pc \in [Procs -> Labels] /\ At(p) /\ CallTypes
  BY DEF IInv, InvBody, TypeOK, CallTypes
<1>2. pc[p] # "idle" /\ pc' = [pc EXCEPT ![p] = "idle"]
      /\ UNCHANGED <<mem, req, did>>
  BY DEF PollGiveUp, Fail, RxFail, FinishWrite, Return, Goto, Moves, sensorVars
<1>3. Active' = Active \ {p} /\ p \in Active
  BY <1>1, <1>2 DEF Active
<1>4. CASE PollGiveUp(p) \/ Fail(p) \/ RxFail(p)
  <2>1. res' = [res EXCEPT ![p] = Err]
    BY <1>4 DEF PollGiveUp, Fail, RxFail
  <2>2. QED
    BY <1>2, <1>3, <2>1 DEF Promise!Refuse, Active, Err, Promise!Err
<1>5. CASE FinishWrite(p)
  <2>1. res' = [res EXCEPT ![p] = 0] /\ pc[p] = "finish" /\ ~IsRead(p)
    BY <1>5 DEF FinishWrite, Goto, Moves
  <2>2. req[p] \notin Promise!Reads
    BY <2>1 DEF IsRead, Reads, Promise!Reads
  <2>3. did[p] # None
    <3>1. did[p] = <<req[p].reg, req[p].val>>
      BY <1>1, <2>1 DEF At, Stored
    <3>2. did[p] \in Byte \X Byte
      BY <1>1, <2>1, <3>1, Arguments
    <3>3. QED  BY <3>2, NoneIsNoValue
  <2>4. QED  BY <1>2, <1>3, <2>1, <2>2, <2>3 DEF Promise!Succeed, Active
<1>6. CASE Return(p)
  <2>1. res' = [res EXCEPT ![p] = gRead] /\ pc[p] = "ret" /\ IsRead(p)
    BY <1>1, <1>6 DEF Return, Goto, Moves, At
  <2>2. req[p] \in Promise!Reads
    BY <2>1 DEF IsRead, Reads, Promise!Reads
  <2>3. did[p] = <<req[p].reg, gRead>>
    BY <1>1, <2>1 DEF At
  <2>4. did[p] # None
    <3>1. did[p] \in Byte \X Byte
      BY <1>1, <2>1, <2>3, Arguments DEF IInv, InvBody, TypeOK, BufferTypes
    <3>2. QED  BY <3>1, NoneIsNoValue
  <2>5. did[p][2] = gRead
    BY <2>3
  <2>6. QED
    BY <1>2, <1>3, <2>1, <2>2, <2>4, <2>5 DEF Promise!Succeed, Active
<1>7. QED  BY <1>4, <1>5, <1>6

(* Everything else a process does is invisible to the callers.             *)
LEMMA PromiseInside ==
  ASSUME IInv, NEW p \in Procs,
         \/ PollFree(p) \/ PollAgain(p) \/ Lock(p) \/ Count(p) \/ Start(p)
         \/ Drain(p) \/ DrainSignal(p) \/ DrainTimeout(p)
         \/ Stop(p) \/ StopTimeout(p) \/ RxCount(p) \/ RxStart(p)
         \/ RxData(p) \/ RxStop(p) \/ RxTimeout(p) \/ FinishRead(p)
  PROVE  UNCHANGED Promise!vars
<1>1. UNCHANGED <<mem, req, did, res>>
  BY DEF Moves, PollFree, PollAgain, Lock, Count, Start, Drain, DrainSignal,
     DrainTimeout, Stop, StopTimeout, RxCount, RxStart, RxData, RxStop,
     RxTimeout, FinishRead, sensorVars
<1>2. \/ pc' = pc
      \/ pc[p] # "idle" /\ \E l \in Labels \ {"idle"} :
                               pc' = [pc EXCEPT ![p] = l]
  BY DEF Moves, PollFree, PollAgain, Lock, Count, Start, Drain, DrainSignal,
     DrainTimeout, Stop, StopTimeout, RxCount, RxStart, RxData, RxStop,
     RxTimeout, FinishRead, Goto, Moves, Labels
<1>3. Active' = Active
  BY <1>2 DEF Active, IInv, InvBody, TypeOK, CallTypes
<1>4. QED  BY <1>1, <1>3, PromiseStutter

(* The controller performs what the holder of the lock has asked for.      *)
LEMMA PromiseHardware ==
  ASSUME IInv, Isr \/ Transfer \/ HwAbort
  PROVE  \/ \E p \in Procs : Promise!PerformWrite(p) \/ Promise!PerformRead(p)
         \/ UNCHANGED Promise!vars
<1>1. UNCHANGED <<pc, req, res>>
  BY DEF Isr, Transfer, HwXrdy, HwSend, HwRecv, HwStop, HwAbort, procVars
<1>2. Active' = Active
  BY <1>1 DEF Active
<1>3. CASE UNCHANGED <<mem, did>>
  BY <1>1, <1>2, <1>3, PromiseStutter
<1>4. ~Quiet
  BY DEF Isr, Transfer, HwXrdy, HwSend, HwRecv, HwStop, HwAbort, Quiet
<1>5. PICK h \in Procs : pc[h] \in Waiting /\ lock = h /\ owner = h
  BY <1>4, Holder
<1>6. At(h) /\ CallTypes /\ cnt \in 0..2 /\ h \in Active
  BY <1>5 DEF IInv, InvBody, TypeOK, ControllerTypes, Active, Waiting
<1>7. CASE HwSend /\ due = "val"
  <2>1. Sending(h)
    BY <1>5, <1>6, <1>7 DEF HwSend, At, Receiving, Waiting
  <2>2. cnt = 1 /\ ~IsRead(h)
    BY <1>6, <1>7, <2>1 DEF HwSend, Sending, Length
  <2>3. tx = gWrite[0] /\ gWrite[0] = req[h].val /\ ptr = req[h].reg
        /\ did[h] = None
    BY <1>7, <2>1, <2>2 DEF HwSend, Sending, Length, Buffer
  <2>4. req[h] \in Promise!Writes
    BY <1>5, <1>6, <2>2, Arguments DEF Waiting, Writes, Promise!Writes
  <2>5. /\ mem' = [mem EXCEPT ![req[h].reg] = req[h].val]
        /\ did' = [did EXCEPT ![h] = <<req[h].reg, req[h].val>>]
    BY <1>5, <1>7, <2>3 DEF HwSend
  <2>6. Promise!PerformWrite(h)
    BY <1>1, <1>2, <1>6, <2>3, <2>4, <2>5 DEF Promise!PerformWrite, Active
  <2>7. QED  BY <2>6
<1>8. CASE HwRecv
  <2>1. Receiving(h) /\ IsRead(h)
    BY <1>5, <1>6, <1>8 DEF HwRecv, At, Sending, Waiting
  <2>2. ptr = req[h].reg /\ did[h] = None
    BY <1>8, <2>1 DEF HwRecv, Receiving
  <2>3. did' = [did EXCEPT ![h] = <<req[h].reg, mem[req[h].reg]>>]
        /\ UNCHANGED mem
    BY <1>5, <1>8, <2>2 DEF HwRecv, sensorVars
  <2>4. Promise!PerformRead(h)
    BY <1>1, <1>2, <1>6, <2>1, <2>2, <2>3
       DEF Promise!PerformRead, Active, IsRead, Reads, Promise!Reads
  <2>5. QED  BY <2>4
<1>9. HwRecv \/ (HwSend /\ due = "val") \/ UNCHANGED <<mem, did>>
  BY DEF Isr, Transfer, HwXrdy, HwSend, HwRecv, HwStop, HwAbort, sensorVars
<1>10. QED  BY <1>3, <1>7, <1>8, <1>9

(* cotti_i2c.c keeps the promise of RegisterBus when no answer is late and *)
(* only one process reads.                                                 *)
THEOREM KeepsPromise ==
  ASSUME ~LateAnswers, OneReader
  PROVE  Spec => Implements
<1>1. ASSUME IInv, [Next]_vars PROVE [Promise!Next]_(Promise!vars)
  <2>1. ASSUME NEW p \in Procs, Call(p) \/ Proceed(p) \/ DrainSignal(p)
        PROVE  \/ \E q \in Procs : \/ Promise!Invoke(q) \/ Promise!Refuse(q)
                                   \/ Promise!Succeed(q)
               \/ UNCHANGED Promise!vars
    BY <1>1, <2>1, PromiseCall, PromiseReturn, PromiseInside DEF Proceed
  <2>2. CASE Isr \/ Transfer \/ HwAbort
    BY <1>1, <2>2, PromiseHardware DEF Promise!Next
  <2>3. CASE UNCHANGED vars
    BY <2>3 DEF vars, Promise!vars, Active
  <2>4. QED  BY <1>1, <2>1, <2>2, <2>3 DEF Next, Promise!Next
<1>2. IInv /\ [Next]_vars => [Promise!Next]_(Promise!vars)
  BY <1>1
<1>3. QED
  BY <1>2, PromiseInit, InvAlways, PTL DEF Spec, Implements, Promise!Spec
=============================================================================
