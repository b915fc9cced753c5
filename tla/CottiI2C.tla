------------------------------ MODULE CottiI2C ------------------------------
(***************************************************************************)
(* The I2C master of the BMP280 driver: bmp280_driver/src/cotti_i2c.c,     *)
(* from a call of cotti_i2c_read or cotti_i2c_write to its return.         *)
(*                                                                         *)
(* Processes in the kernel (open, read and ioctl on the char device) call  *)
(* the two functions; each call polls for a free bus, takes lock_bus,      *)
(* programs the controller and sleeps until the interrupt handler has      *)
(* moved the bytes, or until TIMEOUT_READ_WRITE is over.  The controller   *)
(* and the sensor are outside the repository and are modelled from how the *)
(* driver uses them.                                                       *)
(*                                                                         *)
(* The BeagleBone has a single core: the handler runs between two          *)
(* instructions of a process, so one pass of its loop is one action.       *)
(***************************************************************************)
EXTENDS Integers

U8Max  == 255        \* largest values of the C types
U16Max == 65535

CONSTANTS
    Procs,        \* processes that call the driver
    Readers,      \* those of them that call cotti_i2c_read
    Byte,         \* register addresses and contents
    MaxPolls,     \* polls of a busy bus before giving up (100 in the code)
    LateAnswers,  \* may a transfer outlive TIMEOUT_READ_WRITE?
    None          \* no process, no byte

ASSUME BytesAssumption  == 0 \in Byte /\ Byte \subseteq 0..U8Max
ASSUME PollsAssumption  == MaxPolls \in Nat
ASSUME ReadersAreProcs  == Readers \subseteq Procs
ASSUME LateIsBoolean    == LateAnswers \in BOOLEAN
ASSUME NoneIsNoValue    == None \notin Procs \cup Byte \cup (Byte \X Byte)

VARIABLES
    pc,           \* where each process is in cotti_i2c_read / _write
    req,          \* the arguments of its call
    polls,        \* i of prv_wait_for_bus_busy
    res,          \* what its last call returned
    lock,         \* holder of lock_bus
    gLen, gWrite, gRead,     \* g_len, g_write, g_read
    compRead, compStop,      \* the counts of the two completions
    mode, cnt, irq,          \* controller: transfer, CNT, IRQSTATUS
    tx, rx,                  \* controller: the FIFO, one byte each way
    due, owner,              \* controller: byte sent next, who started it
    ptr, mem,                \* sensor: addressed register, registers
    did           \* history: what the sensor did for each process's call

procVars   == <<pc, req, polls, res>>
bufVars    == <<gLen, gWrite, gRead>>
compVars   == <<compRead, compStop>>
hwVars     == <<mode, cnt, irq, tx, rx, due, owner>>
sensorVars == <<ptr, mem>>
vars == <<pc, req, polls, res, lock, gLen, gWrite, gRead, compRead, compStop,
          mode, cnt, irq, tx, rx, due, owner, ptr, mem, did>>

Err == -1

Labels == {"idle", "poll", "lock", "count", "start", "drain", "stop",
           "rxcount", "rxstart", "rxdata", "rxstop", "fail", "rxfail",
           "finish", "ret"}

Locked == Labels \ {"idle", "poll", "lock", "ret"}

Writes == [op : {"write"}, reg : Byte, val : Byte]
Reads  == [op : {"read"}, reg : Byte, val : {None}]

Requests(p) == Writes \cup (IF p \in Readers THEN Reads ELSE {})

Interrupts == {"AL", "ARDY", "NACK", "RRDY", "XRDY"}

(* The driver and the controller before the first call.                    *)
MasterInit ==
    /\ pc = [p \in Procs |-> "idle"]
    /\ req = [p \in Procs |-> None]
    /\ polls = [p \in Procs |-> 0]
    /\ res = [p \in Procs |-> Err]
    /\ lock = None
    /\ gLen = 0 /\ gWrite = [i \in 0..1 |-> 0] /\ gRead = 0
    /\ compRead = 0 /\ compStop = 0
    /\ mode = "idle" /\ cnt = 0 /\ irq = {}
    /\ tx = None /\ rx = 0 /\ due = "reg" /\ owner = None
    /\ ptr = 0
    /\ did = [p \in Procs |-> None]

Init == MasterInit /\ mem = [b \in Byte |-> 0]

-----------------------------------------------------------------------------
(* The processes.  pc[p] names the statement that p executes next.         *)

Goto(p, from, to) == pc[p] = from /\ pc' = [pc EXCEPT ![p] = to]

(* A step that changes nothing but the program counter.                    *)
Moves(p, from, to) ==
    /\ Goto(p, from, to)
    /\ UNCHANGED <<req, polls, res, lock, bufVars, compVars, hwVars,
                   sensorVars, did>>

IsRead(p) == req[p] \in Reads

(* prv_is_irq_triggered returns a u8: of the status register only the low  *)
(* byte reaches the caller.                                                *)
IrqTriggered(status, bit) == (IF status THEN bit ELSE 0) % 256

BusBusyBit == 4096

BusLooksBusy == IrqTriggered(mode # "idle", BusBusyBit) # 0 \/ lock # None

(* prv_set_count, after two slips that could be made in it.                *)
\* The count includes the slave address.
SetCountWithAddress(n) == gLen' = (IF n <= 2 THEN n ELSE 2) /\ cnt' = n + 1

\* g_len is the index of the last byte instead of the number of bytes.
SetCountAsIndex(n) == gLen' = (IF n <= 2 THEN n ELSE 2) - 1 /\ cnt' = n

SetCount(n) == gLen' = (IF n <= 2 THEN n ELSE 2) /\ cnt' = n

(* wait_event_interruptible_timeout and wait_for_completion_timeout give   *)
(* up after TIMEOUT_READ_WRITE.  When answers are never late, that is only *)
(* when the controller has nothing left to do.                             *)
MayTimeOut == LateAnswers \/ (mode = "idle" /\ irq = {})

-----------------------------------------------------------------------------
(* Plausible slips in the code, each an alternative to an action of the    *)
(* same name below.  They take no part in Next; they are there to show    *)
(* that the properties notice them.                                        *)

\* The value is sent before the register's address.
CountValueFirst(p) ==
    /\ Goto(p, "count", "start")
    /\ IF IsRead(p)
       THEN SetCount(1) /\ gWrite' = [gWrite EXCEPT ![0] = req[p].reg]
       ELSE /\ SetCount(2)
            /\ gWrite' = [i \in 0..1 |-> IF i = 0 THEN req[p].reg
                                            ELSE req[p].val]
    /\ UNCHANGED <<req, polls, res, lock, gRead, compVars, mode, irq, tx, rx,
                   due, owner, sensorVars, did>>

\* The FIFO keeps the byte of an aborted transfer.
StartWithFullFifo(p) ==
    /\ Goto(p, "start", "drain")
    /\ mode' = "tx" /\ due' = "reg" /\ owner' = p
    /\ UNCHANGED <<req, polls, res, lock, bufVars, compVars, cnt, irq, tx, rx,
                   sensorVars, did>>

\* The bus is used without lock_bus.
LockIgnored(p) ==
    /\ Goto(p, "lock", "count")
    /\ lock' = p
    /\ UNCHANGED <<req, polls, res, bufVars, compVars, hwVars,
                   sensorVars, did>>

\* A write does not wait for comp_stop.
DrainWithoutStop(p) ==
    /\ gLen = 0
    /\ Moves(p, "drain", IF IsRead(p) THEN "stop" ELSE "finish")

\* retval stays 0 after the timeout of a write.
DrainTimeoutUnreported(p) ==
    /\ gLen # 0 /\ MayTimeOut
    /\ Moves(p, "drain", IF IsRead(p) THEN "fail" ELSE "finish")

\* A read returns as soon as the byte is there.
RxDataWithoutStop(p) ==
    /\ compRead > 0
    /\ Goto(p, "rxdata", "finish")
    /\ compRead' = compRead - 1
    /\ UNCHANGED <<req, polls, res, lock, bufVars, compStop, hwVars,
                   sensorVars, did>>

\* The timeout of the second transfer is not an error.
RxTimeoutUnreported(p) ==
    /\ MayTimeOut
    /\ \/ compRead = 0 /\ Moves(p, "rxdata", "finish")
       \/ compStop = 0 /\ Moves(p, "rxstop", "finish")

\* The error path returns with the lock held.
FailWithLock(p) ==
    /\ Goto(p, "fail", "idle")
    /\ compStop' = 0
    /\ res' = [res EXCEPT ![p] = Err]
    /\ UNCHANGED <<req, polls, lock, bufVars, compRead, hwVars, sensorVars,
                   did>>

\* The error path of cotti_i2c_read returns with the lock held.
RxFailWithLock(p) ==
    /\ Goto(p, "rxfail", "idle")
    /\ compRead' = 0 /\ compStop' = 0
    /\ res' = [res EXCEPT ![p] = Err]
    /\ UNCHANGED <<req, polls, lock, bufVars, hwVars, sensorVars, did>>

-----------------------------------------------------------------------------
CallWith(p, r) ==
    /\ Goto(p, "idle", "poll")
    /\ req' = [req EXCEPT ![p] = r]
    /\ polls' = [polls EXCEPT ![p] = 0]
    /\ res' = [res EXCEPT ![p] = Err]
    /\ did' = [did EXCEPT ![p] = None]
    /\ UNCHANGED <<lock, bufVars, compVars, hwVars, sensorVars>>

Call(p) == \E r \in Requests(p) : CallWith(p, r)

PollFree(p) == ~BusLooksBusy /\ Moves(p, "poll", "lock")

PollAgain(p) ==
    /\ BusLooksBusy /\ polls[p] < MaxPolls
    /\ pc[p] = "poll"
    /\ polls' = [polls EXCEPT ![p] = @ + 1]
    /\ UNCHANGED <<pc, req, res, lock, bufVars, compVars, hwVars,
                   sensorVars, did>>

PollGiveUp(p) ==
    /\ BusLooksBusy /\ polls[p] = MaxPolls
    /\ Goto(p, "poll", "idle")
    /\ res' = [res EXCEPT ![p] = Err]
    /\ UNCHANGED <<req, polls, lock, bufVars, compVars, hwVars,
                   sensorVars, did>>

Lock(p) ==
    /\ lock = None
    /\ Goto(p, "lock", "count")
    /\ lock' = p
    /\ UNCHANGED <<req, polls, res, bufVars, compVars, hwVars,
                   sensorVars, did>>

(* The length of the transfer and the bytes to send, last one first.       *)
Count(p) ==
    /\ Goto(p, "count", "start")
    /\ IF IsRead(p)
       THEN /\ SetCount(1)
            /\ gWrite' = [gWrite EXCEPT ![0] = req[p].reg]
       ELSE /\ SetCount(2)
            /\ gWrite' = [i \in 0..1 |-> IF i = 1 THEN req[p].reg
                                            ELSE req[p].val]
    /\ UNCHANGED <<req, polls, res, lock, gRead, compVars, mode, irq, tx, rx,
                   due, owner, sensorVars, did>>

Start(p) ==
    /\ Goto(p, "start", "drain")
    /\ tx' = None
    /\ mode' = "tx" /\ due' = "reg" /\ owner' = p
    /\ UNCHANGED <<req, polls, res, lock, bufVars, compVars, cnt, irq, rx,
                   sensorVars, did>>

Drain(p) == gLen = 0 /\ Moves(p, "drain", "stop")

(* A signal ends the wait with -ERESTARTSYS, which is not 0: the caller    *)
(* goes on as if all bytes had left.                                       *)
DrainSignal(p) == gLen # 0 /\ Moves(p, "drain", "stop")

DrainTimeout(p) == gLen # 0 /\ MayTimeOut /\ Moves(p, "drain", "fail")

Stop(p) ==
    /\ compStop > 0
    /\ Goto(p, "stop", IF IsRead(p) THEN "rxcount" ELSE "finish")
    /\ compStop' = compStop - 1
    /\ UNCHANGED <<req, polls, res, lock, bufVars, compRead, hwVars,
                   sensorVars, did>>

StopTimeout(p) == compStop = 0 /\ MayTimeOut /\ Moves(p, "stop", "fail")

RxCount(p) ==
    /\ Goto(p, "rxcount", "rxstart")
    /\ SetCount(1)
    /\ UNCHANGED <<req, polls, res, lock, gWrite, gRead, compVars, mode, irq,
                   tx, rx, due, owner, sensorVars, did>>

(* The FIFO is not cleared before the second transfer of a read.           *)
RxStart(p) ==
    /\ Goto(p, "rxstart", "rxdata")
    /\ mode' = "rx" /\ owner' = p
    /\ UNCHANGED <<req, polls, res, lock, bufVars, compVars, cnt, irq, tx, rx,
                   due, sensorVars, did>>

RxData(p) ==
    /\ compRead > 0
    /\ Goto(p, "rxdata", "rxstop")
    /\ compRead' = compRead - 1
    /\ UNCHANGED <<req, polls, res, lock, bufVars, compStop, hwVars,
                   sensorVars, did>>

RxStop(p) ==
    /\ compStop > 0
    /\ Goto(p, "rxstop", "finish")
    /\ compStop' = compStop - 1
    /\ UNCHANGED <<req, polls, res, lock, bufVars, compRead, hwVars,
                   sensorVars, did>>

RxTimeout(p) ==
    /\ MayTimeOut
    /\ \/ compRead = 0 /\ Moves(p, "rxdata", "rxfail")
       \/ compStop = 0 /\ Moves(p, "rxstop", "rxfail")

(* The error path of a write and of the first half of a read.              *)
Fail(p) ==
    /\ Goto(p, "fail", "idle")
    /\ compStop' = 0
    /\ lock' = None
    /\ res' = [res EXCEPT ![p] = Err]
    /\ UNCHANGED <<req, polls, bufVars, compRead, hwVars, sensorVars, did>>

RxFail(p) ==
    /\ Goto(p, "rxfail", "idle")
    /\ compRead' = 0 /\ compStop' = 0
    /\ lock' = None
    /\ res' = [res EXCEPT ![p] = Err]
    /\ UNCHANGED <<req, polls, bufVars, hwVars, sensorVars, did>>

FinishWrite(p) ==
    /\ ~IsRead(p)
    /\ Goto(p, "finish", "idle")
    /\ compStop' = 0
    /\ lock' = None
    /\ res' = [res EXCEPT ![p] = 0]
    /\ UNCHANGED <<req, polls, bufVars, compRead, hwVars, sensorVars, did>>

(* A read unlocks first and loads g_read afterwards.                       *)
FinishRead(p) ==
    /\ IsRead(p)
    /\ Goto(p, "finish", "ret")
    /\ compRead' = 0
    /\ lock' = None
    /\ UNCHANGED <<req, polls, res, bufVars, compStop, hwVars, sensorVars,
                   did>>

Return(p) ==
    /\ Goto(p, "ret", "idle")
    /\ res' = [res EXCEPT ![p] = gRead]
    /\ UNCHANGED <<req, polls, lock, bufVars, compVars, hwVars, sensorVars,
                   did>>

(* Every step of a call that the scheduler or a timer brings about.        *)
Proceed(p) ==
    \/ PollFree(p) \/ PollAgain(p) \/ PollGiveUp(p)
    \/ Lock(p) \/ Count(p) \/ Start(p)
    \/ Drain(p) \/ DrainTimeout(p)
    \/ Stop(p) \/ StopTimeout(p)
    \/ RxCount(p) \/ RxStart(p) \/ RxData(p) \/ RxStop(p) \/ RxTimeout(p)
    \/ Fail(p) \/ RxFail(p) \/ FinishWrite(p) \/ FinishRead(p) \/ Return(p)

-----------------------------------------------------------------------------
(* The interrupt handler: one pass of the loop of prv_isr.                 *)

Decrement(n) == IF n = 0 THEN U16Max ELSE n - 1     \* g_len is a u16

LenAfterRx == IF "RRDY" \in irq THEN Decrement(gLen) ELSE gLen
LenAfterTx == IF "XRDY" \in irq THEN Decrement(LenAfterRx) ELSE LenAfterRx

Isr ==
    /\ irq # {}
    /\ compStop' = IF "ARDY" \in irq THEN compStop + 1 ELSE compStop
    /\ compRead' = IF "RRDY" \in irq THEN compRead + 1 ELSE compRead
    /\ gRead' = IF "RRDY" \in irq THEN rx ELSE gRead
    /\ gLen' = LenAfterTx
    /\ IF "XRDY" \notin irq THEN tx' = tx
       ELSE IF LenAfterTx \in 0..1 THEN tx' = gWrite[LenAfterTx]
       ELSE tx' \in Byte                   \* beyond g_write: any byte
    /\ irq' = {}
    /\ UNCHANGED <<procVars, lock, gWrite, mode, cnt, rx, due, owner,
                   sensorVars, did>>

-----------------------------------------------------------------------------
(* The controller and the sensor (external).                               *)

HwXrdy ==
    /\ mode = "tx" /\ cnt > 0 /\ tx = None /\ "XRDY" \notin irq
    /\ irq' = irq \cup {"XRDY"}
    /\ UNCHANGED <<procVars, lock, bufVars, compVars, mode, cnt, tx, rx,
                   due, owner, sensorVars, did>>

(* The first byte of a transfer addresses a register, the next fills it.   *)
HwSend ==
    /\ mode = "tx" /\ cnt > 0 /\ tx # None
    /\ cnt' = cnt - 1 /\ tx' = None /\ due' = "val"
    /\ \/ due = "reg" /\ ptr' = tx /\ UNCHANGED <<mem, did>>
       \/ /\ due = "val"
          /\ mem' = [mem EXCEPT ![ptr] = tx]
          /\ did' = [did EXCEPT ![owner] = <<ptr, tx>>]
          /\ UNCHANGED ptr
    /\ UNCHANGED <<procVars, lock, bufVars, compVars, mode, irq, rx, owner>>

HwRecv ==
    /\ mode = "rx" /\ cnt > 0
    /\ cnt' = cnt - 1
    /\ rx' = mem[ptr]
    /\ irq' = irq \cup {"RRDY"}
    /\ did' = [did EXCEPT ![owner] = <<ptr, mem[ptr]>>]
    /\ UNCHANGED <<procVars, lock, bufVars, compVars, mode, tx, due, owner,
                   sensorVars>>

HwStop ==
    /\ mode # "idle" /\ cnt = 0
    /\ mode' = "idle"
    /\ irq' = irq \cup {"ARDY"}
    /\ UNCHANGED <<procVars, lock, bufVars, compVars, cnt, tx, rx, due,
                   owner, sensorVars, did>>

(* No acknowledge from the sensor, or arbitration lost: nothing more of    *)
(* the transfer follows, and ARDY does not come.                           *)
HwAbort ==
    /\ mode # "idle" /\ cnt > 0
    /\ mode' = "idle"
    /\ \E e \in {"AL", "NACK"} : irq' = irq \cup {e}
    /\ UNCHANGED <<procVars, lock, bufVars, compVars, cnt, tx, rx, due,
                   owner, sensorVars, did>>

Transfer == HwXrdy \/ HwSend \/ HwRecv \/ HwStop

-----------------------------------------------------------------------------
Next ==
    \/ \E p \in Procs : Call(p) \/ Proceed(p) \/ DrainSignal(p)
    \/ Isr
    \/ Transfer
    \/ HwAbort

Spec == Init /\ [][Next]_vars

(* The scheduler runs every process that can run, timers expire, and       *)
(* mutex_lock serves its waiters in turn.                                  *)
ProcFairness == \A p \in Procs : WF_vars(Proceed(p)) /\ SF_vars(Lock(p))

(* When answers are never late the controller must go on, too.             *)
HwFairness == WF_vars(Isr) /\ WF_vars(Transfer)

-----------------------------------------------------------------------------
(* Properties *)

Outcomes == {None} \cup (Byte \X Byte)

CallTypes ==
    /\ pc \in [Procs -> Labels]
    /\ req \in [Procs -> {None} \cup Writes \cup Reads]
    /\ \A p \in Procs : pc[p] # "idle" => req[p] \in Requests(p)
    /\ polls \in [Procs -> 0..MaxPolls]
    /\ res \in [Procs -> Byte \cup {Err}]
    /\ lock \in Procs \cup {None}

BufferTypes ==
    /\ gLen \in 0..U16Max /\ gWrite \in [0..1 -> Byte] /\ gRead \in Byte
    /\ compRead \in Nat /\ compStop \in Nat

ControllerTypes ==
    /\ mode \in {"idle", "tx", "rx"} /\ cnt \in 0..2
    /\ irq \subseteq Interrupts
    /\ tx \in Byte \cup {None} /\ rx \in Byte
    /\ due \in {"reg", "val"}
    /\ owner \in Procs \cup {None} /\ (mode # "idle" => owner \in Procs)

SensorTypes ==
    /\ ptr \in Byte /\ mem \in [Byte -> Byte]
    /\ did \in [Procs -> Outcomes]

(* Every variable has values of its C type; completions are counts.        *)
TypeOK == CallTypes /\ BufferTypes /\ ControllerTypes /\ SensorTypes

Waiting == {"drain", "stop", "rxdata", "rxstop"}

(* A transfer on the bus, or an interrupt of one, belongs to a process     *)
(* that holds lock_bus and is waiting for it: nobody else reprograms the   *)
(* controller meanwhile, and no interrupt reaches a later call.            *)
BusOwned ==
    (mode # "idle" \/ irq # {}) =>
        lock \in Procs /\ owner = lock /\ pc[lock] \in Waiting

(* Every path through the two functions, the timeouts of each half of a    *)
(* read included, gives lock_bus back exactly once, and nobody leaves it   *)
(* to another: between taking it and giving it back one process holds it,  *)
(* and outside nobody does.                                                *)
LockPaired == \A p \in Procs : pc[p] \in Locked <=> lock = p

(* The handler never takes g_len below 0, which as a u16 would be 65535,   *)
(* so that it never sends a byte from outside g_write.                     *)
LenInBounds == irq \cap {"RRDY", "XRDY"} # {} => gLen \in 1..2

(* A call starts with both completions empty: what it waits for is its     *)
(* own transfer, not a leftover of an earlier one.                         *)
CompletionsFresh ==
    \A p \in Procs : pc[p] \in {"count", "start"} => compRead = 0 /\ compStop = 0

(* cotti_i2c_write returned 0 only if the sensor stored the value of this  *)
(* very call in the register.                                              *)
WriteSucceeded ==
    \A p \in Procs :
        pc[p] = "idle" /\ req[p] \in Writes /\ res[p] # Err =>
            did[p] = <<req[p].reg, req[p].val>>

(* cotti_i2c_read returned a byte only if the sensor sent that byte from   *)
(* the register in this very call.                                         *)
ReadReturnsOwn ==
    \A p \in Procs :
        pc[p] = "idle" /\ req[p] \in Reads /\ res[p] # Err =>
            did[p] = <<req[p].reg, res[p]>>

(* The sensor's registers change only as the call that holds the lock      *)
(* asks: one register, the one named, to the value given.                  *)
RegisterWrites ==
    [][mem' # mem => /\ lock \in Procs /\ req[lock] \in Writes
                     /\ mem' = [mem EXCEPT ![req[lock].reg] = req[lock].val]]_vars

(* Every call returns, whatever the sensor does.                           *)
CallReturns == \A p \in Procs : pc[p] # "idle" ~> pc[p] = "idle"

-----------------------------------------------------------------------------
(* What the callers are promised: RegisterBus, with the same names.        *)
Active == {p \in Procs : pc[p] # "idle"}

Promise == INSTANCE RegisterBus WITH active <- Active

Implements == Promise!Spec
=============================================================================
