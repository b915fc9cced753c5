----------------------------- MODULE DriverStack -----------------------------
(***************************************************************************)
(* The driver in one piece: the operations of Bmp280 on the I2C master of  *)
(* CottiI2C, in place of the bus that RegisterBus promises.                *)
(*                                                                         *)
(* Each access of an operation is a call of cotti_i2c_read or              *)
(* cotti_i2c_write, with all its steps, interrupts, signals and aborts;    *)
(* the sensor on the other end of the wires goes on measuring meanwhile    *)
(* and may be unplugged in the middle of a transfer.                       *)
(***************************************************************************)
EXTENDS CottiI2CInv, Bmp280Registers, Sequences

CONSTANTS
    Ints, Units, Samples, Trim, Unplugs    \* see Bmp280

VARIABLES
    connected, driver, cal, unit, op, got, last, seen   \* see Bmp280

operVars  == <<connected, driver, cal, unit, op, got, last, seen>>
stackVars == <<vars, operVars>>

(* What the operations see of the I2C master: which processes are in a     *)
(* call, and the registers of the sensor.  An access may fail at any time, *)
(* since a transfer may be aborted.                                        *)
Sensor == INSTANCE Bmp280 WITH
    active <- Active,
    mem    <- [r \in Registers |-> mem[r]],
    Faults <- TRUE

-----------------------------------------------------------------------------
(* The registers of which the driver knows nothing stay as they are.       *)
PutRegisters(m) == mem' = [b \in Byte |-> IF b \in Registers THEN m[b] ELSE mem[b]]

StackInit ==
    /\ MasterInit
    /\ mem = [b \in Byte |-> IF b \in Registers THEN Sensor!PowerOn[b] ELSE 0]
    /\ Sensor!Init

(* What an operation does between its accesses.                            *)
Operate ==
    /\ UNCHANGED vars
    /\ \/ \E p \in Readers : Sensor!Probe(p)
       \/ \E p \in Procs : Sensor!Call(p) \/ Sensor!SetUnit(p) \/ Sensor!Leave(p)

(* It calls the I2C master for its next access.                            *)
Access(p) ==
    /\ op[p] # None
    /\ ~Sensor!Complete(op[p], got[p])
    /\ CallWith(p, Sensor!Accesses(op[p])[Len(got[p]) + 1])
    /\ UNCHANGED operVars

(* The call goes on; when it returns, the operation takes its result.      *)
Within(p) ==
    /\ Proceed(p) \/ DrainSignal(p)
    /\ got' = IF pc'[p] = "idle" THEN [got EXCEPT ![p] = Append(@, res'[p])] ELSE got
    /\ UNCHANGED <<connected, driver, cal, unit, op, last, seen>>

(* Only a sensor that is plugged in takes or sends a byte.                 *)
Controller ==
    /\ \/ Isr \/ HwXrdy \/ HwStop \/ HwAbort
       \/ connected /\ (HwSend \/ HwRecv)
    /\ UNCHANGED operVars

MasterStays == UNCHANGED <<procVars, lock, bufVars, compVars, hwVars, ptr, did>>

Measure ==
    /\ MasterStays
    /\ \E s \in Samples : PutRegisters(Sensor!Measured(s))
    /\ Sensor!Measure

Unplug == MasterStays /\ PutRegisters(Sensor!PowerOn) /\ Sensor!Unplug

Plug == UNCHANGED vars /\ Sensor!Plug

StackNext ==
    \/ Operate
    \/ \E p \in Procs : Access(p) \/ Within(p)
    \/ Controller
    \/ Measure \/ Unplug \/ Plug

StackSpec == StackInit /\ [][StackNext]_stackVars

-----------------------------------------------------------------------------
(* A call that is on the bus is for the next access of its operation, on a *)
(* register of the sensor.                                                 *)
OpsKnown ==
    /\ DOMAIN op = Procs /\ got \in [Procs -> Seq(Int)]
    /\ \A p \in Procs : op[p] # None =>
         /\ op[p] \in Sensor!Operations(p) \/ op[p] = Sensor!Operation("init", 0)
         /\ op[p].name = "init" => p \in Readers
         /\ Len(got[p]) <= Len(Sensor!Accesses(op[p]))
    /\ \A p \in Active :
         /\ op[p] # None /\ ~Sensor!Complete(op[p], got[p])
         /\ req[p].reg \in Registers

StackInv == IInv /\ OpsKnown

(* Bytes on the wires, and what bmp280.h and the sensor make of them.      *)
StackConstants ==
    /\ Byte = 0..255
    /\ Ints \subseteq Int
    /\ Samples \subseteq Byte \X Byte \X Byte
    /\ Trim \in [1..6 -> Byte]

(* The driver in one piece does what Bmp280 does on a bus that keeps its   *)
(* promise.                                                                *)
ImplementsSensor == Sensor!Spec
=============================================================================
