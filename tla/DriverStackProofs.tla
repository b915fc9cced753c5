-------------------------- MODULE DriverStackProofs --------------------------
(***************************************************************************)
(* The driver in one piece: the I2C master keeps its invariant below a     *)
(* sensor that measures and is unplugged, and the operations above it do   *)
(* what Bmp280 says.                                                       *)
(***************************************************************************)
EXTENDS CottiI2CProofs, DriverStack

-----------------------------------------------------------------------------
(* Registers, values and accesses                                          *)

LEMMA StackRegs ==
    /\ Sensor!Registers = Registers
    /\ Registers = {208, 244, 245, 250, 251, 252, 136, 137, 138, 139, 140, 141}
    /\ \A i \in 1..3 : TempRegs[i] \in Registers
    /\ \A i \in 1..6 : CalRegs[i] \in Registers
    /\ DOMAIN TempRegs = 1..3 /\ DOMAIN CalRegs = 1..6
    /\ Sensor!TempRegs = TempRegs /\ Sensor!CalRegs = CalRegs
    /\ Sensor!RangeOf(TempRegs) = {TempRegs[i] : i \in 1..3}
    /\ Sensor!RangeOf(CalRegs) = {CalRegs[i] : i \in 1..6}
<1>1. /\ DOMAIN TempRegs = 1..3
      /\ TempRegs[1] = 250 /\ TempRegs[2] = 251 /\ TempRegs[3] = 252
  BY DEF TempRegs
<1>2. /\ DOMAIN CalRegs = 1..6
      /\ CalRegs[1] = 137 /\ CalRegs[2] = 136 /\ CalRegs[3] = 139
      /\ CalRegs[4] = 138 /\ CalRegs[5] = 141 /\ CalRegs[6] = 140
  BY DEF CalRegs
<1>3. Sensor!TempRegs = TempRegs /\ Sensor!CalRegs = CalRegs
  BY DEF Sensor!TempRegs, Sensor!CalRegs, TempRegs, CalRegs
<1>4. /\ Sensor!RangeOf(TempRegs) = {TempRegs[i] : i \in 1..3}
      /\ Sensor!RangeOf(CalRegs) = {CalRegs[i] : i \in 1..6}
      /\ RangeOf(TempRegs) = {TempRegs[i] : i \in 1..3}
      /\ RangeOf(CalRegs) = {CalRegs[i] : i \in 1..6}
  BY <1>1, <1>2 DEF RangeOf, Sensor!RangeOf
<1>5. /\ {TempRegs[i] : i \in 1..3} = {250, 251, 252}
      /\ {CalRegs[i] : i \in 1..6} = {136, 137, 138, 139, 140, 141}
  BY <1>1, <1>2
<1>6. Registers = {208, 244, 245} \cup {TempRegs[i] : i \in 1..3}
                                  \cup {CalRegs[i] : i \in 1..6}
  BY <1>4 DEF Registers, BMP280_REG_ID, BMP280_REG_CTRL_MEAS, BMP280_REG_CONFIG
<1>7. Sensor!Registers = {208, 244, 245} \cup {TempRegs[i] : i \in 1..3}
                                         \cup {CalRegs[i] : i \in 1..6}
  BY <1>3, <1>4
     DEF Sensor!Registers, Sensor!BMP280_REG_ID, Sensor!BMP280_REG_CTRL_MEAS,
         Sensor!BMP280_REG_CONFIG
<1>8. Registers = {208, 244, 245, 250, 251, 252, 136, 137, 138, 139, 140, 141}
  BY <1>5, <1>6
<1>9. /\ \A i \in 1..3 : TempRegs[i] \in Registers
      /\ \A i \in 1..6 : CalRegs[i] \in Registers
  BY <1>6
<1> QED
  BY <1>1, <1>2, <1>3, <1>4, <1>6, <1>7, <1>8, <1>9

LEMMA StackValues ==
    \A n \in Int : /\ Sensor!U8(n) \in 0..255
                   /\ Sensor!FreqValue(n) \in 0..255
                   /\ Sensor!ModeValue(n) \in 0..255
<1>1. \A n \in Int : n % 256 \in 0..255
  OBVIOUS
<1>2. \A n \in Int : Sensor!OrBit5(n) \in Int /\ n * 32 \in Int
  BY DEF Sensor!OrBit5
<1> QED
  BY <1>1, <1>2 DEF Sensor!U8, Sensor!FreqValue, Sensor!ModeValue

(* A request on a register of the sensor.                                  *)
OnSensor(a) == a \in Writes \cup Reads /\ a.reg \in Registers

LEMMA StackReads ==
    ASSUME StackConstants, NEW r \in Registers
    PROVE  OnSensor(Sensor!Read(r)) /\ Sensor!Read(r) \in Reads
BY StackRegs DEF StackConstants, OnSensor, Sensor!Read, Reads

LEMMA StackWrites ==
    ASSUME StackConstants, NEW n \in Int
    PROVE  /\ OnSensor(Sensor!bmp280_set_frequency(n))
           /\ OnSensor(Sensor!bmp280_set_mode(n))
           /\ Sensor!bmp280_set_frequency(n) \in Writes
           /\ Sensor!bmp280_set_mode(n) \in Writes
BY StackRegs, StackValues
   DEF StackConstants, OnSensor, Writes, Sensor!bmp280_set_frequency,
       Sensor!bmp280_set_mode, Sensor!Write, Sensor!BMP280_REG_CONFIG,
       Sensor!BMP280_REG_CTRL_MEAS

(* The list of accesses of an operation: reads, if its process is a reader,*)
(* and writes of bytes, all of registers of the sensor.                    *)
LEMMA StackAccesses ==
    ASSUME StackConstants, NEW p \in Procs, NEW o,
           o \in Sensor!Operations(p) \/ o = Sensor!Operation("init", 0),
           o.name = "init" => p \in Readers
    PROVE  /\ Len(Sensor!Accesses(o)) \in Nat
           /\ \A k \in 1..Len(Sensor!Accesses(o)) :
                 /\ OnSensor(Sensor!Accesses(o)[k])
                 /\ Sensor!Accesses(o)[k] \in Requests(p)
<1> DEFINE Good(a) == OnSensor(a) /\ a \in Requests(p)
<1>1. /\ o.name \in {"freq", "mode", "open", "read", "init"}
      /\ o.arg \in Int
      /\ o.name \in {"open", "read", "init"} => p \in Readers
  BY DEF StackConstants, Sensor!Operations, Sensor!Operation
<1>2. \A n \in Int : /\ Good(Sensor!bmp280_set_frequency(n))
                     /\ Good(Sensor!bmp280_set_mode(n))
  BY StackWrites DEF Requests
<1>3. p \in Readers => \A r \in Registers : Good(Sensor!Read(r))
  BY StackReads DEF Requests
<1>4. 208 \in Registers
  BY StackRegs
<1> HIDE DEF Good
<1>5. CASE o.name = "open"
  <2>1. Sensor!Accesses(o) = <<Sensor!Read(208)>>
    BY <1>5 DEF Sensor!Accesses, Sensor!BMP280_REG_ID
  <2> QED
    BY <1>1, <1>3, <1>4, <1>5, <2>1 DEF Good
<1>6. CASE o.name = "read"
  <2>1. Sensor!Accesses(o) = [i \in 1..3 |-> Sensor!Read(TempRegs[i])]
    BY <1>6, StackRegs DEF Sensor!Accesses
  <2>2. \A i \in 1..3 : Good(Sensor!Read(TempRegs[i]))
    BY <1>1, <1>3, <1>6, StackRegs
  <2> QED
    BY <2>1, <2>2 DEF Good
<1>7. CASE o.name \in {"freq", "mode"}
  <2>1. \/ Sensor!Accesses(o) = <<Sensor!bmp280_set_frequency(o.arg)>>
        \/ Sensor!Accesses(o) = <<Sensor!bmp280_set_mode(o.arg)>>
    BY <1>7 DEF Sensor!Accesses
  <2> QED
    BY <1>1, <1>2, <2>1 DEF Good
<1>8. CASE o.name = "init"
  <2> DEFINE A == Sensor!InitAccesses
  <2>1. Sensor!Accesses(o) = A
    BY <1>8 DEF Sensor!Accesses
  <2>2. A[1] = Sensor!Read(208) /\ Good(A[1])
    BY <1>1, <1>3, <1>4, <1>8 DEF Sensor!InitAccesses, Sensor!BMP280_REG_ID
  <2>3. ASSUME NEW i \in 1..6 PROVE Good(A[i + 1])
    <3>1. A[i + 1] = Sensor!Read(CalRegs[i])
      BY StackRegs DEF Sensor!InitAccesses
    <3> QED
      BY <1>1, <1>3, <1>8, <3>1, StackRegs
  <2>4. Good(A[8]) /\ Good(A[9])
    BY <1>2 DEF Sensor!InitAccesses, Sensor!FREQ_1, Sensor!NORMAL
  <2>5. ASSUME NEW k \in 1..9 PROVE Good(A[k])
    <3>1. CASE k \in 2..7
      <4>1. PICK i \in 1..6 : k = i + 1
        BY <3>1
      <4> QED
        BY <2>3, <4>1
    <3> QED
      BY <2>2, <2>4, <3>1
  <2>6. Len(A) = 9
    <3>1. A \in [1..9 -> {A[k] : k \in 1..9}]
      BY DEF Sensor!InitAccesses
    <3> QED
      BY <3>1
  <2> QED
    BY <2>1, <2>5, <2>6 DEF Good
<1> QED
  BY <1>1, <1>5, <1>6, <1>7, <1>8

(* What an operation may ask for next.                                     *)
LEMMA StackNextAccess ==
    ASSUME StackConstants, OpsKnown, NEW p \in Procs, op[p] # None,
           ~Sensor!Complete(op[p], got[p])
    PROVE  /\ Len(got[p]) + 1 \in 1..Len(Sensor!Accesses(op[p]))
           /\ LET a == Sensor!Accesses(op[p])[Len(got[p]) + 1]
              IN  OnSensor(a) /\ a \in Requests(p)
<1>1. /\ Len(Sensor!Accesses(op[p])) \in Nat
      /\ \A k \in 1..Len(Sensor!Accesses(op[p])) :
            /\ OnSensor(Sensor!Accesses(op[p])[k])
            /\ Sensor!Accesses(op[p])[k] \in Requests(p)
  BY StackAccesses DEF OpsKnown
<1>2. Len(got[p]) \in Nat /\ Len(got[p]) <= Len(Sensor!Accesses(op[p]))
  BY DEF OpsKnown
<1>3. Len(got[p]) # Len(Sensor!Accesses(op[p]))
  BY DEF Sensor!Complete
<1> QED
  BY <1>1, <1>2, <1>3

-----------------------------------------------------------------------------
(* The I2C master below a sensor that changes by itself                    *)

LEMMA PowerOnIsBytes ==
    ASSUME StackConstants, NEW r \in Registers
    PROVE  Sensor!PowerOn[r] \in Byte
<1>1. CASE r \in Sensor!RangeOf(Sensor!CalRegs)
  <2>1. \E i \in 1..6 : Sensor!CalRegs[i] = r
    BY <1>1, StackRegs
  <2>2. Trim[CHOOSE i \in 1..6 : Sensor!CalRegs[i] = r] \in Byte
    BY <2>1 DEF StackConstants
  <2>3. r # 208 /\ r # 250 /\ r \in Sensor!Registers /\ Sensor!TempRegs[1] = 250
    BY <1>1, StackRegs DEF CalRegs, TempRegs
  <2>4. Sensor!PowerOn[r] = Trim[CHOOSE i \in 1..6 : Sensor!CalRegs[i] = r]
    BY <1>1, <2>3 DEF Sensor!PowerOn, Sensor!BMP280_REG_ID
  <2> QED
    BY <2>2, <2>4
<1>2. CASE r \notin Sensor!RangeOf(Sensor!CalRegs)
  BY <1>2, StackRegs DEF Sensor!PowerOn, Sensor!BMP280_ID, StackConstants
<1> QED
  BY <1>1, <1>2

LEMMA StackBytes ==
    ASSUME StackConstants
    PROVE  Registers \subseteq Byte
<1>1. Registers = {208, 244, 245, 250, 251, 252, 136, 137, 138, 139, 140, 141}
  BY StackRegs
<1>2. Byte = 0..255
  BY DEF StackConstants
<1> QED
  BY <1>1, <1>2

(* The two low bits of a byte are part of it.                              *)
LEMMA ModeBits == \A n \in 0..255 : \A d : d = n % 4 => n - d \in 0..255
OBVIOUS

LEMMA MeasuredIsBytes ==
    ASSUME StackConstants, mem \in [Byte -> Byte], NEW s \in Samples,
           NEW r \in Registers
    PROVE  Sensor!Measured(s)[r] \in Byte
<1>1. CASE r \in Sensor!RangeOf(Sensor!TempRegs)
  <2>1. \E i \in 1..3 : Sensor!TempRegs[i] = r
    BY <1>1, StackRegs
  <2>2. \A i \in 1..3 : s[i] \in Byte
    <3>1. s \in Byte \X Byte \X Byte
      BY DEF StackConstants
    <3>2. s[1] \in Byte /\ s[2] \in Byte /\ s[3] \in Byte
      BY <3>1
    <3> QED
      BY <3>2
  <2>3. s[CHOOSE i \in 1..3 : Sensor!TempRegs[i] = r] \in Byte
    BY <2>1, <2>2
  <2>4. Sensor!Measured(s)[r] = s[CHOOSE i \in 1..3 : Sensor!TempRegs[i] = r]
    BY <1>1, StackRegs DEF Sensor!Measured
  <2> QED
    BY <2>3, <2>4
<1>2. CASE r \notin Sensor!RangeOf(Sensor!TempRegs)
  <2>1. r \in Byte /\ mem[r] \in Byte
    BY StackBytes
  <2>3. r = 244 => Sensor!PowerMode = mem[r] % 4
    BY StackRegs DEF Sensor!PowerMode, Sensor!BMP280_REG_CTRL_MEAS
  <2>4. \/ Sensor!Measured(s)[r] = mem[r]
        \/ r = 244 /\ Sensor!Measured(s)[r] = mem[r] - Sensor!PowerMode
    <3>1. r \in Sensor!Registers /\ [q \in Registers |-> mem[q]][r] = mem[r]
      BY StackRegs
    <3> QED
      BY <1>2, <3>1 DEF Sensor!Measured, Sensor!BMP280_REG_CTRL_MEAS
  <2>5. mem[r] \in 0..255
    BY <2>1 DEF StackConstants
  <2>6. r = 244 => mem[r] - Sensor!PowerMode \in 0..255
    <3> SUFFICES ASSUME r = 244 PROVE mem[r] - Sensor!PowerMode \in 0..255
      OBVIOUS
    <3>1. Sensor!PowerMode = mem[r] % 4
      BY <2>3
    <3> QED
      BY ModeBits, <2>5, <3>1, Zenon
  <2>7. Byte = 0..255
    BY DEF StackConstants
  <2>8. CASE Sensor!Measured(s)[r] = mem[r]
    BY <2>1, <2>8
  <2>9. CASE r = 244 /\ Sensor!Measured(s)[r] = mem[r] - Sensor!PowerMode
    <3>1. mem[r] - Sensor!PowerMode \in Byte
      BY <2>6, <2>7, <2>9, Zenon
    <3> QED
      BY <2>9, <3>1, Zenon
  <2> QED
    BY <2>4, <2>8, <2>9
<1> QED
  BY <1>1, <1>2

(* No fact about the master is about what the registers hold.              *)
LEMMA MasterUntouched ==
    ASSUME IInv, MasterStays, mem' \in [Byte -> Byte]
    PROVE  IInv'
<1> USE DEF MasterStays, procVars, bufVars, compVars, hwVars
<1>1. TypeOK'
  BY DEF IInv, TypeOK, CallTypes, BufferTypes, ControllerTypes, SensorTypes
<1>2. ASSUME NEW p \in Procs PROVE At(p)'
  <2>1. (IsRead(p)' <=> IsRead(p)) /\ (Stored(p)' <=> Stored(p))
    BY DEF IsRead, Stored
  <2>2. Length(p)' = Length(p) /\ (Buffer(p)' <=> Buffer(p))
    BY <2>1 DEF Length, Buffer
  <2>3. Sending(p)' <=> Sending(p)
    BY <2>1, <2>2 DEF Sending
  <2>4. Receiving(p)' <=> Receiving(p)
    BY DEF Receiving
  <2> QED
    BY <2>1, <2>2, <2>3, <2>4 DEF At, IInv, InvBody
<1> QED
  BY <1>1, <1>2 DEF IInv, InvBody, LockPaired, AtRest, Owned, Empty, Quiet

LEMMA StackStarts ==
    ASSUME StackConstants, StackInit
    PROVE  StackInv
<1>1. mem \in [Byte -> Byte]
  <2>1. \A b \in Byte : (IF b \in Registers THEN Sensor!PowerOn[b] ELSE 0) \in Byte
    BY PowerOnIsBytes, BytesAssumption
  <2> QED
    BY <2>1 DEF StackInit
<1>2. IInv
  BY <1>1, InvInit DEF StackInit
<1>3. Active = {}
  BY DEF StackInit, MasterInit, Active
<1>4. /\ op = [p \in Procs |-> None] /\ got = [p \in Procs |-> <<>>]
  BY DEF StackInit, Sensor!Init
<1>5. got \in [Procs -> Seq(Int)]
  BY <1>4
<1> QED
  BY <1>2, <1>3, <1>4, <1>5 DEF StackInv, OpsKnown

(* A process that is in a call is in an operation.                         *)
LEMMA ActiveCalls ==
    ASSUME IInv, NEW p \in Procs
    PROVE  /\ p \in Active <=> pc[p] # "idle"
           /\ p \in Active => req[p] \in Requests(p)
           /\ res \in [Procs -> Int] /\ pc \in [Procs -> Labels]
<1>1. CallTypes
  BY DEF IInv, TypeOK
<1>2. \A b \in Byte : b \in Int
  BY BytesAssumption, Widths
<1>3. Err \in Int
  BY DEF Err
<1>4. res \in [Procs -> Int]
  BY <1>1, <1>2, <1>3 DEF CallTypes
<1> QED
  BY <1>1, <1>4, Arguments DEF Active, CallTypes

-----------------------------------------------------------------------------
(* OpsKnown, action by action                                              *)

(* A step that leaves the operations alone and lets no call begin.         *)
LEMMA OpsKept ==
    ASSUME OpsKnown, UNCHANGED <<op, got, req>>, Active' \subseteq Active
    PROVE  OpsKnown'
<1>1. \A p \in Procs : Sensor!Operations(p)' = Sensor!Operations(p)
  BY DEF Sensor!Operations
<1> QED
  BY <1>1 DEF OpsKnown, Sensor!Complete

(* An operation begins: its process was in none, so in no call.            *)
LEMMA OpsEntered ==
    ASSUME StackConstants, IInv, OpsKnown, UNCHANGED vars,
           NEW p \in Procs, NEW o,
           o \in Sensor!Operations(p) \/ (o = Sensor!Operation("init", 0) /\ p \in Readers),
           Sensor!Enter(p, o)
    PROVE  OpsKnown'
<1>1. /\ op[p] = None
      /\ op' = [op EXCEPT ![p] = o] /\ got' = [got EXCEPT ![p] = <<>>]
  BY DEF Sensor!Enter
<1>2. p \notin Active /\ Active' = Active /\ req' = req
  BY <1>1 DEF OpsKnown, vars, Active
<1>3. o.name = "init" => p \in Readers
  BY DEF Sensor!Operations, Sensor!Operation
<1>4. 0 <= Len(Sensor!Accesses(o))
  BY <1>3, StackAccesses
<1>5. DOMAIN op' = Procs /\ got' \in [Procs -> Seq(Int)]
  BY <1>1 DEF OpsKnown
<1>6. op'[p] = o /\ got'[p] = <<>>
  BY <1>1 DEF OpsKnown
<1>7. \A q \in Procs : q # p => op'[q] = op[q] /\ got'[q] = got[q]
  BY <1>1 DEF OpsKnown
<1>8. ASSUME NEW q \in Procs, op'[q] # None
      PROVE  /\ op'[q] \in Sensor!Operations(q) \/ op'[q] = Sensor!Operation("init", 0)
             /\ op'[q].name = "init" => q \in Readers
             /\ Len(got'[q]) <= Len(Sensor!Accesses(op'[q]))
  <2>1. CASE q = p
    BY <1>3, <1>4, <1>6, <2>1
  <2>2. CASE q # p
    BY <1>7, <1>8, <2>2 DEF OpsKnown
  <2> QED
    BY <2>1, <2>2
<1>9. ASSUME NEW q \in Active
      PROVE  /\ op'[q] # None /\ ~Sensor!Complete(op'[q], got'[q])
             /\ req'[q].reg \in Registers
  BY <1>2, <1>7 DEF OpsKnown, Active
<1> QED
  BY <1>2, <1>5, <1>8, <1>9 DEF OpsKnown

(* An operation ends when its process is in no call.                       *)
LEMMA OpsLeft ==
    ASSUME IInv, OpsKnown, UNCHANGED vars, NEW p \in Procs, Sensor!Leave(p)
    PROVE  OpsKnown'
<1>1. /\ op' = [op EXCEPT ![p] = None] /\ got' = [got EXCEPT ![p] = <<>>]
      /\ p \notin Active
  BY DEF Sensor!Leave
<1>2. Active' = Active /\ req' = req
  BY <1>1 DEF vars, Active
<1>3. DOMAIN op' = Procs /\ got' \in [Procs -> Seq(Int)] /\ op'[p] = None
  BY <1>1 DEF OpsKnown
<1>4. \A q \in Procs : q # p => op'[q] = op[q] /\ got'[q] = got[q]
  BY <1>1 DEF OpsKnown
<1>5. ASSUME NEW q \in Procs, op'[q] # None
      PROVE  /\ op'[q] \in Sensor!Operations(q) \/ op'[q] = Sensor!Operation("init", 0)
             /\ op'[q].name = "init" => q \in Readers
             /\ Len(got'[q]) <= Len(Sensor!Accesses(op'[q]))
  BY <1>3, <1>4, <1>5 DEF OpsKnown
<1>6. ASSUME NEW q \in Active
      PROVE  /\ op'[q] # None /\ ~Sensor!Complete(op'[q], got'[q])
             /\ req'[q].reg \in Registers
  BY <1>1, <1>2, <1>4 DEF OpsKnown, Active
<1> QED
  BY <1>2, <1>3, <1>5, <1>6 DEF OpsKnown

(* An operation calls the master for its next access.                      *)
LEMMA OpsAsked ==
    ASSUME StackConstants, IInv, OpsKnown, NEW p \in Procs, Access(p)
    PROVE  OpsKnown' /\ Call(p)
<1> DEFINE a == Sensor!Accesses(op[p])[Len(got[p]) + 1]
<1>1. /\ op[p] # None /\ ~Sensor!Complete(op[p], got[p])
      /\ CallWith(p, a) /\ op' = op /\ got' = got
  BY DEF Access, operVars
<1>2. OnSensor(a) /\ a \in Requests(p)
  BY <1>1, StackNextAccess
<1>3. Call(p)
  BY <1>1, <1>2 DEF Call
<1> HIDE DEF a
<1>4. /\ pc' = [pc EXCEPT ![p] = "poll"] /\ req' = [req EXCEPT ![p] = a]
      /\ pc \in [Procs -> Labels]
  BY <1>1, ActiveCalls DEF CallWith, Goto
<1>5. Active' = Active \cup {p}
  BY <1>4 DEF Active
<1>6. DOMAIN req = Procs
  BY DEF IInv, TypeOK, CallTypes
<1>7. /\ req'[p].reg \in Registers
      /\ \A q \in Procs : q # p => req'[q] = req[q]
  BY <1>2, <1>4, <1>6 DEF OnSensor
<1>8. ASSUME NEW q \in Procs, op'[q] # None
      PROVE  /\ op'[q] \in Sensor!Operations(q) \/ op'[q] = Sensor!Operation("init", 0)
             /\ op'[q].name = "init" => q \in Readers
             /\ Len(got'[q]) <= Len(Sensor!Accesses(op'[q]))
  BY <1>1, <1>8 DEF OpsKnown
<1>9. ASSUME NEW q \in Active'
      PROVE  /\ op'[q] # None /\ ~Sensor!Complete(op'[q], got'[q])
             /\ req'[q].reg \in Registers
  BY <1>1, <1>5, <1>7 DEF OpsKnown, Active
<1> QED
  BY <1>1, <1>3, <1>8, <1>9 DEF OpsKnown

(* A step of a call goes on with it or returns from it.                    *)
LEMMA CallStep ==
    ASSUME IInv, NEW p \in Procs, Proceed(p) \/ DrainSignal(p)
    PROVE  /\ pc[p] # "idle" /\ req' = req
           /\ \A q \in Procs : q # p => pc'[q] = pc[q]
<1>1. pc[p] # "idle"
  BY DEF Proceed, DrainSignal, PollFree, PollAgain, PollGiveUp, Lock, Count,
     Start, Drain, DrainTimeout, Stop, StopTimeout, RxCount, RxStart, RxData,
     RxStop, RxTimeout, Fail, RxFail, FinishWrite, FinishRead, Return, Goto, Moves
<1> QED
  BY <1>1, ProcessStep DEF IInv

(* A call goes on; when it returns, its result is one more of the          *)
(* operation's, which was not complete.                                    *)
LEMMA OpsWithin ==
    ASSUME StackConstants, IInv, IInv', OpsKnown, NEW p \in Procs, Within(p)
    PROVE  OpsKnown'
<1>1. /\ op' = op
      /\ got' = IF pc'[p] = "idle" THEN [got EXCEPT ![p] = Append(@, res'[p])] ELSE got
      /\ Proceed(p) \/ DrainSignal(p)
  BY DEF Within
<1>2. /\ p \in Active /\ req' = req
      /\ \A q \in Procs : q # p => pc'[q] = pc[q]
  BY <1>1, CallStep DEF Active
<1>3. /\ op[p] # None /\ ~Sensor!Complete(op[p], got[p])
      /\ got[p] \in Seq(Int) /\ DOMAIN got = Procs
  BY <1>2 DEF OpsKnown
<1>4. Len(got[p]) + 1 <= Len(Sensor!Accesses(op[p]))
  BY <1>3, StackNextAccess
<1>5. res'[p] \in Int
  <2>1. \A b \in Byte : b \in Int
    BY BytesAssumption, Widths
  <2> QED
    BY <2>1 DEF IInv, TypeOK, CallTypes, Err
<1>6. CASE pc'[p] = "idle"
  <2>1. got' = [got EXCEPT ![p] = Append(@, res'[p])]
    BY <1>1, <1>6
  <2>2. /\ got'[p] = Append(got[p], res'[p]) /\ got' \in [Procs -> Seq(Int)]
        /\ \A q \in Procs : q # p => got'[q] = got[q]
    BY <1>3, <1>5, <2>1 DEF OpsKnown
  <2>3. Len(got'[p]) = Len(got[p]) + 1
    BY <1>3, <1>5, <2>2
  <2>4. Active' \subseteq Active \ {p}
    BY <1>2, <1>6 DEF Active
  <2>5. ASSUME NEW q \in Procs, op'[q] # None
        PROVE  /\ op'[q] \in Sensor!Operations(q) \/ op'[q] = Sensor!Operation("init", 0)
               /\ op'[q].name = "init" => q \in Readers
               /\ Len(got'[q]) <= Len(Sensor!Accesses(op'[q]))
    BY <1>1, <1>4, <2>2, <2>3, <2>5 DEF OpsKnown
  <2>6. ASSUME NEW q \in Active'
        PROVE  /\ op'[q] # None /\ ~Sensor!Complete(op'[q], got'[q])
               /\ req'[q].reg \in Registers
    BY <1>1, <1>2, <2>2, <2>4 DEF OpsKnown, Active
  <2> QED
    BY <1>1, <2>2, <2>5, <2>6 DEF OpsKnown
<1>7. CASE pc'[p] # "idle"
  <2>1. got' = got
    BY <1>1, <1>7
  <2>2. Active' \subseteq Active
    BY <1>2 DEF Active
  <2> QED
    BY <1>1, <1>2, <2>1, <2>2, OpsKept
<1> QED
  BY <1>6, <1>7

-----------------------------------------------------------------------------
(* The master of the whole driver takes a step of CottiI2C, or none at     *)
(* all, or only the registers change.                                      *)

LEMMA MasterStep ==
    ASSUME StackConstants, StackInv, StackNext
    PROVE  \/ [Next]_vars
           \/ MasterStays /\ mem' \in [Byte -> Byte]
<1>1. IInv /\ OpsKnown /\ mem \in [Byte -> Byte]
  BY DEF StackInv, IInv, TypeOK, SensorTypes
<1>2. ASSUME NEW m, \A r \in Registers : m[r] \in Byte, PutRegisters(m)
      PROVE  mem' \in [Byte -> Byte]
  BY <1>1, <1>2 DEF PutRegisters
<1>3. CASE Operate \/ Plug
  BY <1>3 DEF Operate, Plug
<1>4. ASSUME NEW p \in Procs, Access(p) PROVE Next
  BY <1>1, <1>4, OpsAsked DEF Next
<1>5. ASSUME NEW p \in Procs, Within(p) PROVE Next
  BY <1>5 DEF Within, Next
<1>6. CASE Controller
  BY <1>6 DEF Controller, Next, Transfer
<1>7. CASE Measure
  BY <1>1, <1>2, <1>7, MeasuredIsBytes DEF Measure
<1>8. CASE Unplug
  BY <1>2, <1>8, PowerOnIsBytes DEF Unplug
<1> QED
  BY <1>3, <1>4, <1>5, <1>6, <1>7, <1>8 DEF StackNext

LEMMA StackStep ==
    ASSUME StackConstants, ~LateAnswers, StackInv, [StackNext]_stackVars
    PROVE  StackInv'
<1>1. IInv /\ OpsKnown
  BY DEF StackInv
<1>2. IInv'
  <2>1. CASE StackNext
    BY <1>1, <2>1, MasterStep, InvNext, MasterUntouched
  <2>2. CASE UNCHANGED stackVars
    BY <1>1, <2>2, InvNext DEF stackVars
  <2> QED
    BY <2>1, <2>2
<1>3. CASE Operate
  <2>1. UNCHANGED vars
    BY <1>3 DEF Operate
  <2>2. ASSUME NEW p \in Readers, Sensor!Probe(p) PROVE OpsKnown'
    BY <1>1, <2>1, <2>2, OpsEntered, ReadersAreProcs DEF Sensor!Probe
  <2>3. ASSUME NEW p \in Procs, Sensor!Call(p) PROVE OpsKnown'
    BY <1>1, <2>1, <2>3, OpsEntered DEF Sensor!Call
  <2>4. ASSUME NEW p \in Procs, Sensor!SetUnit(p) PROVE OpsKnown'
    BY <1>1, <2>1, <2>4, OpsKept DEF Sensor!SetUnit, vars, Active
  <2>5. ASSUME NEW p \in Procs, Sensor!Leave(p) PROVE OpsKnown'
    BY <1>1, <2>1, <2>5, OpsLeft
  <2> QED
    BY <1>2, <1>3, <2>2, <2>3, <2>4, <2>5 DEF Operate, StackInv
<1>4. ASSUME NEW p \in Procs, Access(p) \/ Within(p) PROVE OpsKnown'
  BY <1>1, <1>2, <1>4, OpsAsked, OpsWithin
<1>5. CASE Controller \/ Plug \/ UNCHANGED stackVars
  <2>1. UNCHANGED <<op, got, req, pc>>
    BY <1>5 DEF Controller, Plug, Sensor!Plug, stackVars, operVars, vars, Isr,
       HwXrdy, HwSend, HwRecv, HwStop, HwAbort, procVars
  <2> QED
    BY <1>1, <1>2, <2>1, OpsKept DEF Active, StackInv
<1>6. CASE Measure \/ Unplug
  <2>1. UNCHANGED <<op, got, req, pc>>
    BY <1>6 DEF Measure, Sensor!Measure, Unplug, Sensor!Unplug, MasterStays, procVars
  <2> QED
    BY <1>1, <1>2, <2>1, OpsKept DEF Active, StackInv
<1> QED
  BY <1>2, <1>3, <1>4, <1>5, <1>6 DEF StackNext, StackInv

(* The master keeps its invariant below the operations of the driver and a *)
(* sensor that measures and is unplugged, and no operation makes an access *)
(* beyond its list.                                                        *)
THEOREM StackKeepsInvariant ==
    ASSUME StackConstants, ~LateAnswers
    PROVE  StackSpec => []StackInv
<1>1. StackInit => StackInv
  BY StackStarts
<1>2. StackInv /\ [StackNext]_stackVars => StackInv'
  BY StackStep
<1> QED
  BY <1>1, <1>2, PTL DEF StackSpec

(* In the whole driver, too, a transfer belongs to the holder of lock_bus, *)
(* g_len is not taken below 0, no call starts with an old completion, a    *)
(* write that returns 0 was stored, and a read returns its own byte.       *)
THEOREM StackKeepsBus ==
    ASSUME StackConstants, ~LateAnswers
    PROVE  StackSpec => [](/\ LockPaired /\ BusOwned /\ LenInBounds
                           /\ CompletionsFresh /\ WriteSucceeded
                           /\ OneReader => ReadReturnsOwn)
<1>1. StackInv => /\ LockPaired /\ BusOwned /\ LenInBounds
                  /\ CompletionsFresh /\ WriteSucceeded
                  /\ OneReader => ReadReturnsOwn
  BY InvPromises DEF StackInv, IInv, InvBody
<1> QED
  BY <1>1, StackKeepsInvariant, PTL

-----------------------------------------------------------------------------
(* The operations see the sensor of Bmp280                                 *)

(* What the operations see of the master.                                  *)
View == [r \in Registers |-> mem[r]]

LEMMA SensorStutter ==
    ASSUME UNCHANGED <<mem, Active, req, did, res, operVars>>
    PROVE  UNCHANGED Sensor!vars
BY DEF Sensor!vars, operVars

LEMMA SensorAsks ==
    ASSUME StackConstants, StackInv, NEW p \in Procs, Access(p)
    PROVE  Sensor!Ask(p)
<1> DEFINE a == Sensor!Accesses(op[p])[Len(got[p]) + 1]
<1>1. /\ op[p] # None /\ ~Sensor!Complete(op[p], got[p])
      /\ CallWith(p, a) /\ UNCHANGED operVars
  BY DEF Access
<1>2. /\ pc[p] = "idle" /\ pc' = [pc EXCEPT ![p] = "poll"]
      /\ pc \in [Procs -> Labels]
  BY <1>1, ActiveCalls DEF CallWith, Goto, StackInv
<1>3. Active' = Active \cup {p} /\ p \notin Active
  BY <1>2 DEF Active
<1>4. /\ req' = [req EXCEPT ![p] = a] /\ did' = [did EXCEPT ![p] = None]
      /\ res' = [res EXCEPT ![p] = Err] /\ mem' = mem
  BY <1>1 DEF CallWith, sensorVars
<1>5. Sensor!Bus!Ask(p, a)
  BY <1>3, <1>4 DEF Sensor!Bus!Ask, Err, Sensor!Bus!Err
<1> QED
  BY <1>1, <1>5 DEF Sensor!Ask, operVars

(* A call that returns is answered, with its result; before that the       *)
(* operation sees nothing of its steps.                                    *)
LEMMA SensorAnswers ==
    ASSUME StackConstants, OneReader, StackInv, NEW p \in Procs, Within(p)
    PROVE  Sensor!Answer(p) \/ UNCHANGED Sensor!vars
<1>1. IInv /\ p \in Active /\ pc' \in [Procs -> Labels]
  <2>1. IInv /\ (Proceed(p) \/ DrainSignal(p))
    BY DEF StackInv, Within
  <2>2. TypeOK'
    BY <2>1, TypeNext DEF IInv, Next
  <2> QED
    BY <2>1, <2>2, CallStep DEF Active, TypeOK, CallTypes
<1>2. /\ UNCHANGED <<connected, driver, cal, unit, op, last, seen>>
      /\ got' = IF pc'[p] = "idle" THEN [got EXCEPT ![p] = Append(@, res'[p])] ELSE got
  BY DEF Within
<1>3. CASE \/ PollGiveUp(p) \/ Fail(p) \/ RxFail(p)
           \/ FinishWrite(p) \/ Return(p)
  <2>1. Promise!Refuse(p) \/ Promise!Succeed(p)
    BY <1>1, <1>3, PromiseReturn
  <2>2. Active' = Active \ {p}
    BY <2>1 DEF Promise!Refuse, Promise!Succeed
  <2>3. got' = [got EXCEPT ![p] = Append(@, res'[p])]
    BY <1>1, <1>2, <2>2 DEF Active
  <2>4. Promise!Reads = Sensor!Bus!Reads
    BY DEF StackConstants, Promise!Reads, Sensor!Bus!Reads, Sensor!Bytes
  <2>5. Sensor!Bus!Refuse(p) \/ Sensor!Bus!Succeed(p)
    BY <2>1, <2>4
       DEF Promise!Refuse, Promise!Succeed, Sensor!Bus!Refuse, Sensor!Bus!Succeed,
           Promise!Err, Sensor!Bus!Err
  <2> QED
    BY <1>2, <2>3, <2>5 DEF Sensor!Answer
<1>4. CASE ~(\/ PollGiveUp(p) \/ Fail(p) \/ RxFail(p)
             \/ FinishWrite(p) \/ Return(p))
  <2>1. UNCHANGED Promise!vars
    BY <1>1, <1>4, PromiseInside DEF Within, Proceed
  <2>2. UNCHANGED <<mem, Active, req, did, res>>
    BY <2>1 DEF Promise!vars
  <2>3. got' = got
    BY <1>1, <1>2, <2>2 DEF Active
  <2> QED
    BY <1>2, <2>2, <2>3, SensorStutter DEF operVars
<1> QED
  BY <1>3, <1>4

(* The controller performs an access on a sensor that is plugged in, or    *)
(* does what nobody sees.                                                  *)
LEMMA SensorPerforms ==
    ASSUME StackConstants, StackInv, Controller
    PROVE  \/ \E p \in Procs : Sensor!Perform(p)
           \/ UNCHANGED Sensor!vars
<1>1. UNCHANGED operVars /\ IInv /\ OpsKnown
  BY DEF Controller, StackInv
<1>2. CASE UNCHANGED Promise!vars
  BY <1>1, <1>2, SensorStutter DEF Promise!vars
<1>3. ASSUME NEW p \in Procs, Promise!PerformWrite(p) \/ Promise!PerformRead(p)
      PROVE  Sensor!Perform(p)
  <2>1. connected
    <3>1. did' # did
      <4>1. /\ req[p].reg \in Byte /\ mem \in [Byte -> Byte]
            /\ DOMAIN did = Procs /\ did[p] = None
        BY <1>1, <1>3 DEF Promise!PerformWrite, Promise!PerformRead,
           Promise!Writes, Promise!Reads, IInv, TypeOK, SensorTypes
      <4>2. \E v \in Byte : did' = [did EXCEPT ![p] = <<req[p].reg, v>>]
        BY <1>3, <4>1 DEF Promise!PerformWrite, Promise!PerformRead,
           Promise!Writes
      <4>3. \E v \in Byte : did'[p] = <<req[p].reg, v>>
        BY <4>1, <4>2
      <4> QED
        BY <4>1, <4>3, NoneIsNoValue
    <3> QED
      BY <3>1 DEF Controller, Isr, HwXrdy, HwStop, HwAbort, sensorVars
  <2>2. p \in Active /\ req[p].reg \in Registers /\ did[p] = None
    BY <1>1, <1>3 DEF Promise!PerformWrite, Promise!PerformRead, OpsKnown
  <2>3. /\ Promise!Reads = Sensor!Bus!Reads
        /\ Promise!Writes = Sensor!Bus!Writes
    BY DEF StackConstants, Promise!Reads, Sensor!Bus!Reads, Promise!Writes,
       Sensor!Bus!Writes, Sensor!Bytes
  <2>4. /\ Sensor!Registers = Registers
        /\ Registers \subseteq Byte /\ mem \in [Byte -> Byte]
    BY <1>1, StackRegs, StackBytes DEF IInv, TypeOK, SensorTypes
  <2>5. CASE Promise!PerformWrite(p)
    <3>1. mem' = [mem EXCEPT ![req[p].reg] = req[p].val]
      BY <2>5 DEF Promise!PerformWrite
    <3>2. View' = [View EXCEPT ![req[p].reg] = req[p].val]
      BY <2>2, <2>4, <3>1 DEF View
    <3>3. Sensor!Bus!PerformWrite(p)
      BY <2>3, <2>5, <3>2 DEF View, Promise!PerformWrite, Sensor!Bus!PerformWrite
    <3> QED
      BY <1>1, <2>1, <3>3 DEF Sensor!Perform, operVars
  <2>6. CASE Promise!PerformRead(p)
    <3>1. View[req[p].reg] = mem[req[p].reg]
      BY <2>2 DEF View
    <3>2. Sensor!Bus!PerformRead(p)
      BY <2>3, <2>6, <3>1 DEF View, Promise!PerformRead, Sensor!Bus!PerformRead
    <3> QED
      BY <1>1, <2>1, <3>2 DEF Sensor!Perform, operVars
  <2> QED
    BY <1>3, <2>5, <2>6
<1>4. Isr \/ Transfer \/ HwAbort
  BY DEF Controller, Transfer
<1> QED
  BY <1>1, <1>2, <1>3, <1>4, PromiseHardware

(* The driver, with all steps of its accesses, does what Bmp280 says of it,*)
(* when no answer is late and only one process reads: what is proved of    *)
(* Bmp280 holds for the driver on its own I2C master.                      *)
THEOREM StackImplementsSensor ==
    ASSUME StackConstants, ~LateAnswers, OneReader
    PROVE  StackSpec => ImplementsSensor
<1>1. StackInit => Sensor!Init
  BY DEF StackInit
<1>2. ASSUME StackInv, [StackNext]_stackVars
      PROVE  [Sensor!Next]_(Sensor!vars)
  <2>1. CASE Operate
    BY <2>1 DEF Operate, Sensor!Next, Sensor!Step
  <2>2. ASSUME NEW p \in Procs, Access(p) PROVE Sensor!Next
    BY <1>2, <2>2, SensorAsks DEF Sensor!Next, Sensor!Step
  <2>3. ASSUME NEW p \in Procs, Within(p)
        PROVE  Sensor!Next \/ UNCHANGED Sensor!vars
    BY <1>2, <2>3, SensorAnswers DEF Sensor!Next, Sensor!Step
  <2>4. CASE Controller
    BY <1>2, <2>4, SensorPerforms DEF Sensor!Next, Sensor!Step
  <2>5. CASE Measure \/ Unplug \/ Plug
    BY <2>5 DEF Measure, Unplug, Plug, Sensor!Next
  <2>6. CASE UNCHANGED stackVars
    BY <2>6, SensorStutter DEF stackVars, operVars, vars, Active
  <2> QED
    BY <1>2, <2>1, <2>2, <2>3, <2>4, <2>5, <2>6 DEF StackNext
<1>3. StackInv /\ [StackNext]_stackVars => [Sensor!Next]_(Sensor!vars)
  BY <1>2
<1> QED
  BY <1>1, <1>3, StackKeepsInvariant, PTL DEF StackSpec, ImplementsSensor, Sensor!Spec
=============================================================================
