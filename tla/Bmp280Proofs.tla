---------------------------- MODULE Bmp280Proofs ----------------------------
(***************************************************************************)
(* The operations of the sensor, for any number of processes, any integers *)
(* passed to ioctl, any samples and any calibration, with accesses that    *)
(* fail and a sensor that is unplugged.                                    *)
(*                                                                         *)
(* The bus knows of registers and bytes only.  The invariant ties the      *)
(* access that is on it to the operation that asked for it (Asked), what   *)
(* it did to what the operation is told (Told), and the bytes of a reading *)
(* to the samples of that time (Sampled, Shown).                           *)
(***************************************************************************)
EXTENDS Bmp280, SequenceTheorems, TLAPS

Names == {"freq", "mode", "open", "read", "init"}

Typed ==
    /\ mem \in [Registers -> Bytes]
    /\ connected \in BOOLEAN /\ unit \in Units \cup {"CELSIUS"}
    /\ driver \in {"off", "probing", "up", "failed"}
    /\ cal \in [1..3 -> Int]
    /\ DOMAIN op = Procs /\ DOMAIN req = Procs /\ DOMAIN did = Procs
    /\ DOMAIN res = Procs /\ DOMAIN last = Procs /\ DOMAIN seen = Procs
    /\ \A p \in Procs :
         op[p] # None => op[p] \in Operations(p) \cup {Operation("init", 0)}

BytesOrErr == Bytes \cup {Err}

(* What the operations have been told so far.                              *)
GotBytes ==
    /\ got \in [Procs -> Seq(BytesOrErr)]
    /\ \A p \in Procs : op[p] # None =>
         /\ Len(got[p]) <= Len(Accesses(op[p]))
         /\ op[p].name = "read" => \A i \in 1..Len(got[p]) - 1 : got[p][i] # Err

(* An access on the bus is the next one of its operation.                  *)
Asked ==
    /\ active \subseteq Procs
    /\ \A p \in active :
         /\ op[p] # None /\ ~Complete(op[p], got[p])
         /\ req[p] = Accesses(op[p])[Len(got[p]) + 1]

(* What access a did: it wrote the value, or read a byte.                  *)
Did(a, d) ==
    /\ d[1] = a.reg /\ d[2] \in Bytes /\ d = <<d[1], d[2]>>
    /\ a.op = "write" => d[2] = a.val

Performed == \A p \in active : did[p] # None => Did(req[p], did[p])

(* A process that was told of a success has had its last access done, and  *)
(* was told what was read.                                                 *)
Told ==
    \A p \in Procs \ active :
        op[p] # None /\ got[p] # <<>> /\ got[p][Len(got[p])] # Err =>
            LET a == Accesses(op[p])[Len(got[p])]
            IN  Did(a, did[p]) /\ (a.op = "read" => did[p][2] = got[p][Len(got[p])])

(* While a read is going on, the registers show a sample that counts.      *)
Sampled ==
    \A p \in Procs : op[p] # None /\ op[p].name = "read" =>
        \E s \in seen[p] : \A i \in 1..3 : s[i] = mem[TempRegs[i]]

Shown ==
    \A p \in Procs : op[p] # None /\ op[p].name = "read" =>
        /\ \A i \in 1..Len(got[p]) :
             got[p][i] # Err => \E s \in seen[p] : s[i] = got[p][i]
        /\ p \in active /\ did[p] # None =>
             \E s \in seen[p] : s[Len(got[p]) + 1] = did[p][2]

BmpInv ==
    /\ Typed /\ GotBytes /\ Asked /\ Performed /\ Told
    /\ Sampled /\ Shown /\ ReadingSeen /\ OpenChecked /\ IoctlDone

-----------------------------------------------------------------------------
(* Registers and values                                                    *)

LEMMA Regs ==
    /\ TempRegs[1] = 250 /\ TempRegs[2] = 251 /\ TempRegs[3] = 252
    /\ DOMAIN TempRegs = 1..3 /\ RangeOf(TempRegs) = {250, 251, 252}
    /\ CalRegs[1] = 137 /\ CalRegs[2] = 136 /\ CalRegs[3] = 139
    /\ CalRegs[4] = 138 /\ CalRegs[5] = 141 /\ CalRegs[6] = 140
    /\ DOMAIN CalRegs = 1..6 /\ RangeOf(CalRegs) = {136, 137, 138, 139, 140, 141}
    /\ Registers \subseteq Bytes
<1>1. DOMAIN TempRegs = 1..3 /\ DOMAIN CalRegs = 1..6
  BY DEF TempRegs, CalRegs
<1>2. TempRegs[1] = 250 /\ TempRegs[2] = 251 /\ TempRegs[3] = 252
  BY DEF TempRegs
<1>3. /\ CalRegs[1] = 137 /\ CalRegs[2] = 136 /\ CalRegs[3] = 139
      /\ CalRegs[4] = 138 /\ CalRegs[5] = 141 /\ CalRegs[6] = 140
  BY DEF CalRegs
<1>4. RangeOf(TempRegs) = {250, 251, 252}
  BY <1>1, <1>2 DEF RangeOf
<1>5. RangeOf(CalRegs) = {136, 137, 138, 139, 140, 141}
  BY <1>1, <1>3 DEF RangeOf
<1>6. Registers \subseteq Bytes
  BY <1>4, <1>5 DEF Registers, Bytes, BMP280_REG_ID, BMP280_REG_CTRL_MEAS, BMP280_REG_CONFIG
<1> QED
  BY <1>1, <1>2, <1>3, <1>4, <1>5, <1>6

LEMMA ValuesAreBytes ==
    /\ \A n \in Int : U8(n) \in Bytes /\ FreqValue(n) \in Bytes /\ ModeValue(n) \in Bytes
    /\ \A b \in Bytes : U8(b) = b
    /\ U8(Err) = 255
<1>1. \A n \in Int : U8(n) \in Bytes
  BY DEF U8, Bytes
<1>2. \A n \in Int : OrBit5(n) \in Int /\ n * 32 \in Int
  BY DEF OrBit5
<1>3. \A n \in Int : FreqValue(n) \in Bytes
  BY DEF FreqValue, U8, Bytes
<1>4. \A n \in Int : ModeValue(n) \in Bytes
  BY <1>1, <1>2 DEF ModeValue
<1>5. \A b \in Bytes : U8(b) = b
  BY DEF U8, Bytes
<1>6. U8(Err) = 255
  <2>1. \A n \in Int : n + 1 = 0 => n % 256 = 255
    OBVIOUS
  <2>2. Err \in Int /\ Err + 1 = 0
    BY DEF Err
  <2> QED
    BY <2>1, <2>2 DEF U8
<1> QED
  BY <1>1, <1>3, <1>4, <1>5, <1>6

(* Only the reading of the right byte passes for a BMP280.                 *)
LEMMA ConnectedIsId ==
    ASSUME NEW r \in BytesOrErr, bmp280_is_connected(r)
    PROVE  r = BMP280_ID
BY ValuesAreBytes DEF bmp280_is_connected, BytesOrErr, BMP280_ID

LEMMA PowerOnBytes == PowerOn \in [Registers -> Bytes]
<1> SUFFICES ASSUME NEW r \in Registers
             PROVE  PowerOn[r] \in Bytes
  BY DEF PowerOn
<1>1. CASE r \in RangeOf(CalRegs)
  <2>1. \E i \in 1..6 : CalRegs[i] = r
    BY <1>1, Regs DEF RangeOf
  <2>2. Trim[CHOOSE i \in 1..6 : CalRegs[i] = r] \in Bytes
    BY <2>1, TrimIsBytes
  <2> QED
    BY <1>1, <2>2, Regs DEF PowerOn, BMP280_REG_ID, BMP280_ID, Bytes
<1>2. CASE r \notin RangeOf(CalRegs)
  BY <1>2 DEF PowerOn, BMP280_ID, Bytes
<1> QED
  BY <1>1, <1>2

(* The list of accesses of an operation.                                   *)
ReadOf(a) ==
    a.op = "read" /\ a.reg \in Registers /\ a \in Bus!Reads

WriteOf(a) ==
    /\ a.op = "write" /\ a.reg \in {BMP280_REG_CONFIG, BMP280_REG_CTRL_MEAS}
    /\ a \in Bus!Writes

LEMMA ReadIsRead == ASSUME NEW r \in Registers PROVE ReadOf(Read(r)) /\ Read(r).reg = r
BY Regs DEF ReadOf, Read, Bus!Reads

LEMMA WriteIsWrite ==
    ASSUME NEW r \in {BMP280_REG_CONFIG, BMP280_REG_CTRL_MEAS}, NEW v \in Bytes
    PROVE  WriteOf(Write(r, v)) /\ Write(r, v).reg = r /\ Write(r, v).val = v
BY Regs DEF WriteOf, Write, Bus!Writes, BMP280_REG_CONFIG, BMP280_REG_CTRL_MEAS, Bytes

LEMMA InitList ==
    ASSUME NEW o, o.name = "init"
    PROVE  /\ Accesses(o) \in Seq(Bus!Reads \cup Bus!Writes)
           /\ Len(Accesses(o)) = 9
           /\ Accesses(o)[1] = Read(BMP280_REG_ID)
           /\ \A i \in 1..6 : Accesses(o)[i + 1] = Read(CalRegs[i])
           /\ Accesses(o)[8] = bmp280_set_frequency(FREQ_1)
           /\ Accesses(o)[9] = bmp280_set_mode(NORMAL)
<1>1. Accesses(o) = InitAccesses
  BY DEF Accesses
<1>2. /\ InitAccesses[1] = Read(BMP280_REG_ID)
      /\ InitAccesses[8] = bmp280_set_frequency(FREQ_1)
      /\ InitAccesses[9] = bmp280_set_mode(NORMAL)
  BY DEF InitAccesses
<1>3. ASSUME NEW i \in 1..6 PROVE InitAccesses[i + 1] = Read(CalRegs[i])
  BY DEF InitAccesses
<1>4. ASSUME NEW k \in 1..9
      PROVE  InitAccesses[k] \in Bus!Reads \cup Bus!Writes
  <2>1. CASE k = 1
    <3>1. BMP280_REG_ID \in Registers
      BY DEF Registers
    <3> QED
      BY <1>2, <2>1, <3>1, ReadIsRead DEF ReadOf
  <2>2. CASE k \in 2..7
    <3>1. PICK i \in 1..6 : k = i + 1
      BY <2>2
    <3>2. CalRegs[i] \in Registers
      BY Regs DEF Registers, RangeOf
    <3> QED
      BY <1>3, <3>1, <3>2, ReadIsRead DEF ReadOf
  <2>3. CASE k \in {8, 9}
    <3>1. FreqValue(FREQ_1) \in Bytes /\ ModeValue(NORMAL) \in Bytes
      BY ValuesAreBytes DEF FREQ_1, NORMAL
    <3> QED
      BY <1>2, <2>3, <3>1, WriteIsWrite
         DEF bmp280_set_frequency, bmp280_set_mode, WriteOf
  <2> QED
    BY <2>1, <2>2, <2>3
<1>5. InitAccesses \in Seq(Bus!Reads \cup Bus!Writes) /\ Len(InitAccesses) = 9
  <2>1. DOMAIN InitAccesses = 1..9 /\ InitAccesses = [k \in 1..9 |-> InitAccesses[k]]
    BY DEF InitAccesses
  <2> QED
    BY <1>4, <2>1
<1> QED
  BY <1>1, <1>2, <1>3, <1>5

LEMMA AccessKinds ==
    ASSUME NEW o, o.name \in Names, o.arg \in Int
    PROVE  /\ Len(Accesses(o)) \in Nat \ {0}
           /\ \A k \in 1..Len(Accesses(o)) :
                 ReadOf(Accesses(o)[k]) \/ WriteOf(Accesses(o)[k])
           /\ o.name = "read" => /\ Len(Accesses(o)) = 3
                                /\ \A k \in 1..3 : Accesses(o)[k] = Read(TempRegs[k])
           /\ o.name = "open" => /\ Len(Accesses(o)) = 1
                                /\ Accesses(o)[1] = Read(BMP280_REG_ID)
           /\ o.name = "mode" => /\ Len(Accesses(o)) = 1
                                /\ Accesses(o)[1] = bmp280_set_mode(o.arg)
           /\ o.name = "freq" => /\ Len(Accesses(o)) = 1
                                /\ Accesses(o)[1] = bmp280_set_frequency(o.arg)
<1>1. BMP280_REG_ID \in Registers /\ (\A i \in 1..3 : TempRegs[i] \in Registers)
      /\ (\A i \in 1..6 : CalRegs[i] \in Registers)
  BY Regs DEF Registers, RangeOf
<1>2. \A n \in Int : WriteOf(bmp280_set_mode(n)) /\ WriteOf(bmp280_set_frequency(n))
  BY ValuesAreBytes, WriteIsWrite DEF bmp280_set_mode, bmp280_set_frequency
<1>3. CASE o.name = "read"
  <2>1. Accesses(o) = [i \in 1..3 |-> Read(TempRegs[i])]
    BY <1>3 DEF Accesses
  <2>2. Len(Accesses(o)) = 3 /\ \A k \in 1..3 : Accesses(o)[k] = Read(TempRegs[k])
    BY <2>1
  <2> QED
    BY <1>1, <1>3, <2>2, ReadIsRead
<1>4. CASE o.name = "open"
  <2>1. Accesses(o) = <<Read(BMP280_REG_ID)>>
    BY <1>4 DEF Accesses
  <2> QED
    BY <1>1, <1>4, <2>1, ReadIsRead
<1>5. CASE o.name = "mode"
  <2>1. Accesses(o) = <<bmp280_set_mode(o.arg)>>
    BY <1>5 DEF Accesses
  <2> QED
    BY <1>2, <1>5, <2>1
<1>6. CASE o.name = "freq"
  <2>1. Accesses(o) = <<bmp280_set_frequency(o.arg)>>
    BY <1>6 DEF Accesses
  <2> QED
    BY <1>2, <1>6, <2>1
<1>7. CASE o.name = "init"
  <2>1. Len(Accesses(o)) = 9
    BY <1>7, InitList
  <2>2. ASSUME NEW k \in 1..9
        PROVE  ReadOf(Accesses(o)[k]) \/ WriteOf(Accesses(o)[k])
    <3>1. CASE k = 1
      BY <1>1, <1>7, <3>1, InitList, ReadIsRead
    <3>2. CASE k \in 2..7
      <4>1. PICK i \in 1..6 : k = i + 1
        BY <3>2
      <4> QED
        <5>1. Accesses(o)[k] = Read(CalRegs[i])
          BY <1>7, <4>1, InitList
        <5>2. CalRegs[i] \in Registers
          BY Regs DEF RangeOf, Registers
        <5> QED
          BY <5>1, <5>2, ReadIsRead
    <3>3. CASE k = 8 \/ k = 9
      BY <1>2, <1>7, <3>3, InitList DEF FREQ_1, NORMAL
    <3> QED
      BY <3>1, <3>2, <3>3
  <2> QED
    BY <1>7, <2>1, <2>2
<1> QED
  BY <1>3, <1>4, <1>5, <1>6, <1>7 DEF Names

LEMMA OperationsKnown ==
    ASSUME Typed, NEW p \in Procs, op[p] # None
    PROVE  op[p].name \in Names /\ op[p].arg \in Int
BY IntsAreInts DEF Typed, Operations, Operation, Names

(* What an access may still be asked for.                                  *)
LEMMA NextAccess ==
    ASSUME Typed, GotBytes, NEW p \in Procs, op[p] # None, ~Complete(op[p], got[p])
    PROVE  /\ Len(got[p]) + 1 \in 1..Len(Accesses(op[p]))
           /\ LET a == Accesses(op[p])[Len(got[p]) + 1] IN ReadOf(a) \/ WriteOf(a)
<1>1. /\ Len(Accesses(op[p])) \in Nat
      /\ \A k \in 1..Len(Accesses(op[p])) :
             ReadOf(Accesses(op[p])[k]) \/ WriteOf(Accesses(op[p])[k])
  BY AccessKinds, OperationsKnown
<1>2. Len(got[p]) \in Nat /\ Len(got[p]) <= Len(Accesses(op[p]))
  BY DEF GotBytes
<1>3. Len(got[p]) # Len(Accesses(op[p]))
  BY DEF Complete
<1>4. Len(got[p]) + 1 \in 1..Len(Accesses(op[p]))
  BY <1>1, <1>2, <1>3
<1> QED
  BY <1>1, <1>4

LEMMA TypesHold == BmpInv => TypeOK
<1> SUFFICES ASSUME BmpInv PROVE TypeOK
  OBVIOUS
<1> USE DEF BmpInv
<1>1. ASSUME NEW p \in active
      PROVE  /\ op[p] # None /\ req[p].reg \in Registers
             /\ req[p].op = "write" => req[p].val \in Bytes
             /\ Len(got[p]) < Len(Accesses(op[p]))
  <2>1. p \in Procs /\ op[p] # None /\ ~Complete(op[p], got[p])
    BY DEF Asked
  <2>2. req[p] = Accesses(op[p])[Len(got[p]) + 1]
    BY DEF Asked
  <2>3. Len(got[p]) + 1 \in 1..Len(Accesses(op[p])) /\ (ReadOf(req[p]) \/ WriteOf(req[p]))
    BY <2>1, <2>2, NextAccess
  <2>4. Len(got[p]) \in Nat /\ Len(Accesses(op[p])) \in Nat
    BY <2>1, AccessKinds, OperationsKnown DEF GotBytes
  <2>5. req[p].reg \in Registers /\ (req[p].op = "write" => req[p].val \in Bytes)
    BY <2>3 DEF ReadOf, WriteOf, Registers, Bus!Writes
  <2> QED
    BY <2>1, <2>3, <2>4, <2>5
<1>2. BusTypes
  BY <1>1 DEF BusTypes, Typed, Asked
<1>3. OpTypes
  BY <1>1 DEF OpTypes, Typed, GotBytes
<1> QED
  BY <1>2, <1>3 DEF TypeOK

LEMMA InitHolds == Init => BmpInv
BY PowerOnBytes
   DEF Init, BmpInv, Typed, GotBytes, Asked, Performed, Told, Sampled, Shown,
   ReadingSeen, OpenChecked, IoctlDone, Returned

-----------------------------------------------------------------------------
(* The steps                                                               *)

(* An operation begins: nothing has been told or asked yet.                *)
LEMMA EnterHolds ==
    ASSUME BmpInv, NEW p \in Procs, NEW o \in Operations(p) \cup {Operation("init", 0)},
           Enter(p, o), driver' \in {"off", "probing", "up", "failed"}
    PROVE  BmpInv'
<1> USE DEF BmpInv
<1>1. /\ op[p] = None /\ op' = [op EXCEPT ![p] = o]
      /\ got' = [got EXCEPT ![p] = <<>>]
      /\ last' = [last EXCEPT ![p] = None]
      /\ seen' = [seen EXCEPT ![p] = IF o.name = "read" THEN {Current} ELSE {}]
      /\ UNCHANGED <<mem, active, req, did, res, connected, cal, unit>>
  BY DEF Enter, busVars
<1>2. p \notin active
  BY <1>1 DEF Asked
<1>3. /\ op'[p] = o /\ got'[p] = <<>> /\ last'[p] = None
      /\ \A q \in Procs \ {p} : op'[q] = op[q] /\ got'[q] = got[q] /\ last'[q] = last[q]
  BY <1>1 DEF Typed, GotBytes
<1>4. /\ \A q \in Procs \ {p} : seen'[q] = seen[q]
      /\ o.name = "read" => seen'[p] = {Current}
  <2>1. DOMAIN seen = Procs
    BY DEF Typed
  <2> QED
    BY <1>1, <2>1
<1>5. Typed'
  BY <1>1, <1>3 DEF Typed, Operations, Operation
<1>6. GotBytes'
  <2>1. Len(<<>>) = 0 /\ <<>> \in Seq(BytesOrErr)
    OBVIOUS
  <2>2. op'[p] # None => Len(Accesses(o)) \in Nat
    BY <1>3, <1>5, AccessKinds, IntsAreInts DEF Operations, Operation, Names
  <2> QED
    BY <1>1, <1>3, <2>1, <2>2 DEF GotBytes
<1>7. Asked' /\ Performed'
  BY <1>1, <1>2, <1>3 DEF Asked, Performed
<1>8. Told'
  BY <1>1, <1>3 DEF Told
<1>9. Sampled'
  <2>1. \A i \in 1..3 : Current[i] = mem[TempRegs[i]]
    BY DEF Current
  <2> QED
    BY <1>1, <1>3, <1>4, <2>1 DEF Sampled
<1>10. Shown'
  BY <1>1, <1>2, <1>3, <1>4 DEF Shown
<1>11. ReadingSeen' /\ OpenChecked' /\ IoctlDone'
  BY <1>1, <1>3, <1>4 DEF ReadingSeen, OpenChecked, IoctlDone, Returned
<1> QED
  BY <1>5, <1>6, <1>7, <1>8, <1>9, <1>10, <1>11

(* The access on the bus is the next of the list.                          *)
LEMMA AskHolds ==
    ASSUME BmpInv, NEW p \in Procs, Ask(p)
    PROVE  BmpInv'
<1> USE DEF BmpInv
<1> DEFINE a == Accesses(op[p])[Len(got[p]) + 1]
<1>1. /\ op[p] # None /\ ~Complete(op[p], got[p])
      /\ p \notin active /\ active' = active \cup {p}
      /\ req' = [req EXCEPT ![p] = a]
      /\ did' = [did EXCEPT ![p] = None]
      /\ res' = [res EXCEPT ![p] = Bus!Err]
      /\ UNCHANGED <<mem, connected, driver, cal, unit, op, got, last, seen>>
  BY DEF Ask, Bus!Ask
<1>2. /\ req'[p] = a /\ did'[p] = None
      /\ \A q \in Procs \ {p} : req'[q] = req[q] /\ did'[q] = did[q]
  BY <1>1 DEF Typed
<1> HIDE DEF a
<1>3. Typed' /\ GotBytes'
  <2>1. Typed'
    BY <1>1 DEF Typed, Operations
  <2>2. GotBytes'
    BY <1>1 DEF GotBytes
  <2> QED
    BY <2>1, <2>2
<1>4. Asked'
  BY <1>1, <1>2 DEF Asked, a
<1>5. Performed'
  BY <1>1, <1>2 DEF Asked, Performed
<1>6. Told'
  BY <1>1, <1>2 DEF Told
<1>7. Sampled' /\ Shown'
  BY <1>1, <1>2 DEF Sampled, Shown
<1>8. ReadingSeen' /\ OpenChecked' /\ IoctlDone'
  BY <1>1, <1>2 DEF ReadingSeen, OpenChecked, IoctlDone, Returned
<1> QED
  BY <1>3, <1>4, <1>5, <1>6, <1>7, <1>8

(* The access is done: a read leaves the memory alone, and a write changes *)
(* no measured byte.                                                       *)
LEMMA PerformHolds ==
    ASSUME BmpInv, NEW p \in Procs, Perform(p)
    PROVE  BmpInv'
<1> USE DEF BmpInv
<1> DEFINE a == Accesses(op[p])[Len(got[p]) + 1]
<1>1. /\ p \in active
      /\ UNCHANGED <<active, req, res, connected, driver, cal, unit, op, got, last, seen>>
  BY DEF Perform, Bus!PerformRead, Bus!PerformWrite
<1>2. op[p] # None /\ req[p] = a /\ (ReadOf(a) \/ WriteOf(a))
  BY <1>1, NextAccess DEF Asked
<1> HIDE DEF a
<1>3. PICK v \in Bytes :
         /\ did' = [did EXCEPT ![p] = <<a.reg, v>>]
         /\ \/ a.op = "write" /\ v = a.val /\ mem' = [mem EXCEPT ![a.reg] = v] /\ WriteOf(a)
            \/ a.op = "read" /\ v = mem[a.reg] /\ mem' = mem /\ ReadOf(a)
  <2>1. CASE Bus!PerformWrite(p)
    <3>1. a.op = "write" /\ a.val \in Bytes
      BY <1>2, <2>1 DEF Bus!PerformWrite, Bus!Writes
    <3>2. WriteOf(a)
      BY <1>2, <3>1 DEF ReadOf
    <3> QED
      BY <1>2, <2>1, <3>1, <3>2 DEF Bus!PerformWrite
  <2>2. CASE Bus!PerformRead(p)
    <3>1. a.op = "read"
      BY <1>2, <2>2 DEF Bus!PerformRead, Bus!Reads
    <3>2. ReadOf(a) /\ mem[a.reg] \in Bytes
      BY <1>2, <3>1 DEF ReadOf, WriteOf, Typed
    <3> QED
      BY <1>2, <2>2, <3>1, <3>2 DEF Bus!PerformRead
  <2> QED
    BY <2>1, <2>2 DEF Perform
<1>4. /\ did'[p] = <<a.reg, v>> /\ \A q \in Procs \ {p} : did'[q] = did[q]
      /\ DOMAIN did' = Procs
  BY <1>3 DEF Typed
<1>5. mem' \in [Registers -> Bytes] /\ \A i \in 1..3 : mem'[TempRegs[i]] = mem[TempRegs[i]]
  <2>1. CASE a.op = "write"
    <3>1. a.reg \in {BMP280_REG_CONFIG, BMP280_REG_CTRL_MEAS} /\ mem' = [mem EXCEPT ![a.reg] = v]
      BY <1>3, <2>1 DEF WriteOf
    <3>2. \A i \in 1..3 : TempRegs[i] # a.reg
      BY <3>1, Regs DEF BMP280_REG_CONFIG, BMP280_REG_CTRL_MEAS
    <3> QED
      BY <3>1, <3>2, Regs DEF Typed, Registers, RangeOf
  <2>2. CASE a.op # "write"
    BY <1>3, <2>2 DEF Typed
  <2> QED
    BY <2>1, <2>2
<1>6. Typed' /\ GotBytes'
  <2>1. Typed'
    BY <1>1, <1>4, <1>5 DEF Typed, Operations
  <2>2. GotBytes'
    BY <1>1, <1>4, <1>5 DEF GotBytes
  <2> QED
    BY <2>1, <2>2
<1>7. Asked'
  BY <1>1 DEF Asked
<1>8. Performed'
  <2>1. Did(a, <<a.reg, v>>)
    BY <1>3 DEF Did
  <2> QED
    BY <1>1, <1>2, <1>4, <2>1 DEF Performed, Asked
<1>9. Told'
  BY <1>1, <1>4 DEF Told
<1>10. Sampled'
  BY <1>1, <1>5 DEF Sampled
<1>11. Shown'
  <2>1. ASSUME op[p].name = "read"
        PROVE  \E s \in seen[p] : s[Len(got[p]) + 1] = v
    <3>1. Len(got[p]) + 1 \in 1..3 /\ a = Read(TempRegs[Len(got[p]) + 1])
      BY <1>1, <1>2, <2>1, AccessKinds, OperationsKnown, NextAccess, SMTT(30) DEF a, Asked
    <3>2. a.op = "read" /\ a.reg = TempRegs[Len(got[p]) + 1]
      BY <3>1 DEF Read
    <3>3. v = mem[TempRegs[Len(got[p]) + 1]]
      BY <1>3, <3>2
    <3> QED
      BY <1>2, <2>1, <3>1, <3>3 DEF Sampled
  <2> QED
    BY <1>1, <1>4, <2>1 DEF Shown
<1>12. ReadingSeen' /\ OpenChecked' /\ IoctlDone'
  BY <1>1, <1>2, <1>4 DEF ReadingSeen, OpenChecked, IoctlDone, Returned
<1> QED
  BY <1>6, <1>7, <1>8, <1>9, <1>10, <1>11, <1>12

(* The answer is what was done, or an error.                               *)
LEMMA AnswerHolds ==
    ASSUME BmpInv, NEW p \in Procs, Answer(p)
    PROVE  BmpInv'
<1> USE DEF BmpInv
<1> DEFINE n == Len(got[p])
           a == Accesses(op[p])[n + 1]
           r == res'[p]
<1>1. /\ p \in active /\ active' = active \ {p}
      /\ got' = [got EXCEPT ![p] = Append(@, r)]
      /\ UNCHANGED <<mem, req, did, connected, driver, cal, unit, op, last, seen>>
      /\ DOMAIN res' = Procs
  BY DEF Answer, Bus!Succeed, Bus!Refuse, Typed
<1>2. /\ op[p] # None /\ ~Complete(op[p], got[p]) /\ req[p] = a
      /\ (ReadOf(a) \/ WriteOf(a)) /\ n + 1 \in 1..Len(Accesses(op[p]))
  BY <1>1, NextAccess DEF Asked
<1>3. r \in BytesOrErr /\ (r # Err => Did(a, did[p]) /\ (a.op = "read" => did[p][2] = r))
  <2>1. CASE Bus!Succeed(p)
    <3>1. Did(a, did[p]) /\ did[p][2] \in Bytes
      BY <1>1, <1>2, <2>1 DEF Bus!Succeed, Performed, Did
    <3>2. r = IF a \in Bus!Reads THEN did[p][2] ELSE 0
      BY <1>2, <2>1 DEF Bus!Succeed, Typed
    <3>3. a.op = "read" => a \in Bus!Reads
      BY <1>2 DEF ReadOf, WriteOf
    <3> QED
      BY <3>1, <3>2, <3>3 DEF BytesOrErr, Bytes
  <2>2. CASE Bus!Refuse(p)
    BY <2>2 DEF Bus!Refuse, Bus!Err, Err, BytesOrErr, Typed
  <2> QED
    BY <2>1, <2>2 DEF Answer
<1>4. n \in Nat /\ got[p] \in Seq(BytesOrErr)
  BY DEF GotBytes
<1>5. /\ got'[p] = Append(got[p], r) /\ \A q \in Procs \ {p} : got'[q] = got[q]
      /\ DOMAIN got' = Procs
  BY <1>1 DEF GotBytes
<1> HIDE DEF r
<1>6. /\ got'[p] \in Seq(BytesOrErr) /\ Len(got'[p]) = n + 1 /\ got'[p][n + 1] = r
      /\ \A i \in 1..n : got'[p][i] = got[p][i]
  BY <1>3, <1>4, <1>5
<1> HIDE DEF n
<1>7. Typed'
  BY <1>1 DEF Typed, Operations
<1>8. GotBytes'
  <2>1. got' \in [Procs -> Seq(BytesOrErr)]
    <3>1. Append(got[p], r) \in Seq(BytesOrErr)
      BY <1>5, <1>6
    <3> QED
      BY <1>1, <3>1 DEF GotBytes
  <2>2. ASSUME op[p].name = "read", NEW i \in 1..n
        PROVE  got'[p][i] # Err
    <3>1. ~(got[p] # <<>> /\ got[p][n] = Err)
      BY <1>2, <2>2 DEF Complete, Stops, n
    <3>2. got[p] # <<>>
      BY <1>4, <2>2 DEF n
    <3>3. i = n \/ i \in 1..n - 1
      BY <1>4
    <3>4. got[p][i] # Err
      BY <1>2, <2>2, <3>1, <3>2, <3>3 DEF GotBytes, n
    <3> QED
      BY <1>6, <3>4
  <2>3. Len(got'[p]) <= Len(Accesses(op[p])) /\ \A i \in 1..Len(got'[p]) - 1 : i \in 1..n
    <3>1. Len(Accesses(op[p])) \in Nat
      BY <1>2, AccessKinds, OperationsKnown
    <3> QED
      BY <1>2, <1>4, <1>6, <3>1
  <2>4. ASSUME NEW q \in Procs, op'[q] # None
        PROVE  /\ Len(got'[q]) <= Len(Accesses(op'[q]))
               /\ op'[q].name = "read" => \A i \in 1..Len(got'[q]) - 1 : got'[q][i] # Err
    <3>1. CASE q = p
      BY <1>1, <2>2, <2>3, <3>1
    <3>2. CASE q # p
      BY <1>1, <1>5, <2>4, <3>2 DEF GotBytes
    <3> QED
      BY <3>1, <3>2
  <2> QED
    BY <2>1, <2>4 DEF GotBytes
<1>9. Asked' /\ Performed'
  BY <1>1, <1>5 DEF Asked, Performed
<1>10. Told'
  <2>1. r # Err => Did(a, did[p]) /\ (a.op = "read" => did[p][2] = r)
    BY <1>3
  <2> QED
    BY <1>1, <1>5, <1>6, <2>1 DEF Told
<1>11. Sampled'
  BY <1>1 DEF Sampled
<1>12. Shown'
  <2>1. ASSUME op[p].name = "read", NEW i \in 1..n + 1, got'[p][i] # Err
        PROVE  \E s \in seen[p] : s[i] = got'[p][i]
    <3>1. CASE i \in 1..n
      BY <1>2, <1>6, <2>1, <3>1 DEF Shown, n
    <3>2. CASE i = n + 1
      <4>1. a = Read(TempRegs[n + 1])
        BY <1>2, <2>1, AccessKinds, OperationsKnown
      <4>2. did[p][2] = r
        BY <1>3, <1>6, <2>1, <3>2, <4>1 DEF Read
      <4>3. did[p] # None
        BY <1>1, <1>6, <2>1, <3>2 DEF Answer, Bus!Succeed, Bus!Refuse, Bus!Err, Err, Typed, r
      <4> QED
        BY <1>1, <1>2, <1>6, <2>1, <3>2, <4>2, <4>3 DEF Shown, n
    <3> QED
      BY <1>4, <3>1, <3>2
  <2> QED
    BY <1>1, <1>5, <1>6, <2>1 DEF Shown
<1>13. ReadingSeen' /\ OpenChecked' /\ IoctlDone'
  BY <1>1 DEF ReadingSeen, OpenChecked, IoctlDone, Returned
<1> QED
  BY <1>7, <1>8, <1>9, <1>10, <1>11, <1>12, <1>13

(* What has been done when an operation succeeds.                          *)
LEMMA SucceededMeansDone ==
    ASSUME BmpInv, NEW p \in Procs, op[p] # None, p \notin active,
           Complete(op[p], got[p]), Succeeds(op[p], got[p])
    PROVE  /\ op[p].name = "read" =>
                 Len(got[p]) = 3 /\ \A i \in 1..3 : \E s \in seen[p] : s[i] = got[p][i]
           /\ op[p].name = "open" => did[p] = <<BMP280_REG_ID, BMP280_ID>>
           /\ op[p].name = "mode" =>
                 did[p] = <<BMP280_REG_CTRL_MEAS, ModeValue(op[p].arg)>>
           /\ op[p].name = "freq" =>
                 did[p] = <<BMP280_REG_CONFIG, FreqValue(op[p].arg)>>
<1> USE DEF BmpInv
<1>1. got[p] \in Seq(BytesOrErr)
  BY DEF GotBytes
<1>2. op[p].name \in Names /\ op[p].arg \in Int
  BY OperationsKnown
<1>3. CASE op[p].name = "read"
  <2>1. Len(Accesses(op[p])) = 3 /\ ~Stops(op[p], got[p])
    BY <1>2, <1>3, AccessKinds DEF Succeeds
  <2>2. Len(got[p]) = 3 /\ got[p] # <<>> /\ got[p][3] # Err
    BY <1>1, <1>3, <2>1 DEF Complete, Stops
  <2>3. \A i \in 1..2 : got[p][i] # Err
    <3>1. \A i \in 1..Len(got[p]) - 1 : got[p][i] # Err
      BY <1>1, <1>3 DEF GotBytes
    <3> QED
      BY <2>2, <3>1
  <2>4. \A i \in 1..3 : got[p][i] # Err
    BY <2>2, <2>3
  <2> QED
    BY <1>3, <2>2, <2>4 DEF Shown
<1>4. CASE op[p].name \in {"open", "mode", "freq"}
  <2>1. Len(got[p]) = 1 /\ got[p] # <<>> /\ got[p][1] \in BytesOrErr
    <3>1. Len(Accesses(op[p])) = 1 /\ ~Stops(op[p], got[p])
      BY <1>2, <1>4, AccessKinds DEF Stops
    <3>2. Len(got[p]) = 1
      BY <3>1 DEF Complete
    <3> QED
      BY <1>1, <3>2, SMTT(30)
  <2> DEFINE a == Accesses(op[p])[1]
  <2>2. got[p][1] # Err => Did(a, did[p]) /\ (a.op = "read" => did[p][2] = got[p][1])
    BY <2>1 DEF Told
  <2>3. CASE op[p].name = "open"
    <3>1. got[p][1] = BMP280_ID
      BY <2>1, <2>3, ConnectedIsId DEF Succeeds
    <3>2. got[p][1] # Err
      BY <3>1 DEF BMP280_ID, Err
    <3>3. a.op = "read" /\ a.reg = BMP280_REG_ID
      BY <1>2, <2>3, AccessKinds DEF Read
    <3> QED
      BY <2>2, <2>3, <3>1, <3>2, <3>3 DEF Did
  <2>4. CASE op[p].name = "mode"
    <3>1. got[p][1] # Err
      BY <2>4 DEF Succeeds, Err
    <3>2. a.op = "write" /\ a.reg = BMP280_REG_CTRL_MEAS /\ a.val = ModeValue(op[p].arg)
      <4>1. a = bmp280_set_mode(op[p].arg)
        BY <1>2, <2>4, AccessKinds
      <4> HIDE DEF a
      <4> QED
        BY <4>1 DEF bmp280_set_mode, Write
    <3> QED
      BY <2>2, <2>4, <3>1, <3>2 DEF Did
  <2>5. CASE op[p].name = "freq"
    <3>1. got[p][1] # Err
      BY <2>5 DEF Succeeds, Err
    <3>2. a.op = "write" /\ a.reg = BMP280_REG_CONFIG /\ a.val = FreqValue(op[p].arg)
      <4>1. a = bmp280_set_frequency(op[p].arg)
        BY <1>2, <2>5, AccessKinds
      <4> HIDE DEF a
      <4> QED
        BY <4>1 DEF bmp280_set_frequency, Write
    <3> QED
      BY <2>2, <2>5, <3>1, <3>2 DEF Did
  <2> QED
    BY <1>4, <2>3, <2>4, <2>5
<1> QED
  BY <1>2, <1>3, <1>4 DEF Names

(* An operation returns.                                                   *)
LEMMA LeaveHolds ==
    ASSUME BmpInv, NEW p \in Procs, Leave(p)
    PROVE  BmpInv'
<1> USE DEF BmpInv
<1> DEFINE ok == Succeeds(op[p], got[p])
<1>1. /\ op[p] # None /\ p \notin active /\ Complete(op[p], got[p])
      /\ op' = [op EXCEPT ![p] = None]
      /\ got' = [got EXCEPT ![p] = <<>>]
      /\ last' = [last EXCEPT ![p] =
                    IF ok THEN Result(op[p], 0, got[p]) ELSE Result(op[p], Err, <<>>)]
      /\ UNCHANGED <<mem, active, req, did, res, connected, unit, seen>>
  BY DEF Leave, busVars
<1>2. \/ UNCHANGED <<driver, cal>>
      \/ driver' = "failed" /\ UNCHANGED cal
      \/ /\ op[p].name = "init" /\ driver' = "up"
         /\ cal' = [i \in 1..3 |-> Word(got[p][2*i], got[p][2*i + 1])]
  BY DEF Leave
<1>3. /\ op'[p] = None /\ got'[p] = <<>>
      /\ last'[p] = IF ok THEN Result(op[p], 0, got[p]) ELSE Result(op[p], Err, <<>>)
      /\ \A q \in Procs \ {p} : op'[q] = op[q] /\ got'[q] = got[q] /\ last'[q] = last[q]
      /\ DOMAIN op' = Procs /\ DOMAIN last' = Procs
  BY <1>1 DEF Typed, GotBytes
<1>4. cal' \in [1..3 -> Int]
  <2>1. ASSUME op[p].name = "init", NEW i \in 1..3, NEW k \in {2*i, 2*i + 1}, ok
        PROVE  got[p][k] \in Int
    <3>1. got[p] \in Seq(BytesOrErr)
      BY DEF GotBytes
    <3>2. bmp280_is_connected(got[p][1])
      BY <2>1 DEF Succeeds
    <3>3. Len(got[p]) = 9
      <4>1. ~Stops(op[p], got[p])
        BY <2>1, <3>2 DEF Stops
      <4> QED
        BY <1>1, <2>1, <4>1, InitList DEF Complete
    <3>4. k \in 1..9
      BY <2>1
    <3>5. got[p][k] \in BytesOrErr
      BY <3>1, <3>3, <3>4
    <3> QED
      BY <3>5 DEF BytesOrErr, Bytes, Err
  <2>2. \A m, l \in Int : Word(m, l) \in Int
    BY DEF Word, Err
  <2>3. CASE op[p].name = "init" /\ ok
    <3>1. \A i \in 1..3 : Word(got[p][2*i], got[p][2*i + 1]) \in Int
      <4> SUFFICES ASSUME NEW i \in 1..3
                   PROVE  Word(got[p][2*i], got[p][2*i + 1]) \in Int
        OBVIOUS
      <4> DEFINE m == 2*i
                 l == 2*i + 1
      <4>1. m \in {2*i, 2*i + 1} /\ l \in {2*i, 2*i + 1}
        OBVIOUS
      <4> HIDE DEF m, l
      <4>2. got[p][m] \in Int /\ got[p][l] \in Int
        BY <2>1, <2>3, <4>1
      <4>3. Word(got[p][m], got[p][l]) \in Int
        BY <2>2, <4>2
      <4> QED
        BY <4>3, Zenon DEF m, l
    <3>2. cal' = cal \/ cal' = [i \in 1..3 |-> Word(got[p][2*i], got[p][2*i + 1])]
      BY <1>2
    <3> QED
      BY <3>1, <3>2 DEF Typed
  <2>4. CASE ~(op[p].name = "init" /\ ok)
    <3>1. cal' = cal
      BY <2>4 DEF Leave
    <3> QED
      BY <3>1 DEF Typed
  <2> QED
    BY <2>3, <2>4
<1>5. driver' \in {"off", "probing", "up", "failed"}
  BY <1>2 DEF Typed
<1>6. Typed'
  BY <1>1, <1>3, <1>4, <1>5 DEF Typed, Operations
<1>7. GotBytes'
  <2>1. got' \in [Procs -> Seq(BytesOrErr)]
    BY <1>1 DEF GotBytes
  <2> QED
    BY <1>3, <2>1 DEF GotBytes
<1>8. Asked' /\ Performed'
  BY <1>1, <1>3 DEF Asked, Performed
<1>9. Told'
  BY <1>1, <1>3 DEF Told
<1>10. Sampled' /\ Shown'
  BY <1>1, <1>3 DEF Sampled, Shown
<1>11. ASSUME NEW name \in Names, Returned(p, name)'
       PROVE  ok /\ op[p].name = name /\ last'[p].op = op[p] /\ last'[p].raw = got[p]
  BY <1>3, <1>11 DEF Returned, Result
<1>12. \A q \in Procs \ {p} : \A name \in Names : Returned(q, name)' <=> Returned(q, name)
  BY <1>3 DEF Returned
<1> HIDE DEF ok
<1>13. ReadingSeen'
  <2>1. CASE Returned(p, "read")'
    <3>1. ok /\ op[p].name = "read" /\ last'[p].raw = got[p]
      BY <1>11, <2>1 DEF Names
    <3>2. Len(got[p]) = 3 /\ \A i \in 1..3 : \E s \in seen[p] : s[i] = got[p][i]
      BY <1>1, <3>1, SucceededMeansDone DEF ok
    <3> QED
      BY <1>1, <1>3, <1>12, <3>1, <3>2 DEF ReadingSeen, Names
  <2>2. CASE ~Returned(p, "read")'
    BY <1>1, <1>3, <1>12, <2>2 DEF ReadingSeen, Names
  <2> QED
    BY <2>1, <2>2
<1>14. OpenChecked'
  <2>1. Returned(p, "open")' => did[p] = <<BMP280_REG_ID, BMP280_ID>>
    BY <1>1, <1>11, SucceededMeansDone DEF ok, Names
  <2> QED
    BY <1>1, <1>12, <2>1 DEF OpenChecked, Names
<1>15. IoctlDone'
  <2>1. Returned(p, "mode")' =>
           did[p] = <<BMP280_REG_CTRL_MEAS, ModeValue(last'[p].op.arg)>>
    BY <1>1, <1>11, SucceededMeansDone DEF ok, Names
  <2>2. Returned(p, "freq")' =>
           did[p] = <<BMP280_REG_CONFIG, FreqValue(last'[p].op.arg)>>
    BY <1>1, <1>11, SucceededMeansDone DEF ok, Names
  <2> QED
    BY <1>1, <1>3, <1>12, <2>1, <2>2 DEF IoctlDone, Names
<1> QED
  BY <1>6, <1>7, <1>8, <1>9, <1>10, <1>13, <1>14, <1>15

(* The registers change as the sensor likes, and whoever reads sees it.    *)
LEMMA ShowHolds ==
    ASSUME BmpInv, mem' \in [Registers -> Bytes], connected' \in BOOLEAN,
           NEW s, \A i \in 1..3 : s[i] = mem'[TempRegs[i]],
           NEW names, "read" \in names, Show(s, names),
           UNCHANGED <<active, req, did, res, driver, cal, unit, op, got, last>>
    PROVE  BmpInv'
<1> USE DEF BmpInv
<1>1. /\ DOMAIN seen' = Procs
      /\ \A p \in Procs : seen[p] \subseteq seen'[p]
      /\ \A p \in Procs : op[p] # None /\ op[p].name = "read" => s \in seen'[p]
  BY DEF Show
<1>2. Typed' /\ GotBytes'
  BY <1>1 DEF Typed, GotBytes, Operations
<1>3. Asked' /\ Performed' /\ Told'
  BY DEF Asked, Performed, Told
<1>4. Sampled'
  BY <1>1 DEF Sampled
<1>5. Shown'
  BY <1>1 DEF Shown
<1>6. ReadingSeen' /\ OpenChecked' /\ IoctlDone'
  BY <1>1 DEF ReadingSeen, OpenChecked, IoctlDone, Returned
<1> QED
  BY <1>2, <1>3, <1>4, <1>5, <1>6

LEMMA MeasureHolds == BmpInv /\ Measure => BmpInv'
<1> SUFFICES ASSUME BmpInv, Measure PROVE BmpInv'
  OBVIOUS
<1> USE DEF BmpInv
<1>1. PICK s \in Samples :
         /\ mem' = [r \in Registers |->
                      IF r \in RangeOf(TempRegs)
                      THEN s[CHOOSE i \in 1..3 : TempRegs[i] = r]
                      ELSE IF r = BMP280_REG_CTRL_MEAS /\ PowerMode # NORMAL
                           THEN mem[r] - PowerMode
                      ELSE mem[r]]
         /\ Show(s, {"read"})
  BY DEF Measure, Measured
<1>2. s[1] \in Bytes /\ s[2] \in Bytes /\ s[3] \in Bytes
  BY SamplesAreBytes
<1>3. ASSUME NEW i \in 1..3
      PROVE  TempRegs[i] \in RangeOf(TempRegs) /\ mem'[TempRegs[i]] = s[i]
  <2>1. TempRegs[i] \in RangeOf(TempRegs) /\ TempRegs[i] \in Registers
    BY Regs DEF RangeOf, Registers
  <2>2. (CHOOSE j \in 1..3 : TempRegs[j] = TempRegs[i]) = i
    <3>1. \A j \in 1..3 : TempRegs[j] = TempRegs[i] => j = i
      BY Regs
    <3> QED
      BY <3>1
  <2> QED
    BY <1>1, <2>1, <2>2
<1>4. mem' \in [Registers -> Bytes]
  <2> SUFFICES ASSUME NEW r \in Registers PROVE mem'[r] \in Bytes
    BY <1>1
  <2>1. CASE r \in RangeOf(TempRegs)
    <3>1. PICK i \in 1..3 : r = TempRegs[i]
      BY <2>1, Regs DEF RangeOf
    <3>2. i = 1 \/ i = 2 \/ i = 3
      BY <3>1
    <3> QED
      BY <1>2, <1>3, <3>1, <3>2
  <2>2. CASE r \notin RangeOf(TempRegs)
    <3>1. mem[r] \in Bytes
      BY DEF Typed
    <3>2. \A n \in Bytes : \A d : d = n % 4 => n - d \in Bytes
      BY DEF Bytes
    <3>3. mem'[r] = mem[r] \/ (r = BMP280_REG_CTRL_MEAS /\ mem'[r] = mem[r] - PowerMode)
      BY <1>1, <2>2
    <3>4. PowerMode = mem[BMP280_REG_CTRL_MEAS] % 4
      BY DEF PowerMode
    <3>5. r = BMP280_REG_CTRL_MEAS => mem[r] - PowerMode \in Bytes
      <4>1. CASE r = BMP280_REG_CTRL_MEAS
        <5>1. PowerMode = mem[r] % 4
          BY <3>4, <4>1
        <5> QED
          BY <3>1, <3>2, <5>1, Zenon
      <4> QED
        BY <4>1
    <3> QED
      BY <3>1, <3>3, <3>5
  <2> QED
    BY <2>1, <2>2
<1>5. UNCHANGED <<active, req, did, res, driver, cal, unit, op, got, last>>
      /\ connected' \in BOOLEAN
  BY DEF Measure, Typed
<1> QED
  BY <1>1, <1>3, <1>4, <1>5, ShowHolds

LEMMA UnplugHolds == BmpInv /\ Unplug => BmpInv'
<1> SUFFICES ASSUME BmpInv, Unplug PROVE BmpInv'
  OBVIOUS
<1> DEFINE s == [i \in 1..3 |-> PowerOn[TempRegs[i]]]
<1>1. /\ mem' = PowerOn /\ connected' = FALSE
      /\ Show(s, {"read", "init"})
      /\ UNCHANGED <<active, req, did, res, driver, cal, unit, op, got, last>>
  BY DEF Unplug
<1>2. \A i \in 1..3 : s[i] = mem'[TempRegs[i]]
  BY <1>1
<1> HIDE DEF s
<1> QED
  BY <1>1, <1>2, PowerOnBytes, ShowHolds

(* Nothing that the invariant looks at changes, except that a process      *)
(* forgets its last operation.                                             *)
LEMMA SetUnitHolds ==
    ASSUME BmpInv, NEW p \in Procs, SetUnit(p)
    PROVE  BmpInv'
<1> USE DEF BmpInv
<1>1. /\ unit' \in Units
      /\ last' = [last EXCEPT ![p] = None]
      /\ UNCHANGED <<mem, active, req, did, res, connected, driver, cal, op, got, seen>>
  BY DEF SetUnit, busVars
<1>2. last'[p] = None /\ DOMAIN last' = Procs
      /\ \A q \in Procs \ {p} : last'[q] = last[q]
  BY <1>1 DEF Typed
<1>3. Typed' /\ GotBytes'
  <2>1. Typed'
    BY <1>1, <1>2 DEF Typed, Operations
  <2>2. GotBytes'
    BY <1>1, <1>2 DEF GotBytes
  <2> QED
    BY <2>1, <2>2
<1>4. Asked' /\ Performed' /\ Told' /\ Sampled' /\ Shown'
  <2>1. Asked' /\ Performed'
    BY <1>1 DEF Asked, Performed
  <2>2. Told'
    BY <1>1 DEF Told
  <2>3. Sampled' /\ Shown'
    BY <1>1 DEF Sampled, Shown
  <2> QED
    BY <2>1, <2>2, <2>3
<1>5. ReadingSeen' /\ OpenChecked' /\ IoctlDone'
  BY <1>1, <1>2 DEF ReadingSeen, OpenChecked, IoctlDone, Returned
<1> QED
  BY <1>3, <1>4, <1>5

LEMMA IdleHolds ==
    ASSUME BmpInv, connected' \in BOOLEAN,
           UNCHANGED <<mem, active, req, did, res, driver, cal, unit, op, got,
                       last, seen>>
    PROVE  BmpInv'
<1> USE DEF BmpInv
<1>1. Typed' /\ GotBytes'
  BY DEF Typed, GotBytes, Operations
<1>2. Asked' /\ Performed' /\ Told' /\ Sampled' /\ Shown'
  BY DEF Asked, Performed, Told, Sampled, Shown
<1>3. ReadingSeen' /\ OpenChecked' /\ IoctlDone'
  BY DEF ReadingSeen, OpenChecked, IoctlDone, Returned
<1> QED
  BY <1>1, <1>2, <1>3

LEMMA NextHolds == BmpInv /\ [Next]_vars => BmpInv'
<1> SUFFICES ASSUME BmpInv, [Next]_vars PROVE BmpInv'
  OBVIOUS
<1>1. ASSUME NEW p \in Readers, Probe(p)
      PROVE  BmpInv'
  BY <1>1, EnterHolds, ReadersAreProcs DEF Probe
<1>2. ASSUME NEW p \in Procs, Call(p)
      PROVE  BmpInv'
  BY <1>2, EnterHolds DEF Call, BmpInv, Typed
<1>3. ASSUME NEW p \in Procs, SetUnit(p) \/ Step(p)
      PROVE  BmpInv'
  BY <1>3, SetUnitHolds, AskHolds, PerformHolds, AnswerHolds, LeaveHolds DEF Step
<1>4. CASE Measure \/ Unplug
  BY <1>4, MeasureHolds, UnplugHolds
<1>5. CASE Plug
  BY <1>5, IdleHolds DEF Plug, busVars
<1>6. CASE UNCHANGED vars
  BY <1>6, IdleHolds DEF vars, BmpInv, Typed
<1> QED
  BY <1>1, <1>2, <1>3, <1>4, <1>5, <1>6 DEF Next

LEMMA BmpAlways == Spec => []BmpInv
BY InitHolds, NextHolds, PTL DEF Spec

(* With any number of processes, whatever fails or is unplugged: registers *)
(* get bytes only, and an operation makes the accesses of its list.        *)
THEOREM TypeCorrect == Spec => []TypeOK
BY BmpAlways, TypesHold, PTL

(* A temperature is made of bytes that the sensor showed during that read. *)
THEOREM ReadingsAreSeen == Spec => []ReadingSeen
<1>1. BmpInv => ReadingSeen
  BY DEF BmpInv
<1> QED
  BY <1>1, BmpAlways, PTL

(* An open that returns has found a BMP280.                                *)
THEOREM OpensAreChecked == Spec => []OpenChecked
<1>1. BmpInv => OpenChecked
  BY DEF BmpInv
<1> QED
  BY <1>1, BmpAlways, PTL

(* An ioctl that returns 0 has had its register written with its value.    *)
THEOREM IoctlsAreDone == Spec => []IoctlDone
<1>1. BmpInv => IoctlDone
  BY DEF BmpInv
<1> QED
  BY <1>1, BmpAlways, PTL

-----------------------------------------------------------------------------
(* The probe                                                               *)

Probing(p) == op[p] # None /\ op[p].name = "init"

(* Until the probe has ended there is no other operation.                  *)
OneProbe ==
    /\ \A p, q \in Procs : Probing(p) /\ op[q] # None => p = q
    /\ \A p \in Procs : Probing(p) => driver = "probing"
    /\ driver # "up" => \A p \in Procs : op[p] # None => Probing(p)

CalKept == \A i \in 1..6 : mem[CalRegs[i]] = Trim[i]

(* The second to seventh accesses read the calibration.                    *)
ProbeTold ==
    \A p \in Procs : \A i \in 1..6 : Probing(p) =>
        /\ i + 1 <= Len(got[p]) /\ got[p][i + 1] # Err => got[p][i + 1] = Trim[i]
        /\ p \in active /\ did[p] # None /\ Len(got[p]) = i => did[p][2] = Trim[i]

FreqSet == mem[BMP280_REG_CONFIG] = FreqValue(FREQ_1)
ModeSet == mem[BMP280_REG_CTRL_MEAS] = ModeValue(NORMAL)

(* The last two accesses write, and what they have written stays until the *)
(* sensor is unplugged.                                                    *)
ProbeSet ==
    \A p \in Procs : Probing(p) /\ seen[p] = {} =>
        /\ 8 <= Len(got[p]) /\ got[p][8] # Err => FreqSet
        /\ 9 <= Len(got[p]) /\ got[p][9] # Err => ModeSet
        /\ p \in active /\ did[p] # None =>
             /\ Len(got[p]) = 7 => FreqSet
             /\ Len(got[p]) = 8 => ModeSet

ProbeInv == OneProbe /\ CalKept /\ ProbeTold /\ ProbeSet

LEMMA PowerOnCal == \A i \in 1..6 : PowerOn[CalRegs[i]] = Trim[i]
<1> SUFFICES ASSUME NEW i \in 1..6
             PROVE  PowerOn[CalRegs[i]] = Trim[i]
  OBVIOUS
<1>1. CalRegs[i] \in RangeOf(CalRegs) /\ CalRegs[i] \in Registers
  BY Regs DEF RangeOf, Registers
<1>2. CalRegs[i] # BMP280_REG_ID /\ CalRegs[i] # TempRegs[1]
  BY Regs DEF BMP280_REG_ID
<1>3. (CHOOSE j \in 1..6 : CalRegs[j] = CalRegs[i]) = i
  <2>1. \A j \in 1..6 : CalRegs[j] = CalRegs[i] => j = i
    BY Regs
  <2> QED
    BY <2>1
<1> QED
  BY <1>1, <1>2, <1>3 DEF PowerOn

LEMMA ProbeInit == Init => ProbeInv
BY PowerOnCal DEF Init, ProbeInv, OneProbe, CalKept, ProbeTold, ProbeSet, Probing

(* The access that is on the bus during a probe.                           *)
LEMMA ProbeAccess ==
    ASSUME BmpInv, NEW p \in active, Probing(p)
    PROVE  LET n == Len(got[p])
           IN  /\ n \in 0..8
               /\ n = 0 => req[p] = Read(BMP280_REG_ID)
               /\ \A i \in 1..6 : n = i => req[p] = Read(CalRegs[i])
               /\ n = 7 => req[p] = bmp280_set_frequency(FREQ_1)
               /\ n = 8 => req[p] = bmp280_set_mode(NORMAL)
<1> USE DEF BmpInv
<1>1. /\ p \in Procs /\ op[p] # None /\ ~Complete(op[p], got[p])
      /\ req[p] = Accesses(op[p])[Len(got[p]) + 1]
  BY DEF Asked
<1>2. /\ op[p].name = "init" /\ Len(Accesses(op[p])) = 9
      /\ Len(got[p]) \in Nat /\ Len(got[p]) + 1 \in 1..Len(Accesses(op[p]))
  <2>1. op[p].name = "init" /\ Len(Accesses(op[p])) = 9
    BY InitList DEF Probing
  <2>2. Len(got[p]) + 1 \in 1..Len(Accesses(op[p]))
    BY <1>1, NextAccess
  <2>3. Len(got[p]) \in Nat
    BY <1>1 DEF GotBytes
  <2> QED
    BY <2>1, <2>2, <2>3
<1>3. Len(got[p]) \in 0..8
  <2>1. \A n \in Nat : n + 1 \in 1..9 => n \in 0..8
    OBVIOUS
  <2> QED
    BY <1>2, <2>1
<1>4. \A n \in Nat : /\ n = 0 => n + 1 = 1
                     /\ n = 7 => n + 1 = 8
                     /\ n = 8 => n + 1 = 9
  OBVIOUS
<1>5. /\ Accesses(op[p])[1] = Read(BMP280_REG_ID)
      /\ \A i \in 1..6 : Accesses(op[p])[i + 1] = Read(CalRegs[i])
      /\ Accesses(op[p])[8] = bmp280_set_frequency(FREQ_1)
      /\ Accesses(op[p])[9] = bmp280_set_mode(NORMAL)
  BY <1>2, InitList
<1> QED
  BY <1>1, <1>2, <1>3, <1>4, <1>5

LEMMA EnterProbe ==
    ASSUME BmpInv, ProbeInv, NEW p \in Procs, NEW o, Enter(p, o),
           \/ driver \in {"off", "failed"} /\ o.name = "init" /\ driver' = "probing"
           \/ driver = "up" /\ o.name # "init" /\ driver' = driver
    PROVE  ProbeInv'
<1> USE DEF ProbeInv
<1>1. /\ op[p] = None /\ got'[p] = <<>> /\ p \notin active
      /\ \A q \in Procs \ {p} : op'[q] = op[q] /\ got'[q] = got[q]
      /\ op'[p] = o
      /\ UNCHANGED <<mem, active, did>>
  BY DEF Enter, busVars, BmpInv, Typed, GotBytes, Asked
<1>2. \A q \in Procs : ~Probing(q)
  BY <1>1 DEF OneProbe, Probing
<1>3. \A q \in Procs : Probing(q)' => q = p
  BY <1>1, <1>2 DEF Probing
<1>4. OneProbe'
  BY <1>1, <1>2 DEF OneProbe, Probing
<1>5. CalKept'
  BY <1>1 DEF CalKept
<1>6. ProbeTold' /\ ProbeSet'
  <2>1. Len(got'[p]) = 0
    BY <1>1
  <2> QED
    BY <1>1, <1>3, <2>1 DEF ProbeTold, ProbeSet
<1> QED
  BY <1>4, <1>5, <1>6

(* Steps that leave the operations alone.                                  *)
LEMMA OneProbeStays ==
    ASSUME OneProbe, UNCHANGED <<op, driver>>
    PROVE  OneProbe' /\ \A q \in Procs : Probing(q)' <=> Probing(q)
BY DEF OneProbe, Probing

LEMMA AskProbe ==
    ASSUME BmpInv, ProbeInv, NEW p \in Procs, Ask(p)
    PROVE  ProbeInv'
<1> USE DEF ProbeInv
<1>1. /\ did'[p] = None /\ \A q \in Procs \ {p} : did'[q] = did[q]
      /\ active' = active \cup {p}
      /\ UNCHANGED <<mem, op, driver, got, seen>>
  BY DEF Ask, Bus!Ask, BmpInv, Typed
<1>2. OneProbe' /\ \A q \in Procs : Probing(q)' <=> Probing(q)
  BY <1>1, OneProbeStays
<1>3. CalKept'
  BY <1>1 DEF CalKept
<1>4. \A q \in Procs : q \in active' /\ did'[q] # None
                       => q \in active /\ did[q] # None /\ did'[q] = did[q]
  BY <1>1
<1>5. ProbeTold'
  <2>1. ASSUME NEW q \in Procs, NEW i \in 1..6, Probing(q)'
        PROVE  /\ i + 1 <= Len(got'[q]) /\ got'[q][i + 1] # Err
                     => got'[q][i + 1] = Trim[i]
               /\ q \in active' /\ did'[q] # None /\ Len(got'[q]) = i
                     => did'[q][2] = Trim[i]
    <3>1. Probing(q) /\ got'[q] = got[q]
      BY <1>1, <1>2, <2>1
    <3>2. /\ i + 1 <= Len(got[q]) /\ got[q][i + 1] # Err => got[q][i + 1] = Trim[i]
          /\ q \in active /\ did[q] # None /\ Len(got[q]) = i => did[q][2] = Trim[i]
      BY <3>1 DEF ProbeTold
    <3> QED
      BY <1>4, <3>1, <3>2
  <2> QED
    BY <2>1, ZenonT(30) DEF ProbeTold
<1>6. ProbeSet'
  <2>1. FreqSet' = FreqSet /\ ModeSet' = ModeSet
    BY <1>1 DEF FreqSet, ModeSet
  <2>2. got' = got /\ seen' = seen
    BY <1>1
  <2>3. ASSUME NEW q \in Procs, Probing(q), seen[q] = {}
        PROVE  /\ 8 <= Len(got[q]) /\ got[q][8] # Err => FreqSet
               /\ 9 <= Len(got[q]) /\ got[q][9] # Err => ModeSet
               /\ q \in active' /\ did'[q] # None =>
                    /\ Len(got[q]) = 7 => FreqSet
                    /\ Len(got[q]) = 8 => ModeSet
    <3>1. /\ 8 <= Len(got[q]) /\ got[q][8] # Err => FreqSet
          /\ 9 <= Len(got[q]) /\ got[q][9] # Err => ModeSet
          /\ q \in active /\ did[q] # None =>
               /\ Len(got[q]) = 7 => FreqSet
               /\ Len(got[q]) = 8 => ModeSet
      BY <2>3 DEF ProbeSet
    <3> QED
      BY <1>4, <3>1
  <2>4. ASSUME NEW q \in Procs, Probing(q)', seen'[q] = {}
        PROVE  /\ 8 <= Len(got'[q]) /\ got'[q][8] # Err => FreqSet'
               /\ 9 <= Len(got'[q]) /\ got'[q][9] # Err => ModeSet'
               /\ q \in active' /\ did'[q] # None =>
                    /\ Len(got'[q]) = 7 => FreqSet'
                    /\ Len(got'[q]) = 8 => ModeSet'
    <3>1. Probing(q) /\ seen[q] = {} /\ got'[q] = got[q]
      BY <1>2, <2>2, <2>4
    <3> QED
      BY <2>1, <2>3, <3>1, ZenonT(30)
  <2> QED
    BY <2>4, ZenonT(30) DEF ProbeSet
<1> QED
  BY <1>2, <1>3, <1>5, <1>6

LEMMA PerformProbe ==
    ASSUME BmpInv, ProbeInv, NEW p \in Procs, Perform(p)
    PROVE  ProbeInv'
<1> USE DEF ProbeInv
<1>1. /\ p \in active /\ did[p] = None /\ op[p] # None
      /\ \A q \in Procs \ {p} : did'[q] = did[q]
      /\ UNCHANGED <<active, op, driver, got, seen>>
  BY DEF Perform, Bus!PerformRead, Bus!PerformWrite, BmpInv, Typed, Asked
<1>2. OneProbe' /\ \A q \in Procs : Probing(q)' <=> Probing(q)
  BY <1>1, OneProbeStays
<1>3. \A q \in Procs : Probing(q) => q = p
  BY <1>1 DEF OneProbe
<1>4. \/ /\ req[p].op = "write" /\ WriteOf(req[p])
         /\ mem' = [mem EXCEPT ![req[p].reg] = req[p].val]
      \/ /\ req[p].op = "read" /\ mem' = mem
         /\ did'[p] = <<req[p].reg, mem[req[p].reg]>>
  <2>1. ReadOf(req[p]) \/ WriteOf(req[p])
    BY <1>1, NextAccess DEF BmpInv, Asked
  <2>2. CASE Bus!PerformWrite(p)
    BY <2>1, <2>2 DEF Bus!PerformWrite, Bus!Writes, ReadOf
  <2>3. CASE Bus!PerformRead(p)
    BY <2>1, <2>3 DEF Bus!PerformRead, Bus!Reads, WriteOf, BmpInv, Typed
  <2> QED
    BY <2>2, <2>3 DEF Perform
<1>5. CalKept'
  <2>1. \A i \in 1..6 : CalRegs[i] # BMP280_REG_CONFIG /\ CalRegs[i] # BMP280_REG_CTRL_MEAS
    BY Regs DEF BMP280_REG_CONFIG, BMP280_REG_CTRL_MEAS
  <2>2. \A i \in 1..6 : CalRegs[i] \in Registers
    BY Regs DEF RangeOf, Registers
  <2>3. CASE mem' = mem
    BY <2>3 DEF CalKept
  <2>4. CASE WriteOf(req[p]) /\ mem' = [mem EXCEPT ![req[p].reg] = req[p].val]
    <3>1. req[p].reg \in {BMP280_REG_CONFIG, BMP280_REG_CTRL_MEAS}
      BY <2>4 DEF WriteOf
    <3>2. DOMAIN mem = Registers
      BY DEF BmpInv, Typed
    <3>3. \A i \in 1..6 : mem'[CalRegs[i]] = mem[CalRegs[i]]
      BY <2>1, <2>2, <2>4, <3>1, <3>2
    <3> QED
      BY <3>3 DEF CalKept
  <2> QED
    BY <1>4, <2>3, <2>4
<1>6. CASE ~Probing(p)
  BY <1>2, <1>3, <1>5, <1>6 DEF ProbeTold, ProbeSet
<1>7. CASE Probing(p)
  <2> DEFINE n == Len(got[p])
  <2>0. \A k \in 0..8 : (8 <= k => k = 8) /\ ~(9 <= k)
    OBVIOUS
  <2>1. /\ n \in 0..8 /\ n = Len(got'[p])
        /\ 8 <= n => n = 8
        /\ ~(9 <= n)
    BY <1>1, <1>7, <2>0, ProbeAccess
  <2>2. ASSUME NEW i \in 1..6, n = i
        PROVE  did'[p][2] = Trim[i]
    <3>0. req[p] = Read(CalRegs[i])
      BY <1>1, <1>7, <2>2, ProbeAccess
    <3>1. req[p].op = "read" /\ req[p].reg = CalRegs[i]
      BY <3>0 DEF Read
    <3>2. did'[p] = <<req[p].reg, mem[req[p].reg]>>
      BY <1>4, <3>1
    <3> QED
      BY <3>1, <3>2 DEF CalKept
  <2>3. n = 7 => FreqSet'
    <3>1. ASSUME n = 7
          PROVE  FreqSet'
      <4>1. req[p] = Write(BMP280_REG_CONFIG, FreqValue(FREQ_1))
        BY <1>1, <1>7, <3>1, ProbeAccess DEF bmp280_set_frequency
      <4>2. /\ req[p].op = "write" /\ req[p].reg = BMP280_REG_CONFIG
            /\ req[p].val = FreqValue(FREQ_1)
        BY <4>1 DEF Write
      <4> QED
        BY <1>4, <4>2 DEF FreqSet, BmpInv, Typed, Registers
    <3> QED
      BY <3>1
  <2>4. n = 8 => ModeSet' /\ mem'[BMP280_REG_CONFIG] = mem[BMP280_REG_CONFIG]
    <3>1. ASSUME n = 8
          PROVE  ModeSet' /\ mem'[BMP280_REG_CONFIG] = mem[BMP280_REG_CONFIG]
      <4>1. req[p] = Write(BMP280_REG_CTRL_MEAS, ModeValue(NORMAL))
        BY <1>1, <1>7, <3>1, ProbeAccess DEF bmp280_set_mode
      <4>2. /\ req[p].op = "write" /\ req[p].reg = BMP280_REG_CTRL_MEAS
            /\ req[p].val = ModeValue(NORMAL)
        BY <4>1 DEF Write
      <4>3. BMP280_REG_CTRL_MEAS # BMP280_REG_CONFIG
        BY DEF BMP280_REG_CTRL_MEAS, BMP280_REG_CONFIG
      <4> QED
        BY <1>4, <4>2, <4>3 DEF ModeSet, BmpInv, Typed, Registers
    <3> QED
      BY <3>1
  <2> HIDE DEF n
  <2>5. ProbeTold'
    BY <1>1, <1>2, <1>3, <2>1, <2>2 DEF ProbeTold, n
  <2>6. ProbeSet'
    <3>1. seen[p] = {} /\ 8 <= n /\ got[p][8] # Err => FreqSet'
      BY <1>7, <2>1, <2>4 DEF ProbeSet, FreqSet, n
    <3> QED
      BY <1>1, <1>2, <1>3, <2>1, <2>3, <2>4, <3>1 DEF ProbeSet, n
  <2> QED
    BY <1>2, <1>5, <2>5, <2>6
<1> QED
  BY <1>6, <1>7

LEMMA AnswerProbe ==
    ASSUME BmpInv, ProbeInv, NEW p \in Procs, Answer(p)
    PROVE  ProbeInv'
<1> USE DEF ProbeInv
<1> DEFINE n == Len(got[p])
           r == res'[p]
<1>1. /\ p \in active /\ active' = active \ {p} /\ op[p] # None
      /\ got' = [got EXCEPT ![p] = Append(@, r)]
      /\ UNCHANGED <<mem, did, op, driver, seen>>
  BY DEF Answer, Bus!Succeed, Bus!Refuse, BmpInv, Asked
<1>2. OneProbe' /\ \A q \in Procs : Probing(q)' <=> Probing(q)
  BY <1>1, OneProbeStays
<1>3. \A q \in Procs : Probing(q) => q = p
  BY <1>1 DEF OneProbe
<1>4. CalKept'
  BY <1>1 DEF CalKept
<1>5. CASE ~Probing(p)
  BY <1>2, <1>3, <1>4, <1>5 DEF ProbeTold, ProbeSet
<1>6. CASE Probing(p)
  <2>1. n \in 0..8 /\ got[p] \in Seq(BytesOrErr)
    BY <1>1, <1>6, ProbeAccess DEF BmpInv, GotBytes
  <2>2. r # Err => did[p] # None /\ (req[p] \in Bus!Reads => r = did[p][2])
    BY DEF Answer, Bus!Succeed, Bus!Refuse, Bus!Err, Err, BmpInv, Typed
  <2>3. r \in BytesOrErr
    <3>1. DOMAIN res = Procs /\ 0 \in Bytes
      BY DEF BmpInv, Typed, Bytes
    <3>2. CASE Bus!Succeed(p)
      <4>1. did[p][2] \in Bytes
        BY <1>1, <3>2 DEF Bus!Succeed, BmpInv, Performed, Did
      <4> QED
        BY <3>1, <3>2, <4>1 DEF Bus!Succeed, BytesOrErr
    <3>3. CASE Bus!Refuse(p)
      BY <3>1, <3>3 DEF Bus!Refuse, Bus!Err, Err, BytesOrErr
    <3> QED
      BY <3>2, <3>3 DEF Answer
  <2> HIDE DEF r
  <2>4. /\ got'[p] = Append(got[p], r) /\ Len(got'[p]) = n + 1 /\ got'[p][n + 1] = r
        /\ \A i \in 1..n : got'[p][i] = got[p][i]
    BY <1>1, <2>1, <2>3 DEF BmpInv, GotBytes
  <2>5. ASSUME NEW i \in 1..6, n = i, r # Err
        PROVE  r = Trim[i]
    <3>1. req[p] = Read(CalRegs[i])
      BY <1>1, <1>6, <2>5, ProbeAccess
    <3>2. CalRegs[i] \in Registers
      BY Regs DEF RangeOf, Registers
    <3>3. req[p] \in Bus!Reads
      BY <3>1, <3>2, ReadIsRead DEF ReadOf
    <3> QED
      BY <1>1, <1>6, <2>2, <2>5, <3>3 DEF ProbeTold
  <2> HIDE DEF n
  <2>6. ASSUME NEW i \in 1..6, i + 1 <= n + 1, got'[p][i + 1] # Err
        PROVE  got'[p][i + 1] = Trim[i]
    <3>1. CASE i = n
      BY <2>4, <2>5, <2>6, <3>1
    <3>2. CASE i # n
      <4>1. i + 1 \in 1..n /\ i + 1 <= n
        BY <2>1, <2>6, <3>2
      <4>2. got'[p][i + 1] = got[p][i + 1]
        BY <2>4, <4>1
      <4> QED
        BY <1>6, <2>6, <4>1, <4>2 DEF ProbeTold, n
    <3> QED
      BY <3>1, <3>2
  <2>7. ProbeTold'
    BY <1>1, <1>2, <1>3, <2>4, <2>6 DEF ProbeTold
  <2>8. ASSUME seen[p] = {}, 8 <= n + 1, got'[p][8] # Err
        PROVE  FreqSet
    <3>1. CASE n = 7
      BY <1>1, <1>6, <2>2, <2>4, <2>8, <3>1 DEF ProbeSet, n
    <3>2. CASE n # 7
      <4>1. 8 \in 1..n /\ 8 <= n
        BY <2>1, <2>8, <3>2
      <4>2. got'[p][8] = got[p][8]
        BY <2>4, <4>1
      <4> QED
        BY <1>6, <2>8, <4>1, <4>2 DEF ProbeSet, n
    <3> QED
      BY <3>1, <3>2
  <2>9. ASSUME seen[p] = {}, 9 <= n + 1, got'[p][9] # Err
        PROVE  ModeSet
    <3>1. n = 8
      BY <2>1, <2>9
    <3> QED
      BY <1>1, <1>6, <2>2, <2>4, <2>9, <3>1 DEF ProbeSet, n
  <2>10. ProbeSet'
    <3>1. FreqSet' = FreqSet /\ ModeSet' = ModeSet
      BY <1>1 DEF FreqSet, ModeSet
    <3> QED
      BY <1>1, <1>2, <1>3, <2>4, <2>8, <2>9, <3>1 DEF ProbeSet
  <2> QED
    BY <1>2, <1>4, <2>7, <2>10
<1> QED
  BY <1>5, <1>6

LEMMA LeaveProbe ==
    ASSUME BmpInv, ProbeInv, NEW p \in Procs, Leave(p)
    PROVE  ProbeInv'
<1> USE DEF ProbeInv
<1>1. /\ op[p] # None /\ op'[p] = None
      /\ \A q \in Procs \ {p} : op'[q] = op[q] /\ got'[q] = got[q]
      /\ UNCHANGED <<mem, active, did, seen>>
      /\ op[p].name # "init" => driver' = driver
  BY DEF Leave, busVars, BmpInv, Typed, GotBytes
<1>2. \A q \in Procs : Probing(q)' => Probing(q) /\ q # p
  BY <1>1 DEF Probing
<1>3. \A q \in Procs : ~Probing(q)'
  BY <1>1, <1>2 DEF OneProbe
<1>4. OneProbe'
  <2>1. CASE Probing(p)
    BY <1>1, <1>3, <2>1 DEF OneProbe
  <2>2. CASE ~Probing(p)
    <3>1. driver = "up" /\ driver' = driver
      BY <1>1, <2>2 DEF OneProbe, Probing
    <3> QED
      BY <1>3, <3>1 DEF OneProbe
  <2> QED
    BY <2>1, <2>2
<1>5. CalKept'
  BY <1>1 DEF CalKept
<1> QED
  BY <1>3, <1>4, <1>5 DEF ProbeTold, ProbeSet

LEMMA MeasureProbe ==
    ASSUME BmpInv, ProbeInv, Measure
    PROVE  ProbeInv'
<1> USE DEF ProbeInv
<1>1. PICK s \in Samples :
         /\ mem' = [r \in Registers |->
                      IF r \in RangeOf(TempRegs)
                      THEN s[CHOOSE i \in 1..3 : TempRegs[i] = r]
                      ELSE IF r = BMP280_REG_CTRL_MEAS /\ PowerMode # NORMAL
                           THEN mem[r] - PowerMode
                      ELSE mem[r]]
         /\ Show(s, {"read"})
  BY DEF Measure, Measured
<1>2. UNCHANGED <<active, did, op, driver, got>>
  BY DEF Measure
<1>3. OneProbe' /\ \A q \in Procs : Probing(q)' <=> Probing(q)
  BY <1>2, OneProbeStays
<1>4. \A q \in Procs : seen'[q] = {} => seen[q] = {}
  BY <1>1 DEF Show
<1>5. CalKept'
  <2>1. \A i \in 1..6 : /\ CalRegs[i] \in Registers /\ CalRegs[i] \notin RangeOf(TempRegs)
                        /\ CalRegs[i] # BMP280_REG_CTRL_MEAS
    BY Regs DEF RangeOf, Registers, BMP280_REG_CTRL_MEAS
  <2>2. \A i \in 1..6 : mem'[CalRegs[i]] = mem[CalRegs[i]]
    BY <1>1, <2>1
  <2> QED
    BY <2>2 DEF CalKept
<1>6. FreqSet => FreqSet'
  <2>1. /\ BMP280_REG_CONFIG \in Registers /\ BMP280_REG_CONFIG \notin RangeOf(TempRegs)
        /\ BMP280_REG_CONFIG # BMP280_REG_CTRL_MEAS
    BY Regs DEF Registers, BMP280_REG_CONFIG, BMP280_REG_CTRL_MEAS
  <2> QED
    BY <1>1, <2>1 DEF FreqSet
<1>7. ModeSet => ModeSet'
  <2>1. BMP280_REG_CTRL_MEAS \in Registers /\ BMP280_REG_CTRL_MEAS \notin RangeOf(TempRegs)
    BY Regs DEF Registers, BMP280_REG_CTRL_MEAS
  <2>2. ModeValue(NORMAL) % 4 = NORMAL
    BY DEF ModeValue, OrBit5, U8, NORMAL
  <2> QED
    BY <1>1, <2>1, <2>2 DEF ModeSet, PowerMode
<1>8. ProbeTold'
  BY <1>2, <1>3 DEF ProbeTold
<1>9. ProbeSet'
  BY <1>2, <1>3, <1>4, <1>6, <1>7 DEF ProbeSet
<1> QED
  BY <1>3, <1>5, <1>8, <1>9

LEMMA UnplugProbe ==
    ASSUME BmpInv, ProbeInv, Unplug
    PROVE  ProbeInv'
<1> USE DEF ProbeInv
<1>1. /\ mem' = PowerOn /\ UNCHANGED <<active, did, op, driver, got>>
      /\ Show([i \in 1..3 |-> PowerOn[TempRegs[i]]], {"read", "init"})
  BY DEF Unplug
<1>2. OneProbe' /\ \A q \in Procs : Probing(q)' <=> Probing(q)
  BY <1>1, OneProbeStays
<1>3. CalKept'
  BY <1>1, PowerOnCal DEF CalKept
<1>4. ProbeTold'
  BY <1>1, <1>2 DEF ProbeTold
<1>5. \A q \in Procs : Probing(q) => seen'[q] # {}
  BY <1>1 DEF Show, Probing
<1> QED
  BY <1>2, <1>3, <1>4, <1>5 DEF ProbeSet

LEMMA IdleProbe ==
    ASSUME ProbeInv, UNCHANGED <<mem, active, did, driver, op, got, seen>>
    PROVE  ProbeInv'
<1>1. OneProbe' /\ \A q \in Procs : Probing(q)' <=> Probing(q)
  BY OneProbeStays DEF ProbeInv
<1> QED
  BY <1>1 DEF ProbeInv, CalKept, ProbeTold, ProbeSet, FreqSet, ModeSet

LEMMA ProbeNext ==
    ASSUME BmpInv, ProbeInv, [Next]_vars
    PROVE  ProbeInv'
<1>1. ASSUME NEW p \in Readers, Probe(p)
      PROVE  ProbeInv'
  BY <1>1, EnterProbe, ReadersAreProcs DEF Probe, Operation
<1>2. ASSUME NEW p \in Procs, Call(p)
      PROVE  ProbeInv'
  <2>1. \A o \in Operations(p) : o.name # "init"
    BY DEF Operations, Operation
  <2> QED
    BY <1>2, <2>1, EnterProbe DEF Call
<1>3. ASSUME NEW p \in Procs, SetUnit(p)
      PROVE  ProbeInv'
  BY <1>3, IdleProbe DEF SetUnit, busVars
<1>4. ASSUME NEW p \in Procs, Step(p)
      PROVE  ProbeInv'
  BY <1>4, AskProbe, PerformProbe, AnswerProbe, LeaveProbe DEF Step
<1>5. CASE Measure \/ Unplug
  BY <1>5, MeasureProbe, UnplugProbe
<1>6. CASE Plug \/ UNCHANGED vars
  BY <1>6, IdleProbe DEF Plug, busVars, vars
<1> QED
  BY <1>1, <1>2, <1>3, <1>4, <1>5, <1>6 DEF Next

(* The end of a probe of which no access has failed.                       *)
LEMMA ProbeConfigures ==
    ASSUME BmpInv, ProbeInv, NEW p \in Procs, Leave(p), Probing(p), driver' = "up",
           seen[p] = {}, \A i \in DOMAIN got[p] : got[p][i] # Err
    PROVE  Configured(cal')
<1> USE DEF ProbeInv
<1>1. mem' = mem /\ Complete(op[p], got[p])
  BY DEF Leave, busVars
<1>2. Succeeds(op[p], got[p])
  BY DEF Leave, Probing
<1>3. cal' = [i \in 1..3 |-> Word(got[p][2*i], got[p][2*i + 1])]
  BY <1>2 DEF Leave, Probing
<1>4. Len(got[p]) = 9 /\ DOMAIN got[p] = 1..9
  <2>1. ~Stops(op[p], got[p])
    BY <1>2 DEF Stops, Succeeds, Probing
  <2>2. got[p] \in Seq(BytesOrErr)
    BY DEF BmpInv, GotBytes
  <2> QED
    <3>1. Len(Accesses(op[p])) = 9
      BY InitList DEF Probing
    <3>2. Len(got[p]) = 9
      BY <1>1, <2>1, <3>1 DEF Complete
    <3> QED
      BY <2>2, <3>2
<1>5. ASSUME NEW i \in 1..6
      PROVE  got[p][i + 1] = Trim[i]
  <2>1. i + 1 <= Len(got[p]) /\ i + 1 \in 1..9
    BY <1>4
  <2>2. got[p][i + 1] # Err
    BY <1>4, <2>1
  <2> QED
    BY <2>1, <2>2 DEF ProbeTold
<1>6. cal'[1] = Word(Trim[1], Trim[2]) /\ cal'[2] = Word(Trim[3], Trim[4])
      /\ cal'[3] = Word(Trim[5], Trim[6])
  <2>1. got[p][2] = Trim[1] /\ got[p][3] = Trim[2] /\ got[p][4] = Trim[3]
        /\ got[p][5] = Trim[4] /\ got[p][6] = Trim[5] /\ got[p][7] = Trim[6]
    BY <1>5
  <2>2. cal'[1] = Word(got[p][2], got[p][3]) /\ cal'[2] = Word(got[p][4], got[p][5])
        /\ cal'[3] = Word(got[p][6], got[p][7])
    BY <1>3
  <2> QED
    BY <2>1, <2>2
<1>7. \A m, l \in Bytes : Word(m, l) = m * 256 + l
  BY DEF Word, Bytes, Err
<1>8. \A i \in 1..3 : cal'[i] = Trim[2*i - 1] * 256 + Trim[2*i]
  BY <1>6, <1>7, TrimIsBytes
<1>9. FreqSet /\ ModeSet
  <2>1. 8 <= Len(got[p]) /\ 9 <= Len(got[p])
    BY <1>4
  <2>2. got[p][8] # Err /\ got[p][9] # Err
    BY <1>4
  <2> QED
    BY <2>1, <2>2, ZenonT(30) DEF ProbeSet
<1> QED
  BY <1>8, <1>9 DEF Configured, FreqSet, ModeSet

(* A probe of which no access failed, and during which the sensor was not  *)
(* unplugged, ends with the sensor's calibration and with the sensor       *)
(* measuring at the driver's frequency.                                    *)
THEOREM ProbesConfigure == Spec => InitConfigures
<1>1. ASSUME BmpInv, ProbeInv, [Next]_vars,
             NEW p \in Readers, Probed(p), seen[p] = {},
             \A i \in DOMAIN got[p] : got[p][i] # Err
      PROVE  Configured(cal')
  <2>1. p \in Procs /\ Probing(p)
    BY <1>1, ReadersAreProcs DEF Probed, Probing
  <2>2. op'[p] # op[p]
    BY <1>1 DEF Probed
  <2>3. Leave(p)
    <3>1. ASSUME NEW q \in Procs, NEW o, Enter(q, o)
          PROVE  op'[p] = op[p]
      BY <2>1, <3>1 DEF Enter, Probing, BmpInv, Typed
    <3>2. ASSUME NEW q \in Procs, q # p, Leave(q)
          PROVE  op'[p] = op[p]
      BY <2>1, <3>2 DEF Leave, BmpInv, Typed
    <3>3. ASSUME NEW q \in Procs, SetUnit(q) \/ Ask(q) \/ Perform(q) \/ Answer(q)
          PROVE  op'[p] = op[p]
      BY <3>3 DEF SetUnit, Ask, Perform, Answer
    <3>4. Measure \/ Unplug \/ Plug \/ UNCHANGED vars => op'[p] = op[p]
      BY DEF Measure, Unplug, Plug, vars
    <3> QED
      BY <1>1, <2>1, <2>2, <3>1, <3>2, <3>3, <3>4, ReadersAreProcs
         DEF Next, Step, Probe, Call
  <2> QED
    BY <1>1, <2>1, <2>3, ProbeConfigures DEF Probed
<1>2. BmpInv /\ ProbeInv /\ [Next]_vars
        => [\A p \in Readers :
              Probed(p) /\ seen[p] = {} /\ (\A i \in DOMAIN got[p] : got[p][i] # Err)
                => Configured(cal')]_vars
  BY <1>1
<1>3. BmpInv /\ ProbeInv /\ [Next]_vars => ProbeInv'
  BY ProbeNext
<1> QED
  BY <1>2, <1>3, ProbeInit, BmpAlways, PTL DEF Spec, InitConfigures
=============================================================================
