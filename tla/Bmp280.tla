------------------------------- MODULE Bmp280 -------------------------------
(***************************************************************************)
(* The temperature sensor and the char device in front of it:              *)
(* bmp280_driver/src/bmp280.c and the file operations of char_device.c.    *)
(*                                                                         *)
(* Every operation is a short list of register accesses.  The bus is       *)
(* RegisterBus, which CottiI2C implements: an access takes effect in one   *)
(* step, but between two accesses of an operation the sensor goes on       *)
(* measuring, other processes use the bus, and the sensor can be unplugged *)
(* and plugged in again, as user_test.c asks its user to do.               *)
(***************************************************************************)
EXTENDS Bmp280Registers, Integers, Sequences

CONSTANTS
    Procs,      \* processes that use /dev/temp-sensor
    Readers,    \* those of them that open and read it
    Ints,       \* what they pass to ioctl as a mode or a frequency
    Units,      \* the units they choose (of bmp280_unit)
    Samples,    \* what the sensor may measure: <<MSB, LSB, XLSB>>
    Trim,       \* its six calibration bytes, in the order they are read
    Faults,     \* may an access fail though the sensor is there?
    Unplugs,    \* may the sensor be unplugged?
    None

Bytes == 0..255

ASSUME ReadersAreProcs == Readers \subseteq Procs
ASSUME IntsAreInts     == Ints \subseteq Int
ASSUME UnitsAreKnown   == Units \subseteq {"CELSIUS", "KELVIN", "FAHRENHEIT"}
ASSUME SamplesAreBytes == Samples \subseteq Bytes \X Bytes \X Bytes
ASSUME TrimIsBytes     == Trim \in [1..6 -> Bytes]

VARIABLES
    mem, active, req, did, res,   \* the bus: see RegisterBus
    connected,  \* is the sensor plugged in?
    driver,     \* "off", or what bmp280_init made of it: "up", "failed"
    cal,        \* dig_T1, dig_T2, dig_T3
    unit,       \* g_unit
    op,         \* the operation each process is in
    got,        \* what its accesses have returned so far
    last,       \* its last operation and what that returned
    seen        \* history: the samples there were during its read, and during
                \* its probe those of a sensor that was unplugged

Bus == INSTANCE RegisterBus WITH Byte <- Bytes

busVars == <<mem, active, req, did, res>>
vars == <<mem, active, req, did, res, connected, driver, cal, unit, op, got,
          last, seen>>

Err == -1

-----------------------------------------------------------------------------
(* What the registers hold when the sensor gets its supply.                *)
PowerOn ==
    [r \in Registers |->
       IF r = BMP280_REG_ID THEN BMP280_ID
       ELSE IF r = TempRegs[1] THEN 128
       ELSE IF r \in RangeOf(CalRegs)
            THEN Trim[CHOOSE i \in 1..6 : CalRegs[i] = r]
       ELSE 0]

Current == [i \in 1..3 |-> mem[TempRegs[i]]]

-----------------------------------------------------------------------------
(* The values the driver computes.                                         *)

U8(n) == n % 256                  \* cotti_i2c_write takes a u8

OrBit5(n) == IF (n \div 32) % 2 = 1 THEN n ELSE n + 32

ModeValue(mode) == U8(OrBit5(mode))    \* mode | BMP280_TEMP_OVERSAMPLING_X1

\* The value is not cut to a byte.
FreqValueWide(freq) == freq * 32

FreqValue(freq) == U8(freq * 32)       \* freq << 5

NORMAL == 3
FREQ_1 == 5

\* The bytes are swapped.
WordSwapped(msb, lsb) == IF msb = Err THEN Err ELSE lsb * 256 + msb

(* msb << 8 | lsb, where an access that failed is -1.                      *)
Word(msb, lsb) == IF lsb = Err THEN Err ELSE msb * 256 + lsb

\* The ID is not compared.
IsConnectedAnyId(r) == U8(r) # Err

(* The returned value is stored in a u8 before it is compared with -1: a   *)
(* failed access passes that test, as the ID 255, and fails the next.      *)
bmp280_is_connected(r) == U8(r) # Err /\ U8(r) = BMP280_ID

-----------------------------------------------------------------------------
(* The operations, each with the accesses it makes.                        *)

Operation(name, arg) == [name |-> name, arg |-> arg]

Operations(p) ==
    {Operation(name, n) : name \in {"freq", "mode"}, n \in Ints}
      \cup (IF p \in Readers
            THEN {Operation("open", 0), Operation("read", 0)} ELSE {})

Read(r)     == [op |-> "read", reg |-> r, val |-> None]
Write(r, v) == [op |-> "write", reg |-> r, val |-> v]

bmp280_set_frequency(freq) == Write(BMP280_REG_CONFIG, FreqValue(freq))
bmp280_set_mode(mode)      == Write(BMP280_REG_CTRL_MEAS, ModeValue(mode))

(* The ID, the six bytes of the calibration, and the two settings.         *)
InitAccesses ==
    [i \in 1..9 |-> CASE i = 1    -> Read(BMP280_REG_ID)
                     [] i \in 2..7 -> Read(CalRegs[i - 1])
                     [] i = 8      -> bmp280_set_frequency(FREQ_1)
                     [] i = 9      -> bmp280_set_mode(NORMAL)]

Accesses(o) ==
    CASE o.name = "open" -> <<Read(BMP280_REG_ID)>>
      [] o.name = "read" -> [i \in 1..3 |-> Read(TempRegs[i])]
      [] o.name = "freq" -> <<bmp280_set_frequency(o.arg)>>
      [] o.name = "mode" -> <<bmp280_set_mode(o.arg)>>
      [] o.name = "init" -> InitAccesses

\* Only the first two bytes of a reading are checked.
StopsLastUnchecked(o, g) ==
    \/ o.name = "read" /\ Len(g) \in 1..2 /\ g[Len(g)] = Err
    \/ o.name = "init" /\ Len(g) = 1 /\ ~bmp280_is_connected(g[1])

(* The access that was the last one because of what it returned.           *)
Stops(o, g) ==
    \/ o.name = "read" /\ g # <<>> /\ g[Len(g)] = Err
    \/ o.name = "init" /\ Len(g) = 1 /\ ~bmp280_is_connected(g[1])

Complete(o, g) == Stops(o, g) \/ Len(g) = Len(Accesses(o))

\* The ioctl does not look at what the access returned.
SucceedsUnchecked(o, g) ==
    CASE o.name \in {"init", "open"} -> bmp280_is_connected(g[1])
      [] o.name \in {"freq", "mode"} -> TRUE
      [] o.name = "read" -> ~Stops(o, g)

(* bmp280_init looks at the first of its nine accesses only.               *)
Succeeds(o, g) ==
    CASE o.name \in {"init", "open"} -> bmp280_is_connected(g[1])
      [] o.name \in {"freq", "mode"} -> g[1] = 0
      [] o.name = "read" -> ~Stops(o, g)

Result(o, ret, raw) == [op |-> o, ret |-> ret, raw |-> raw, unit |-> unit]

-----------------------------------------------------------------------------
Init ==
    /\ mem = PowerOn /\ connected = TRUE
    /\ active = {}
    /\ req = [p \in Procs |-> None]
    /\ did = [p \in Procs |-> None]
    /\ res = [p \in Procs |-> Err]
    /\ driver = "off" /\ cal = [i \in 1..3 |-> 0] /\ unit = "CELSIUS"
    /\ op = [p \in Procs |-> None]
    /\ got = [p \in Procs |-> <<>>]
    /\ last = [p \in Procs |-> None]
    /\ seen = [p \in Procs |-> {}]

Enter(p, o) ==
    /\ op[p] = None
    /\ op' = [op EXCEPT ![p] = o]
    /\ got' = [got EXCEPT ![p] = <<>>]
    /\ last' = [last EXCEPT ![p] = None]
    /\ seen' = [seen EXCEPT ![p] = IF o.name = "read" THEN {Current} ELSE {}]
    /\ UNCHANGED <<busVars, connected, cal, unit>>

(* driver_probe: until bmp280_init has returned there is no char device.   *)
Probe(p) ==
    /\ driver \in {"off", "failed"}
    /\ Enter(p, Operation("init", 0))
    /\ driver' = "probing"

Call(p) ==
    /\ driver = "up"
    /\ \E o \in Operations(p) : Enter(p, o)
    /\ UNCHANGED driver

(* bmp280_set_unit makes no access; an unknown unit counts as CELSIUS.     *)
SetUnit(p) ==
    /\ driver = "up" /\ op[p] = None
    /\ unit' \in Units
    /\ last' = [last EXCEPT ![p] = None]
    /\ UNCHANGED <<busVars, connected, driver, cal, op, got, seen>>

Ask(p) ==
    /\ op[p] # None
    /\ ~Complete(op[p], got[p])
    /\ Bus!Ask(p, Accesses(op[p])[Len(got[p]) + 1])
    /\ UNCHANGED <<connected, driver, cal, unit, op, got, last, seen>>

Perform(p) ==
    /\ connected
    /\ Bus!PerformRead(p) \/ Bus!PerformWrite(p)
    /\ UNCHANGED <<connected, driver, cal, unit, op, got, last, seen>>

Answer(p) ==
    /\ Bus!Succeed(p) \/ (Bus!Refuse(p) /\ (Faults \/ ~connected))
    /\ got' = [got EXCEPT ![p] = Append(@, res'[p])]
    /\ UNCHANGED <<connected, driver, cal, unit, op, last, seen>>

Leave(p) ==
    /\ op[p] # None
    /\ p \notin active
    /\ Complete(op[p], got[p])
    /\ op' = [op EXCEPT ![p] = None]
    /\ got' = [got EXCEPT ![p] = <<>>]
    /\ last' = [last EXCEPT ![p] =
                  IF Succeeds(op[p], got[p])
                  THEN Result(op[p], 0, got[p]) ELSE Result(op[p], Err, <<>>)]
    /\ IF op[p].name # "init" THEN UNCHANGED <<driver, cal>>
       ELSE IF ~Succeeds(op[p], got[p])
            THEN driver' = "failed" /\ UNCHANGED cal
       ELSE /\ driver' = "up"
            /\ cal' = [i \in 1..3 |-> Word(got[p][2*i], got[p][2*i + 1])]
    /\ UNCHANGED <<busVars, connected, unit, seen>>

-----------------------------------------------------------------------------
(* The sensor (external).                                                  *)

PowerMode == mem[BMP280_REG_CTRL_MEAS] % 4

(* The history of what the sensor showed during an operation of that name. *)
Show(sample, names) ==
    seen' = [p \in Procs |->
               IF op[p] # None /\ op[p].name \in names THEN seen[p] \cup {sample}
               ELSE seen[p]]

(* A measurement; in forced mode the sensor goes to sleep after it.        *)
Measured(s) ==
    [r \in Registers |->
       IF r \in RangeOf(TempRegs) THEN s[CHOOSE i \in 1..3 : TempRegs[i] = r]
       ELSE IF r = BMP280_REG_CTRL_MEAS /\ PowerMode # NORMAL
            THEN mem[r] - PowerMode
       ELSE mem[r]]

Measure ==
    /\ connected /\ PowerMode # 0
    /\ mem[BMP280_REG_CTRL_MEAS] >= 32
    /\ \E s \in Samples : mem' = Measured(s) /\ Show(s, {"read"})
    /\ UNCHANGED <<active, req, did, res, connected, driver, cal, unit, op,
                   got, last>>

Unplug ==
    /\ Unplugs /\ connected
    /\ connected' = FALSE
    /\ mem' = PowerOn
    /\ Show([i \in 1..3 |-> PowerOn[TempRegs[i]]], {"read", "init"})
    /\ UNCHANGED <<active, req, did, res, driver, cal, unit, op, got, last>>

Plug ==
    /\ ~connected
    /\ connected' = TRUE
    /\ UNCHANGED <<busVars, driver, cal, unit, op, got, last, seen>>

-----------------------------------------------------------------------------
Step(p) == Ask(p) \/ Perform(p) \/ Answer(p) \/ Leave(p)

Next ==
    \/ \E p \in Readers : Probe(p)
    \/ \E p \in Procs : Call(p) \/ SetUnit(p) \/ Step(p)
    \/ Measure \/ Unplug \/ Plug

Spec == Init /\ [][Next]_vars

-----------------------------------------------------------------------------
(* Properties *)

BusTypes ==
    /\ mem \in [Registers -> Bytes]
    /\ active \subseteq Procs
    /\ \A p \in active :
         /\ op[p] # None /\ req[p].reg \in Registers
         /\ req[p].op = "write" => req[p].val \in Bytes

OpTypes ==
    /\ connected \in BOOLEAN /\ unit \in Units \cup {"CELSIUS"}
    /\ driver \in {"off", "probing", "up", "failed"}
    /\ cal \in [1..3 -> Int]
    /\ \A p \in Procs :
         op[p] # None =>
           /\ op[p] \in Operations(p) \cup {Operation("init", 0)}
           /\ Len(got[p]) <= Len(Accesses(op[p]))
           /\ p \in active => Len(got[p]) < Len(Accesses(op[p]))

(* Registers hold bytes and only bytes are written to them, an operation   *)
(* makes no access beyond its list, and the bus is used only from inside   *)
(* an operation.                                                           *)
TypeOK == BusTypes /\ OpTypes

Returned(p, name) ==
    op[p] = None /\ last[p] # None /\ last[p].op.name = name /\ last[p].ret # Err

(* A successful read of the char device is made of three bytes that the    *)
(* sensor showed in those registers while the read was going on: no failed *)
(* access and no older byte goes into a temperature.                       *)
ReadingSeen ==
    \A p \in Procs :
        Returned(p, "read") =>
            /\ Len(last[p].raw) = 3
            /\ \A i \in 1..3 : \E s \in seen[p] : last[p].raw[i] = s[i]

(* The device can be opened only if a BMP280 answered in this very open.   *)
OpenChecked ==
    \A p \in Procs :
        Returned(p, "open") => did[p] = <<BMP280_REG_ID, BMP280_ID>>

(* An ioctl that returns 0 had its register written, with its own value.   *)
IoctlDone ==
    \A p \in Procs :
        /\ Returned(p, "mode") =>
             did[p] = <<BMP280_REG_CTRL_MEAS, ModeValue(last[p].op.arg)>>
        /\ Returned(p, "freq") =>
             did[p] = <<BMP280_REG_CONFIG, FreqValue(last[p].op.arg)>>

Configured(dig) ==
    /\ \A i \in 1..3 : dig[i] = Trim[2*i - 1] * 256 + Trim[2*i]
    /\ mem[BMP280_REG_CONFIG] = FreqValue(FREQ_1)
    /\ mem[BMP280_REG_CTRL_MEAS] = ModeValue(NORMAL)

Probed(p) ==
    /\ op[p] # None /\ op[p].name = "init" /\ op'[p] = None
    /\ driver' = "up"

(* A probe of which no access failed leaves a configured sensor behind,    *)
(* unless it was unplugged meanwhile: the calibration is the sensor's and  *)
(* it measures at the given frequency.                                     *)
InitConfigures ==
    [][\A p \in Readers :
         Probed(p) /\ seen[p] = {} /\ (\A i \in DOMAIN got[p] : got[p][i] # Err)
           => Configured(cal')]_vars

(* bmp280_init returns 0 only if the sensor is found and configured.       *)
InitReturnsZeroIfConfigured ==
    [][\A p \in Readers : Probed(p) => Configured(cal')]_vars
=============================================================================
