----------------------------- MODULE Temperature -----------------------------
(***************************************************************************)
(* From the sensor's raw value to the text that a user program reads: the  *)
(* arithmetic of bmp280_read_temperature and char_device_read in           *)
(* bmp280_driver/, and of read_temperature and driver_read in the examples *)
(* kernel/005_bmp280 and kernel/019_dt_i2c, which do the same work.        *)
(*                                                                         *)
(* Temperatures are hundredths of a degree.  The sensor is in a range      *)
(* where every product fits an s32 (NothingOverflows): the model does not  *)
(* say what overflow does.                                                 *)
(***************************************************************************)
EXTENDS Integers

CONSTANTS
    Versions,   \* of "bmp280_driver" and "kernel", the latter for both examples
    Words,      \* calibrations <<T1, T2, T3>>: 16-bit words of the sensor
    Raws,       \* the 20-bit raw values
    Stride      \* the difference of two values measured one after the other

ASSUME VersionsAreKnown == Versions \subseteq {"bmp280_driver", "kernel"}
ASSUME WordsAre16Bit ==
    Words \subseteq Nat \X Nat \X Nat /\ \A w \in Words, i \in 1..3 : w[i] < 65536
ASSUME RawsAre20Bit  == Raws \subseteq Nat /\ \A r \in Raws : r < 1048576
ASSUME StrideAssumption == Stride \in Nat \ {0}

VARIABLES
    version,    \* which of the programs computes, the same all the time
    words,      \* the calibration of this sensor
    raw,        \* what it measures
    unit        \* g_unit

vars == <<version, words, raw, unit>>

-----------------------------------------------------------------------------
(* C's / and % round towards 0; its >> on a negative number, as gcc has    *)
(* it, rounds down like \div.                                              *)
Quot(a, b) == IF a >= 0 THEN a \div b ELSE -((-a) \div b)
Rem(a, b)  == a - b * Quot(a, b)

(* T2 and T3 are signed 16-bit numbers in the sensor.                      *)
Signed(w) == IF w > 32767 THEN w - 65536 ELSE w

\* T2 and T3 are exchanged.
CalibrationSwapped(v, w) ==
    IF v = "kernel" THEN <<w[1], Signed(w[3]), Signed(w[2])>> ELSE w

(* The examples correct the sign of T2 and T3; the driver keeps the words. *)
Calibration(v, w) ==
    IF v = "kernel" THEN <<w[1], Signed(w[2]), Signed(w[3])>> ELSE w

Compensate(r, dig) ==
    LET d    == r \div 16 - dig[1]
        var1 == ((r \div 8 - 2 * dig[1]) * dig[2]) \div 2048
        var2 == (((d * d) \div 4096) * dig[3]) \div 16384
    IN  ((var1 + var2) * 5 + 128) \div 256

(* What an s32 holds, but for its least number.                            *)
S32Max  == 2147483647
Fits(n) == -S32Max <= n /\ n <= S32Max

(* No product of Compensate overflows.                                     *)
Representable(r, dig) ==
    LET d == r \div 16 - dig[1]
    IN  /\ Fits((r \div 8 - 2 * dig[1]) * dig[2])
        /\ Fits(d * d)
        /\ Fits(((d * d) \div 4096) * dig[3])

ASSUME NothingOverflows ==
    \A v \in Versions, w \in Words, r \in Raws : Representable(r, Calibration(v, w))

Celsius == Compensate(raw, Calibration(version, words))

\* The division comes before the multiplication.
InUnitDividesFirst(temp, u) ==
    CASE u = "FAHRENHEIT" -> Quot(temp, 5) * 9 + 3200
      [] u = "KELVIN"     -> temp + 27315
      [] u = "CELSIUS"    -> temp

InUnit(temp, u) ==
    CASE u = "FAHRENHEIT" -> Quot(temp * 9, 5) + 3200
      [] u = "KELVIN"     -> temp + 27315
      [] u = "CELSIUS"    -> temp

(* The text "%d.%02d" or "%d.%d": the number before the point, the number  *)
(* after it and how many characters that takes (a minus sign is one).      *)
Digits(n) == IF n \in -9..-1 \cup 10..99 THEN 2
             ELSE IF n \in 0..9 THEN 1 ELSE 3

\* The number after the point is not padded.
TextUnpadded(temp) ==
    LET frac == Rem(temp, 100)
    IN  [int |-> Quot(temp, 100), frac |-> frac, digits |-> Digits(frac)]

Text(temp) ==
    LET frac  == Rem(temp, 100)
        width == IF version = "kernel" THEN 1 ELSE 2
    IN  [int |-> Quot(temp, 100), frac |-> frac,
         digits |-> IF Digits(frac) > width THEN Digits(frac) ELSE width]

-----------------------------------------------------------------------------
Init ==
    /\ version \in Versions
    /\ words \in Words
    /\ raw \in Raws
    /\ unit = "CELSIUS"

Measure ==
    /\ \E r \in {raw - Stride, raw + Stride} : r \in Raws /\ raw' = r
    /\ UNCHANGED <<version, words, unit>>

SetUnit ==
    /\ version = "bmp280_driver"
    /\ unit' \in {"CELSIUS", "KELVIN", "FAHRENHEIT"}
    /\ UNCHANGED <<version, words, raw>>

Next == Measure \/ SetUnit

Spec == Init /\ [][Next]_vars

-----------------------------------------------------------------------------
(* Properties *)

(* When the sensor gets warmer (its raw value grows) the temperature that  *)
(* the examples compute does not fall: the calibration has its right signs *)
(* and no term overtakes another.                                          *)
WarmerIsWarmer == [][version = "kernel" /\ raw' > raw => Celsius' >= Celsius]_vars

(* The driver computes the temperature that the other two programs do.     *)
SameTemperature ==
    Celsius = Compensate(raw, <<words[1], Signed(words[2]), Signed(words[3])>>)

(* The conversion to Fahrenheit is exact up to one hundredth of a degree:  *)
(* 5 (F - 32) = 9 C.                                                       *)
FahrenheitClose ==
    unit = "FAHRENHEIT" =>
        LET e == 5 * (InUnit(Celsius, unit) - 3200) - 9 * Celsius
        IN  e \in -4..4

(* What a reader of the text makes of it: a number of hundredths, or no    *)
(* number when a sign follows the point.                                   *)
NoNumber == 1000000

Reads(text) ==
    IF text.frac < 0 THEN NoNumber
    ELSE 100 * text.int + (IF text.digits = 1 THEN 10 * text.frac ELSE text.frac)

Shown == InUnit(Celsius, unit)

(* The driver's text says the temperature, as far as it is not below zero. *)
TextReadsBack ==
    version = "bmp280_driver" /\ Shown >= 0 => Reads(Text(Shown)) = Shown
=============================================================================
