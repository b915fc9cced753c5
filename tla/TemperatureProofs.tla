-------------------------- MODULE TemperatureProofs --------------------------
(***************************************************************************)
(* What the driver shows is right for every calibration and every raw      *)
(* value, as far as the C arithmetic does not overflow, and where that is: *)
(* the runs look at two calibrations and at every thousandth value.        *)
(***************************************************************************)
EXTENDS Temperature, TLAPS

StateTyped ==
    /\ words \in Int \X Int \X Int
    /\ raw \in Int
    /\ unit \in {"CELSIUS", "KELVIN", "FAHRENHEIT"}

LEMMA ConstantsAreInts ==
    Words \subseteq Int \X Int \X Int /\ Raws \subseteq Int
BY WordsAre16Bit, RawsAre20Bit

LEMMA StateStaysTyped == Spec => []StateTyped
<1>1. Init => StateTyped
  BY ConstantsAreInts DEF Init, StateTyped
<1>2. StateTyped /\ [Next]_vars => StateTyped'
  BY ConstantsAreInts DEF StateTyped, Next, Measure, SetUnit, vars
<1> QED
  BY <1>1, <1>2, PTL DEF Spec

LEMMA CompensateIsInt ==
    ASSUME NEW r \in Int, NEW dig \in Int \X Int \X Int
    PROVE  Compensate(r, dig) \in Int
<1> DEFINE d    == r \div 16 - dig[1]
           var1 == ((r \div 8 - 2 * dig[1]) * dig[2]) \div 2048
           var2 == (((d * d) \div 4096) * dig[3]) \div 16384
<1>1. dig[1] \in Int /\ dig[2] \in Int /\ dig[3] \in Int
  OBVIOUS
<1>2. \A x, y \in Int : x * y \in Int
  OBVIOUS
<1>3. d \in Int
  BY <1>1
<1>4. var1 \in Int
  <2>1. r \div 8 - 2 * dig[1] \in Int
    BY <1>1
  <2> QED
    BY <1>1, <1>2, <2>1
<1>5. var2 \in Int
  <2>1. (d * d) \div 4096 \in Int
    BY <1>2, <1>3
  <2>2. ((d * d) \div 4096) * dig[3] \in Int
    BY <1>1, <1>2, <2>1
  <2> QED
    BY <2>2
<1> HIDE DEF d, var1, var2
<1>6. ((var1 + var2) * 5 + 128) \div 256 \in Int
  BY <1>4, <1>5
<1> QED
  BY <1>6 DEF Compensate, d, var1, var2

LEMMA CelsiusIsInt ==
    ASSUME StateTyped
    PROVE  Celsius \in Int
<1>1. Calibration(version, words) \in Int \X Int \X Int
  BY DEF StateTyped, Calibration, Signed
<1>2. raw \in Int
  BY DEF StateTyped
<1> QED
  BY <1>1, <1>2, CompensateIsInt DEF Celsius

(* The integer division of the conversion to Fahrenheit loses less than a  *)
(* hundredth of a degree, below zero too, where C rounds upwards.          *)
THEOREM FahrenheitIsClose == Spec => []FahrenheitClose
<1>1. \A n \in Int : 5 * Quot(9 * n, 5) - 9 * n \in -4..4
  BY DEF Quot
<1>2. StateTyped => FahrenheitClose
  <2> SUFFICES ASSUME StateTyped, unit = "FAHRENHEIT"
               PROVE  5 * (InUnit(Celsius, unit) - 3200) - 9 * Celsius \in -4..4
    BY DEF FahrenheitClose
  <2> DEFINE c == Celsius
  <2>1. c \in Int
    BY CelsiusIsInt
  <2>2. InUnit(c, unit) = Quot(c * 9, 5) + 3200
    BY DEF InUnit
  <2> HIDE DEF c
  <2>3. Quot(c * 9, 5) \in Int /\ c * 9 = 9 * c
    BY <2>1 DEF Quot
  <2>4. 5 * (InUnit(c, unit) - 3200) - 9 * c \in -4..4
    BY <1>1, <2>1, <2>2, <2>3
  <2> QED
    BY <2>4 DEF c
<1> QED
  BY <1>2, StateStaysTyped, PTL

(* From zero upwards the text "%d.%02d" says just the temperature that was *)
(* computed.                                                               *)
THEOREM TextIsRight == Spec => []TextReadsBack
<1>1. ASSUME version = "bmp280_driver", NEW n \in Nat
      PROVE  Reads(Text(n)) = n
  <2> DEFINE f == Rem(n, 100)
  <2>1. f \in 0..99 /\ 100 * Quot(n, 100) + f = n /\ Quot(n, 100) \in Int
    BY DEF Rem, Quot
  <2>2. Text(n).int = Quot(n, 100) /\ Text(n).frac = f
    BY DEF Text
  <2>3. Text(n).digits = 2
    <3>1. Digits(f) <= 2
      BY <2>1 DEF Digits
    <3>2. Digits(f) \in {1, 2}
      BY <2>1 DEF Digits
    <3> QED
      BY <1>1, <3>1, <3>2 DEF Text
  <2> QED
    BY <2>1, <2>2, <2>3 DEF Reads
<1>2. StateTyped => TextReadsBack
  <2> SUFFICES ASSUME StateTyped, version = "bmp280_driver", Shown >= 0
               PROVE  Reads(Text(Shown)) = Shown
    BY DEF TextReadsBack
  <2> DEFINE c == Celsius
  <2>1. c \in Int
    BY CelsiusIsInt
  <2>2. unit \in {"CELSIUS", "KELVIN", "FAHRENHEIT"}
    BY DEF StateTyped
  <2> HIDE DEF c
  <2>3. InUnit(c, unit) \in Int
    BY <2>1, <2>2 DEF InUnit, Quot
  <2>4. Shown = InUnit(c, unit)
    BY DEF Shown, c
  <2>5. Shown \in Nat
    BY <2>3, <2>4
  <2> QED
    BY <1>1, <2>5
<1> QED
  BY <1>2, StateStaysTyped, PTL
-----------------------------------------------------------------------------
(* The range of the arithmetic                                             *)

Magnitude(n) == IF n >= 0 THEN n ELSE -n

LEMMA ProductGrows ==
    ASSUME NEW x \in Int, NEW y \in Int, NEW c \in Nat, x <= y
    PROVE  x * c <= y * c
<1>1. y - x \in Nat
  OBVIOUS
<1>2. \A m, n \in Nat : m * n \in Nat
  OBVIOUS
<1>3. (y - x) * c \in Nat
  BY <1>1, <1>2
<1>4. (y - x) * c = y * c - x * c
  OBVIOUS
<1> QED
  BY <1>3, <1>4

LEMMA ProductBounded ==
    ASSUME NEW x \in Int, NEW b \in Nat, NEW c \in Int, -b <= x, x <= b
    PROVE  -(b * Magnitude(c)) <= x * c /\ x * c <= b * Magnitude(c)
<1> DEFINE m == Magnitude(c)
<1>1. m \in Nat /\ (c = m \/ c = -m)
  BY DEF Magnitude
<1> HIDE DEF m
<1>2. (-b) * m <= x * m /\ x * m <= b * m
  BY <1>1, ProductGrows
<1>3. (-b) * m = -(b * m) /\ x * (-m) = -(x * m)
  BY <1>1
<1>4. b * m \in Int /\ x * m \in Int
  BY <1>1
<1>5. -(b * m) <= x * c /\ x * c <= b * m
  BY <1>1, <1>2, <1>3, <1>4
<1> QED
  BY <1>5 DEF m

LEMMA SquareBounded ==
    ASSUME NEW d \in Int, NEW b \in Nat, -b <= d, d <= b
    PROVE  0 <= d * d /\ d * d <= b * b
<1>1. d * d <= b * Magnitude(d)
  BY ProductBounded
<1>2. Magnitude(d) \in Nat /\ Magnitude(d) <= b
  BY DEF Magnitude
<1>3. Magnitude(d) * b <= b * b /\ b * Magnitude(d) = Magnitude(d) * b
  BY <1>2, ProductGrows
<1>4. d * d = Magnitude(d) * Magnitude(d)
  BY DEF Magnitude
<1>5. 0 * Magnitude(d) <= Magnitude(d) * Magnitude(d)
  BY <1>2, ProductGrows
<1>6. d * d \in Int /\ b * b \in Int /\ b * Magnitude(d) \in Int
  BY <1>2
<1> QED
  BY <1>1, <1>2, <1>3, <1>4, <1>5, <1>6

LEMMA ProductFits ==
    ASSUME NEW x \in Int, NEW b \in Nat, NEW c \in Int, NEW m \in Nat,
           -b <= x, x <= b, Magnitude(c) <= m, b * m <= S32Max
    PROVE  Fits(x * c)
<1>1. -(b * Magnitude(c)) <= x * c /\ x * c <= b * Magnitude(c)
  BY ProductBounded
<1>2. Magnitude(c) \in Nat
  BY DEF Magnitude
<1>3. Magnitude(c) * b <= m * b
  BY <1>2, ProductGrows
<1>4. m * b = b * m /\ b * Magnitude(c) = Magnitude(c) * b
  BY <1>2
<1>5. x * c \in Int /\ b * m \in Int /\ b * Magnitude(c) \in Int
  BY <1>2
<1>6. S32Max \in Nat
  BY DEF S32Max
<1> DEFINE p == x * c  q == b * Magnitude(c)  t == b * m
<1>7. /\ p \in Int /\ q \in Int /\ t \in Int
      /\ -q <= p /\ p <= q /\ q <= t /\ t <= S32Max
  BY <1>1, <1>3, <1>4, <1>5
<1> HIDE DEF p, q, t
<1>8. Fits(p)
  BY <1>6, <1>7 DEF Fits
<1> QED
  BY <1>8 DEF p

LEMMA SquareFits ==
    ASSUME NEW d \in Int, NEW b \in Nat, -b <= d, d <= b, b * b <= S32Max
    PROVE  Fits(d * d)
<1>1. Magnitude(d) <= b
  BY DEF Magnitude
<1> QED
  BY <1>1, ProductFits

(* NothingOverflows is true of the examples wherever the sensor works: its *)
(* raw value is within 32767 * 16 of T1 (from -40 to 85 degrees it is      *)
(* within 17000 * 16), and its T3 is small.                                *)
THEOREM ExamplesStayInRange ==
    ASSUME NEW w \in Nat \X Nat \X Nat, w[2] < 65536, w[3] < 65536,
           NEW r \in Nat,
           -32767 <= r \div 16 - w[1], r \div 16 - w[1] <= 32767,
           Magnitude(Signed(w[3])) <= 8191
    PROVE  Representable(r, Calibration("kernel", w))
<1> DEFINE d == r \div 16 - w[1]  a == r \div 8 - 2 * w[1]
           p == (d * d) \div 4096
           t2 == Signed(w[2])  t3 == Signed(w[3])
           b == 32767  c == 2 * b + 1  m2 == 32768  m3 == 8191  q == 262128
<1>1. a \in Int /\ d \in Int /\ (a = 2 * d \/ a = 2 * d + 1)
  OBVIOUS
<1>2. t2 \in Int /\ t3 \in Int /\ Magnitude(t2) <= m2 /\ Magnitude(t3) <= m3
  BY DEF Signed, Magnitude
<1>3. b \in Nat /\ m2 \in Nat /\ m3 \in Nat /\ q \in Nat /\ -b <= d /\ d <= b
  OBVIOUS
<1>4. /\ c * m2 <= S32Max /\ b * b <= S32Max
      /\ (b * b) \div 4096 <= q /\ q * m3 <= S32Max
  BY DEF S32Max
<1> HIDE DEF d, a, p, t2, t3, b, c, m2, m3, q
<1>5. c \in Nat /\ -c <= a /\ a <= c
  BY <1>1, <1>3 DEF c
<1>6. Fits(a * t2)
  BY <1>1, <1>2, <1>3, <1>4, <1>5, ProductFits
<1>7. Fits(d * d)
  BY <1>1, <1>3, <1>4, SquareFits
<1>8. p \in Nat /\ p <= q
  <2> DEFINE x == d * d  y == b * b
  <2>1. x \in Int /\ y \in Int /\ 0 <= x /\ x <= y
    BY <1>1, <1>3, SquareBounded
  <2>2. y \div 4096 <= q
    BY <1>4
  <2> HIDE DEF x, y
  <2>3. x \div 4096 \in Nat /\ x \div 4096 <= q
    BY <1>3, <2>1, <2>2
  <2> QED
    BY <2>3 DEF x, p
<1>9. p \in Int /\ -q <= p
  BY <1>3, <1>8
<1>10. Fits(p * t3)
  BY <1>2, <1>3, <1>4, <1>8, <1>9, ProductFits
<1> QED
  BY <1>6, <1>7, <1>10 DEF Representable, Calibration, d, a, p, t2, t3

(* The driver, which takes a negative T3 for a number near 65536, has a    *)
(* third of that range: with the calibration of the datasheet its products *)
(* overflow from 58 degrees.                                               *)
THEOREM DriverStaysInRange ==
    ASSUME NEW w \in Nat \X Nat \X Nat, w[2] < 65536, w[3] < 65536,
           NEW r \in Nat,
           -11585 <= r \div 16 - w[1], r \div 16 - w[1] <= 11585
    PROVE  Representable(r, Calibration("bmp280_driver", w))
<1> DEFINE d == r \div 16 - w[1]  a == r \div 8 - 2 * w[1]
           p == (d * d) \div 4096
           t2 == w[2]  t3 == w[3]
           b == 11585  c == 2 * b + 1  m2 == 65535  m3 == 65535  q == 32767
<1>1. a \in Int /\ d \in Int /\ (a = 2 * d \/ a = 2 * d + 1)
  OBVIOUS
<1>2. t2 \in Int /\ t3 \in Int /\ Magnitude(t2) <= m2 /\ Magnitude(t3) <= m3
  BY DEF Magnitude
<1>3. b \in Nat /\ m2 \in Nat /\ m3 \in Nat /\ q \in Nat /\ -b <= d /\ d <= b
  OBVIOUS
<1>4. /\ c * m2 <= S32Max /\ b * b <= S32Max
      /\ (b * b) \div 4096 <= q /\ q * m3 <= S32Max
  BY DEF S32Max
<1> HIDE DEF d, a, p, t2, t3, b, c, m2, m3, q
<1>5. c \in Nat /\ -c <= a /\ a <= c
  BY <1>1, <1>3 DEF c
<1>6. Fits(a * t2)
  BY <1>1, <1>2, <1>3, <1>4, <1>5, ProductFits
<1>7. Fits(d * d)
  BY <1>1, <1>3, <1>4, SquareFits
<1>8. p \in Nat /\ p <= q
  <2> DEFINE x == d * d  y == b * b
  <2>1. x \in Int /\ y \in Int /\ 0 <= x /\ x <= y
    BY <1>1, <1>3, SquareBounded
  <2>2. y \div 4096 <= q
    BY <1>4
  <2> HIDE DEF x, y
  <2>3. x \div 4096 \in Nat /\ x \div 4096 <= q
    BY <1>3, <2>1, <2>2
  <2> QED
    BY <2>3 DEF x, p
<1>9. p \in Int /\ -q <= p
  BY <1>3, <1>8
<1>10. Fits(p * t3)
  BY <1>2, <1>3, <1>4, <1>8, <1>9, ProductFits
<1> QED
  BY <1>6, <1>7, <1>10 DEF Representable, Calibration, d, a, p, t2, t3

-----------------------------------------------------------------------------
(* Warmer sensors, warmer texts                                            *)

(* The linear term of the compensation outweighs the quadratic one: T2,    *)
(* about 26000 in a real sensor, against T3, at most about 1000.           *)
Dominant(w) == 8 * Signed(w[2]) >= 33 * Magnitude(Signed(w[3])) + 32768

StateInRange == words \in Words /\ raw \in Raws

LEMMA StateStaysInRange == Spec => []StateInRange
<1>1. Init => StateInRange
  BY DEF Init, StateInRange
<1>2. StateInRange /\ [Next]_vars => StateInRange'
  BY DEF StateInRange, Next, Measure, SetUnit, vars
<1> QED
  BY <1>1, <1>2, PTL DEF Spec

(* The squares of two 17-bit numbers that are k apart.                     *)
LEMMA SquaresApart ==
    ASSUME NEW d \in Int, NEW e \in Int, NEW k \in Nat \ {0}, e = d + k,
           -65536 <= d, e <= 65536
    PROVE  (e * e) \div 4096 - (d * d) \div 4096 \in -(33 * k)..33 * k
<1>1. d \in Int /\ e \in Int /\ k \in Int
  OBVIOUS
<1>2. e * e - d * d = (d + e) * k
  BY <1>1
<1>3. -131072 <= d + e /\ d + e <= 131072
  OBVIOUS
<1>4. (-131072) * k <= (d + e) * k /\ (d + e) * k <= 131072 * k
  BY <1>1, <1>3, ProductGrows
<1>5. d * d \in Int /\ e * e \in Int /\ (d + e) * k \in Int
  BY <1>1
<1> DEFINE x == d * d  y == e * e  z == (d + e) * k
<1>6. x \in Int /\ y \in Int /\ z \in Int /\ y - x = z
      /\ (-131072) * k <= z /\ z <= 131072 * k
  BY <1>2, <1>4, <1>5
<1> HIDE DEF x, y, z
<1>7. y \div 4096 - x \div 4096 \in -(33 * k)..33 * k
  BY <1>1, <1>6
<1> QED
  BY <1>7 DEF x, y

(* No term of the compensation overtakes the linear one.                   *)
LEMMA CompensateGrows ==
    ASSUME NEW r \in Nat, NEW s \in Nat, r <= s, s < 1048576,
           NEW t1 \in Nat, t1 < 65536, NEW t2 \in Int, NEW t3 \in Int,
           8 * t2 >= 33 * Magnitude(t3) + 32768
    PROVE  Compensate(r, <<t1, t2, t3>>) <= Compensate(s, <<t1, t2, t3>>)
<1> DEFINE d == r \div 16 - t1
           e == s \div 16 - t1
           a == r \div 8 - 2 * t1
           b == s \div 8 - 2 * t1
           k == e - d
           p == (d * d) \div 4096
           q == (e * e) \div 4096
           m == Magnitude(t3)
           sumR == (a * t2) \div 2048 + (p * t3) \div 16384
           sumS == (b * t2) \div 2048 + (q * t3) \div 16384
<1>1. /\ d \in Int /\ e \in Int /\ -65536 <= d /\ e <= 65536
      /\ a \in Int /\ b \in Int /\ k \in Nat /\ a <= b /\ k <= b - a
      /\ e = d + k
  OBVIOUS
<1>2. m \in Nat /\ t2 \in Nat /\ 8 * t2 >= 33 * m + 32768
  BY DEF Magnitude
<1>3. Compensate(r, <<t1, t2, t3>>) = (sumR * 5 + 128) \div 256
      /\ Compensate(s, <<t1, t2, t3>>) = (sumS * 5 + 128) \div 256
  BY DEF Compensate
<1>4. d * d \in Int /\ e * e \in Int
  BY <1>1
<1>5. p \in Int /\ q \in Int
  BY <1>4
<1> HIDE DEF a, b, d, e, k, p, q, m
<1>6. a * t2 \in Int /\ b * t2 \in Int /\ p * t3 \in Int /\ q * t3 \in Int
  BY <1>1, <1>5
<1>7. sumR <= sumS
  <2>1. CASE k = 0
    <3>1. p = q
      BY <1>1, <2>1 DEF p, q
    <3>2. a * t2 <= b * t2
      BY <1>1, <1>2, ProductGrows
    <3> QED
      BY <1>6, <3>1, <3>2
  <2>2. CASE k # 0
    <3>1. k * t2 <= b * t2 - a * t2
      <4>1. k * t2 <= (b - a) * t2
        BY <1>1, <1>2, ProductGrows
      <4>2. (b - a) * t2 = b * t2 - a * t2
        BY <1>1
      <4> QED
        BY <4>1, <4>2
    <3>2. -(33 * k) <= q - p /\ q - p <= 33 * k
      BY <1>1, <1>5, <2>2, SquaresApart DEF p, q
    <3>3. -((33 * k) * m) <= (q - p) * t3
      <4>1. 33 * k \in Nat /\ q - p \in Int
        BY <1>1, <1>5
      <4> QED
        BY <3>2, <4>1, ProductBounded DEF m
    <3>4. (q - p) * t3 = q * t3 - p * t3 /\ (33 * k) * m = 33 * (k * m)
      BY <1>1, <1>2, <1>5
    <3>5. 33 * (k * m) + 32768 <= 8 * (k * t2)
      <4>1. (33 * m + 32768) * k <= (8 * t2) * k
        BY <1>1, <1>2, ProductGrows
      <4>2. (33 * m + 32768) * k = 33 * (k * m) + 32768 * k /\ (8 * t2) * k = 8 * (k * t2)
        BY <1>1, <1>2
      <4>3. k * m \in Int /\ k * t2 \in Int /\ k >= 1
        BY <1>1, <1>2, <2>2
      <4> QED
        BY <1>1, <4>1, <4>2, <4>3
    <3>6. k * m \in Int /\ k * t2 \in Int
      BY <1>1, <1>2
    <3> DEFINE A == a * t2  B == b * t2  P == p * t3  Q == q * t3
               M == k * m  T == k * t2
    <3>7. /\ A \in Int /\ B \in Int /\ P \in Int /\ Q \in Int /\ M \in Int /\ T \in Int
          /\ T <= B - A /\ -(33 * M) <= Q - P /\ 33 * M + 32768 <= 8 * T
      BY <1>6, <3>1, <3>3, <3>4, <3>5, <3>6
    <3> HIDE DEF A, B, P, Q, M, T
    <3>8. A \div 2048 + P \div 16384 <= B \div 2048 + Q \div 16384
      BY <3>7
    <3> QED
      BY <3>8 DEF A, B, P, Q
  <2> QED
    BY <2>1, <2>2
<1>8. sumR \in Int /\ sumS \in Int
  BY <1>6
<1> HIDE DEF sumR, sumS
<1>9. (sumR * 5 + 128) \div 256 <= (sumS * 5 + 128) \div 256
  BY <1>7, <1>8
<1> QED
  BY <1>3, <1>9

(* With any calibration in which T2 dominates, whatever its signs, a       *)
(* higher raw value never shows a lower temperature in the examples.       *)
THEOREM WarmerStaysWarmer ==
    ASSUME \A w \in Words : Dominant(w)
    PROVE  Spec => WarmerIsWarmer
<1>1. ASSUME StateInRange, StateInRange', [Next]_vars, version = "kernel", raw' > raw
      PROVE  Celsius' >= Celsius
  <2>1. words' = words /\ version' = version
    BY <1>1 DEF Next, Measure, SetUnit, vars
  <2> DEFINE t1 == words[1]  t2 == Signed(words[2])  t3 == Signed(words[3])
  <2>2. /\ words[1] \in Nat /\ words[1] < 65536 /\ words[2] \in Int /\ words[3] \in Int
        /\ raw \in Nat /\ raw' \in Nat /\ raw' < 1048576
    BY <1>1, WordsAre16Bit, RawsAre20Bit DEF StateInRange
  <2>3. /\ t1 \in Nat /\ t1 < 65536 /\ t2 \in Int /\ t3 \in Int
        /\ 8 * t2 >= 33 * Magnitude(t3) + 32768
    BY <1>1, <2>2 DEF StateInRange, Dominant, Signed
  <2>4. /\ Celsius = Compensate(raw, <<t1, t2, t3>>)
        /\ Celsius' = Compensate(raw', <<t1, t2, t3>>)
    BY <1>1, <2>1 DEF Celsius, Calibration
  <2> HIDE DEF t1, t2, t3
  <2>5. Compensate(raw, <<t1, t2, t3>>) <= Compensate(raw', <<t1, t2, t3>>)
    BY <1>1, <2>2, <2>3, CompensateGrows
  <2>6. /\ Compensate(raw, <<t1, t2, t3>>) \in Int
        /\ Compensate(raw', <<t1, t2, t3>>) \in Int
    BY <2>2, <2>3, CompensateIsInt
  <2> QED
    BY <2>4, <2>5, <2>6
<1>2. StateInRange /\ StateInRange' /\ [Next]_vars =>
          [version = "kernel" /\ raw' > raw => Celsius' >= Celsius]_vars
  BY <1>1
<1> QED
  BY <1>2, StateStaysInRange, PTL DEF Spec, WarmerIsWarmer

(* The driver shows the temperature that the examples show as long as T2   *)
(* and T3 are below 32768, that is, not negative; Temp_sign is what        *)
(* happens otherwise.                                                      *)
THEOREM PositiveWordsAgree ==
    ASSUME \A w \in Words : w[2] < 32768 /\ w[3] < 32768
    PROVE  Spec => []SameTemperature
<1>1. StateInRange => SameTemperature
  <2> SUFFICES ASSUME StateInRange
               PROVE  SameTemperature
    OBVIOUS
  <2>1. words \in Nat \X Nat \X Nat /\ words[2] < 32768 /\ words[3] < 32768
    BY WordsAre16Bit DEF StateInRange
  <2>2. Signed(words[2]) = words[2] /\ Signed(words[3]) = words[3]
        /\ words = <<words[1], words[2], words[3]>>
    BY <2>1 DEF Signed
  <2>3. Calibration(version, words) = <<words[1], Signed(words[2]), Signed(words[3])>>
    BY <2>2 DEF Calibration
  <2> QED
    BY <2>3 DEF SameTemperature, Celsius
<1> QED
  BY <1>1, StateStaysInRange, PTL
=============================================================================
