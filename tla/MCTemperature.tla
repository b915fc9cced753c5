---------------------------- MODULE MCTemperature ----------------------------
(* Values of the constants of Temperature for TLC.                         *)
EXTENDS Temperature

\* The example of the sensor's datasheet, T3 = -1000 in two's complement, and
\* a calibration whose T3 is positive.
BothSigns == {<<27504, 26435, 64536>>, <<27900, 26100, 50>>}

\* About -30 to 60 degrees: no product overflows though T3 is unsigned.
MiddleRange == {1000 * i : i \in 350..620}
=============================================================================
