------------------------------ MODULE MCBmp280 ------------------------------
(* Values of the constants of Bmp280 for TLC.                              *)
EXTENDS Bmp280

\* It differs in all three bytes from what the registers hold after power-on.
OneSample == {<<126, 237, 16>>}

\* T1 = 27504, T2 = 26435, T3 = 64536, the example of the sensor's datasheet.
SomeTrim == <<107, 112, 103, 67, 252, 24>>
=============================================================================
