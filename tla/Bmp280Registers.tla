--------------------------- MODULE Bmp280Registers ---------------------------
(***************************************************************************)
(* The registers of the sensor that the driver uses, by their names in     *)
(* bmp280_driver/inc/bmp280.h.                                             *)
(***************************************************************************)
BMP280_REG_ID        == 208
BMP280_REG_CTRL_MEAS == 244
BMP280_REG_CONFIG    == 245

TempRegs == <<250, 251, 252>>                    \* MSB, LSB, XLSB
CalRegs  == <<137, 136, 139, 138, 141, 140>>     \* T1, T2, T3, MSB first

BMP280_ID == 88

RangeOf(s) == {s[i] : i \in DOMAIN s}

Registers == {BMP280_REG_ID, BMP280_REG_CTRL_MEAS, BMP280_REG_CONFIG}
                 \cup RangeOf(TempRegs) \cup RangeOf(CalRegs)
=============================================================================
