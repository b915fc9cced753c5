------------------------------ MODULE LedDevice ------------------------------
(***************************************************************************)
(* Two examples that switch an LED by a write to their device:             *)
(* kernel/003_gpio_driver/gpio_driver.c, which takes one character of what *)
(* it is given, and kernel/018_dt_gpio/dt_gpio.c, which takes a number of  *)
(* up to ten characters.                                                   *)
(*                                                                         *)
(* driver_write returns how much it has taken, and a program (a shell's    *)
(* echo, say) calls it again with the rest until all is written.  A text   *)
(* is a sequence of "0", "1", the newline "nl" and other characters, "x".  *)
(***************************************************************************)
EXTENDS Integers, Sequences

CONSTANTS
    Drivers,    \* of "gpio_driver" and "dt_gpio"
    Echoers,    \* programs that write to the device
    Orders,     \* the texts they write
    Room,       \* sizeof(buffer) of dt_gpio.c: 10 in the code
    NoText      \* a program that is not writing

ASSUME DriversAreKnown == Drivers \subseteq {"gpio_driver", "dt_gpio"}
ASSUME RoomAssumption  == Room \in Nat \ {0}

TextsOfLed == Seq({"0", "1", "nl", "x"})

ASSUME OrdersAreTexts  == Orders \subseteq TextsOfLed
ASSUME NoTextIsNoText  == NoText \notin TextsOfLed

VARIABLES
    loaded,     \* the module that is loaded
    led,        \* the pin
    my_led,     \* the descriptor: "none", "led" or "error"
    rest,       \* what each program has still to write
    order,      \* history: the text that it began with
    before      \* history: the LED when it began, or NoText when another
                \* program has written meanwhile

ledVars == <<loaded, led, my_led, rest, order, before>>

(* dt_probe gets the LED, or ends before that.                             *)
LedStart ==
    /\ led = 0
    /\ my_led \in IF loaded = "dt_gpio" THEN {"led", "none"} ELSE {"led"}
    /\ rest = [p \in Echoers |-> NoText]
    /\ order = [p \in Echoers |-> NoText]
    /\ before = [p \in Echoers |-> NoText]

LedInit == loaded \in Drivers /\ LedStart

-----------------------------------------------------------------------------
(* What a text asks for: 0, 1, or nothing (2).                             *)

Char(c) == CASE c = "0" -> 0 [] c = "1" -> 1 [] OTHER -> 2

(* kstrtol with base 10: digits and at most one newline after them.        *)
Number(t) ==
    LET n == IF t # <<>> /\ t[Len(t)] = "nl" THEN Len(t) - 1 ELSE Len(t)
    IN  IF n > 0 /\ t[n] \in {"0", "1"} /\ \A i \in 1..n - 1 : t[i] = "0"
        THEN Char(t[n]) ELSE 2

\* A descriptor that is no LED is not written to.
SetLed(value) == led' = IF value = 2 \/ my_led # "led" THEN led ELSE value

-----------------------------------------------------------------------------
Begin(p) ==
    /\ rest[p] = NoText
    /\ \E t \in Orders :
         /\ rest' = [rest EXCEPT ![p] = t]
         /\ order' = [order EXCEPT ![p] = t]
    /\ before' = [q \in Echoers |->
                    IF q = p /\ \A r \in Echoers : rest[r] = NoText THEN led ELSE NoText]
    /\ UNCHANGED <<loaded, led, my_led>>

\* The first n characters are taken: a text that has no more is written.
Taken(p, n) ==
    rest' = [rest EXCEPT ![p] =
               IF n >= Len(@) THEN NoText ELSE SubSeq(@, n + 1, Len(@))]

\* The whole text counts as written after one character.
GpioWriteAll(p) ==
    /\ loaded = "gpio_driver" /\ rest[p] # NoText
    /\ IF rest[p] = <<>> THEN \E value \in 0..2 : SetLed(value)
                         ELSE SetLed(Char(rest[p][1]))
    /\ Taken(p, Len(rest[p]))
    /\ UNCHANGED <<loaded, my_led, order, before>>

(* driver_write of gpio_driver.c.  A write of no bytes looks at a value    *)
(* that nothing was stored in.                                             *)
GpioWrite(p) ==
    /\ loaded = "gpio_driver" /\ rest[p] # NoText
    /\ IF rest[p] = <<>> THEN \E value \in 0..2 : SetLed(value)
                         ELSE SetLed(Char(rest[p][1]))
    /\ Taken(p, 1)
    /\ UNCHANGED <<loaded, my_led, order, before>>

(* driver_write of dt_gpio.c.  A text that fills the buffer leaves no room *)
(* for its end, and one that is out of range leaves number as it was: such *)
(* a text, of ten characters at least, may do anything.                    *)
DtGpioWrite(p) ==
    /\ loaded = "dt_gpio" /\ rest[p] # NoText
    /\ IF Len(rest[p]) >= Room THEN \E value \in 0..2 : SetLed(value)
                               ELSE SetLed(Number(rest[p]))
    /\ Taken(p, Room)
    /\ UNCHANGED <<loaded, my_led, order, before>>

(* The program's memory ends after n bytes of what the driver takes, which *)
(* finds zeros from there on, and the program gives up.                    *)
FaultInOrder(p) ==
    /\ rest[p] # NoText
    /\ \E n \in 0..Len(rest[p]) - 1 :
         /\ n < (IF loaded = "dt_gpio" THEN Room ELSE 1)
         /\ SetLed(Number(SubSeq(rest[p], 1, n)))
    /\ rest' = [rest EXCEPT ![p] = NoText]
    /\ order' = [order EXCEPT ![p] = NoText]
    /\ UNCHANGED <<loaded, my_led, before>>

(* The driver is unbound from its device and bound again: dt_remove has    *)
(* not put the descriptor, so that dt_probe finds the LED in use.          *)
Rebind ==
    /\ loaded = "dt_gpio" /\ my_led # "none"
    /\ my_led' = "error"
    /\ UNCHANGED <<loaded, led, rest, order, before>>

LedNext ==
    \/ \E p \in Echoers :
         Begin(p) \/ GpioWrite(p) \/ DtGpioWrite(p) \/ FaultInOrder(p)
    \/ Rebind

LedSpec == LedInit /\ [][LedNext]_ledVars

-----------------------------------------------------------------------------
(* Properties *)

(* What is still to be written is a text.                                  *)
LedTypeOK ==
    /\ led \in {0, 1}
    /\ my_led \in {"none", "led", "error"}
    /\ rest \in [Echoers -> TextsOfLed \cup {NoText}]
    /\ order \in [Echoers -> TextsOfLed \cup {NoText}]
    /\ before \in [Echoers -> {0, 1, NoText}]

(* What a text makes of the LED when the examples take it as a whole: for  *)
(* the first one its last "0" or "1", for the second one its number.       *)
LastDigit(t) ==
    LET digits == {i \in DOMAIN t : t[i] \in {"0", "1"}}
    IN  IF digits = {} THEN 2
        ELSE Char(t[CHOOSE i \in digits : \A j \in digits : j <= i])

Asks(t) == IF loaded = "gpio_driver" THEN LastDigit(t) ELSE Number(t)

Defined(t) ==
    IF loaded = "gpio_driver" THEN t # <<>> ELSE Len(t) < Room /\ my_led = "led"

(* When a program has written its text and no other wrote meanwhile, the   *)
(* LED shows what the text asks for, or what it showed before if the text  *)
(* asks for nothing.                                                       *)
LedObeys ==
    \A p \in Echoers :
        rest[p] = NoText /\ order[p] # NoText /\ before[p] # NoText /\ Defined(order[p]) =>
            led = IF Asks(order[p]) = 2 THEN before[p] ELSE Asks(order[p])
=============================================================================
