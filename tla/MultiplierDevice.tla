-------------------------- MODULE MultiplierDevice --------------------------
(***************************************************************************)
(* kernel/010_ioctl/ioctl.c: four ioctl commands around one number, the    *)
(* multiplier, that all programs share.  The int is copied as one word, so *)
(* that a call is a few steps; a copy fails when the program's pointer is  *)
(* a bad one, and copy_from_user then stores 0.                            *)
(***************************************************************************)
EXTENDS Integers

CONSTANTS
    Users,      \* programs that have the device open
    Factors,    \* what they pass as an argument
    Half,       \* half of the numbers of an int: 2^31 in the code
    Unknown     \* no number

ASSUME HalfAssumption == Half \in Nat \ {0, 1}
ASSUME FactorsAreInts == Factors \subseteq -Half..Half - 1
ASSUME UnknownIsNone  == Unknown \notin Int

VARIABLES
    multiplier,
    answer,     \* the number on the stack of each user's call, or Unknown
    upc,        \* where each user is in its call
    arg,        \* history: what it passed to its call, 1 for IOCTL_CMD_READ
    own         \* history: for each user the number that the multiplier has as
                \* far as it knows, for nobody else has changed it since

multVars == <<multiplier, answer, upc, arg, own>>

MultInit ==
    /\ multiplier = 1
    /\ answer = [u \in Users |-> Unknown]
    /\ upc = [u \in Users |-> "out"]
    /\ arg = [u \in Users |-> 1]
    /\ own = [u \in Users |-> 1]

(* An int that is multiplied wraps around.                                 *)
Wrap(n) == ((n + Half) % (2 * Half)) - Half

Known(u, n) == [v \in Users |-> IF v = u THEN n ELSE Unknown]

(* IOCTL_CMD_RESET *)
CmdReset(u) ==
    /\ upc[u] = "out"
    /\ multiplier' = 1
    /\ own' = Known(u, 1)
    /\ UNCHANGED <<answer, upc, arg>>

(* IOCTL_CMD_WRITE: it returns -1 when the copy fails, and the multiplier  *)
(* is 0 then.                                                              *)
CmdWrite(u) ==
    /\ upc[u] = "out"
    /\ \E n \in Factors \cup {0} : multiplier' = n /\ own' = Known(u, n)
    /\ UNCHANGED <<answer, upc, arg>>

(* IOCTL_CMD_MULTIPLY: the argument comes in; nothing else happens when    *)
(* that fails.                                                             *)
FetchFactor(u) ==
    /\ upc[u] = "out"
    /\ \E n \in Factors :
         answer' = [answer EXCEPT ![u] = n] /\ arg' = [arg EXCEPT ![u] = n]
    /\ upc' = [upc EXCEPT ![u] = "multiply"]
    /\ UNCHANGED <<multiplier, own>>

\* The product is left in the multiplier.
MultiplyInPlace(u) ==
    /\ upc[u] = "multiply"
    /\ multiplier' = Wrap(answer[u] * multiplier)
    /\ answer' = [answer EXCEPT ![u] = multiplier']
    /\ upc' = [upc EXCEPT ![u] = "return"]
    /\ UNCHANGED <<arg, own>>

Multiply(u) ==
    /\ upc[u] = "multiply"
    /\ answer' = [answer EXCEPT ![u] = Wrap(@ * multiplier)]
    /\ upc' = [upc EXCEPT ![u] = "return"]
    /\ UNCHANGED <<multiplier, arg, own>>

(* IOCTL_CMD_READ *)
CmdRead(u) ==
    /\ upc[u] = "out"
    /\ answer' = [answer EXCEPT ![u] = multiplier] /\ arg' = [arg EXCEPT ![u] = 1]
    /\ upc' = [upc EXCEPT ![u] = "return"]
    /\ UNCHANGED <<multiplier, own>>

(* The answer goes to the program, or that copy fails.                     *)
ReturnAnswer(u) ==
    /\ upc[u] = "return"
    /\ answer' = [answer EXCEPT ![u] = Unknown]
    /\ upc' = [upc EXCEPT ![u] = "out"]
    /\ UNCHANGED <<multiplier, arg, own>>

MultNext ==
    \E u \in Users :
        \/ CmdReset(u) \/ CmdWrite(u) \/ CmdRead(u)
        \/ FetchFactor(u) \/ Multiply(u) \/ ReturnAnswer(u)

MultSpec == MultInit /\ [][MultNext]_multVars

-----------------------------------------------------------------------------
(* Properties *)

IntRange == -Half..Half - 1

(* The numbers stay within an int.                                         *)
MultTypeOK ==
    /\ multiplier \in IntRange
    /\ answer \in [Users -> IntRange \cup {Unknown}]
    /\ upc \in [Users -> {"out", "multiply", "return"}]
    /\ arg \in [Users -> IntRange]
    /\ own \in [Users -> IntRange \cup {Unknown}]

(* A program that was the last to set the multiplier, and that nobody has  *)
(* interfered with since, gets its argument times that number (times 0     *)
(* when its IOCTL_CMD_WRITE failed), as often as it asks.                  *)
AnswerIsProduct ==
    \A u \in Users :
        upc[u] = "return" /\ own[u] # Unknown => answer[u] = Wrap(arg[u] * own[u])
=============================================================================
