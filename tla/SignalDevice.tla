---------------------------- MODULE SignalDevice ----------------------------
(***************************************************************************)
(* kernel/012_send_signal/send_signal.c: a program registers itself with   *)
(* ioctl, and the interrupt of a button sends it SIGUSR1 from then on.     *)
(*                                                                         *)
(* There is one pointer, task, for all programs and all open files.  It is *)
(* taken without a reference: what keeps the process behind it in place is *)
(* that its end closes its files, and that the last close of a file clears *)
(* the pointer.  A fork shares the open files, and breaks this chain.      *)
(***************************************************************************)
EXTENDS Integers

CONSTANTS
    Programs,   \* processes that may use the device, or be forked
    Nobody,     \* task is NULL
    MaxFiles    \* bound: how often the device is open at a time

ASSUME NobodyIsNoProgram == Nobody \notin Programs

Files == 1..MaxFiles

VARIABLES
    task,
    holders,    \* for an open file the processes that hold it
    running,    \* the processes that exist
    ended,      \* process numbers that have been used
    pending,    \* processes with a SIGUSR1 that they have not handled
    owed,       \* history: programs that registered and have closed nothing since
    sharers     \* history: processes that a fork gave a file in common

signalVars == <<task, holders, running, ended, pending, owed, sharers>>

SignalInit ==
    /\ task = Nobody
    /\ holders = [f \in Files |-> {}]
    /\ running = {} /\ ended = {} /\ pending = {}
    /\ owed = {} /\ sharers = {}

FilesOf(p) == {f \in Files : p \in holders[f]}

\* The kernel gives a new process a number that is not in use.
StartProgram(p) ==
    /\ p \notin running \cup ended
    /\ running' = running \cup {p}
    /\ UNCHANGED <<task, holders, ended, pending, owed, sharers>>

SignalOpen(p) ==
    /\ p \in running
    /\ \E f \in Files : holders[f] = {} /\ holders' = [holders EXCEPT ![f] = {p}]
    /\ UNCHANGED <<task, running, ended, pending, owed, sharers>>

(* IO_REGISTER_USER_APP: task = get_current().                             *)
Register(p) ==
    /\ FilesOf(p) # {}
    /\ task' = p
    /\ owed' = owed \cup {p}
    /\ UNCHANGED <<holders, running, ended, pending, sharers>>

\* The pointer stays when a file is closed.
DriverCloseKeeps(left) == UNCHANGED task

(* driver_close: called when nobody holds the file any more.               *)
DriverClose(left) ==
    task' = IF \E f \in Files : holders[f] # {} /\ left[f] = {} THEN Nobody ELSE task

SignalClose(p) ==
    /\ \E f \in FilesOf(p) :
         /\ holders' = [holders EXCEPT ![f] = @ \ {p}]
         /\ DriverClose(holders')
    /\ owed' = owed \ {p}
    /\ UNCHANGED <<running, ended, pending, sharers>>

(* The process ends, by itself or by a signal: the kernel closes its files *)
(* first and frees the process then.                                       *)
EndProgram(p) ==
    /\ p \in running
    /\ holders' = [f \in Files |-> holders[f] \ {p}]
    /\ DriverClose(holders')
    /\ running' = running \ {p} /\ ended' = ended \cup {p}
    /\ pending' = pending \ {p}
    /\ owed' = owed \ {p}
    /\ UNCHANGED sharers

(* fork: the new process c has the files of p.                             *)
Fork(p, c) ==
    /\ p \in running /\ c \notin running \cup ended
    /\ running' = running \cup {c}
    /\ holders' = [f \in Files |->
                     IF p \in holders[f] THEN holders[f] \cup {c} ELSE holders[f]]
    /\ sharers' = IF FilesOf(p) = {} THEN sharers ELSE sharers \cup {p, c}
    /\ UNCHANGED <<task, ended, pending, owed>>

(* gpio_irq_handler.  SIGUSR1 does not queue up.                           *)
Press ==
    /\ pending' = IF task = Nobody THEN pending ELSE pending \cup {task}
    /\ UNCHANGED <<task, holders, running, ended, owed, sharers>>

(* The program handles the signal.                                         *)
HandleSignal(p) ==
    /\ p \in pending \cap running
    /\ pending' = pending \ {p}
    /\ UNCHANGED <<task, holders, running, ended, owed, sharers>>

SignalStep(p) ==
    \/ StartProgram(p) \/ SignalOpen(p) \/ Register(p) \/ SignalClose(p)
    \/ EndProgram(p) \/ HandleSignal(p)
    \/ \E c \in Programs \ {p} : Fork(p, c)

SignalNext == Press \/ \E p \in Programs : SignalStep(p)

SignalSpec == SignalInit /\ [][SignalNext]_signalVars

-----------------------------------------------------------------------------
(* Properties *)

(* Files are held by processes that exist; a process number is used once.  *)
SignalTypeOK ==
    /\ task \in Programs \cup {Nobody}
    /\ holders \in [Files -> SUBSET running]
    /\ running \subseteq Programs /\ ended \subseteq Programs
    /\ running \cap ended = {}
    /\ pending \subseteq Programs
    /\ owed \subseteq running /\ sharers \subseteq Programs

(* The process that the interrupt handler sends its signal to exists and   *)
(* has the device open, whoever else opens and closes it, except where a   *)
(* fork has given the file to another process, which keeps it open.        *)
TaskIsThere ==
    task # Nobody /\ task \notin sharers => task \in running /\ FilesOf(task) # {}

(* After the last close, before rmmod may follow, no process is left       *)
(* registered.                                                             *)
TaskNeedsFile == task # Nobody => \E f \in Files : holders[f] # {}

(* Every program that registered, and has not closed the device since, is  *)
(* the one that a press of the button sends the signal to.                 *)
RegisteredIsSignalled ==
    [][Press => owed \subseteq pending']_signalVars
=============================================================================
