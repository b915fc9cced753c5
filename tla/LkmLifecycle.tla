---------------------------- MODULE LkmLifecycle ----------------------------
(***************************************************************************)
(* What happens between insmod (or the probe of a platform driver) and     *)
(* rmmod (or its removal): a module acquires kernel resources one step     *)
(* after the other, any step that can fail may fail, the error labels give *)
(* back what the earlier steps took, and the exit function gives back the  *)
(* rest.  A failure may go unnoticed: many functions of the kernel return  *)
(* an error pointer where the module looks for a null pointer.  Meanwhile  *)
(* timers and threads that are already set up run, and user programs open  *)
(* the device file that is already published.                              *)
(*                                                                         *)
(* The modules themselves are data: LkmTable lists the init and the exit   *)
(* function of each.  The kernel is external to the repository.            *)
(***************************************************************************)
EXTENDS Naturals, Sequences

CONSTANTS
    Table,      \* for every module the record that describes it
    Lkms,       \* the modules to load
    Defects,    \* for a property and a module the resources for which the
                \* module is known not to have the property
    MaxUsers    \* bound: how many programs hold the device file open

ASSUME LkmsInTable == Lkms \subseteq DOMAIN Table
ASSUME MaxUsersIsNatural == MaxUsers \in Nat
ASSUME TableIsTyped ==
    \A n \in Lkms :
        /\ Len(Table[n].init) \in Nat
        /\ DOMAIN Table[n].init = 1..Len(Table[n].init)
        /\ \A i \in DOMAIN Table[n].init :
             /\ Table[n].init[i].undo \in Seq(STRING)
             /\ Table[n].init[i].then \in {0} \cup i + 1..Len(Table[n].init) + 1
             /\ Table[n].init[i].fails = "missed" => Table[n].init[i].op = "take"
        /\ Table[n].exit \in Seq(STRING)

VARIABLES
    lkm,        \* the module, the same one for the whole behaviour
    phase,      \* "out", "init", "undo" (after an error), "in" or "exit"
    at,         \* the step of the init function
    todo,       \* the resources that are still to be released
    held,       \* the resources the module has
    users       \* the programs that hold the device file open

vars == <<lkm, phase, at, todo, held, users>>

Lkm  == Table[lkm]
Step == Lkm.init[at]

-----------------------------------------------------------------------------
Init ==
    /\ lkm \in Lkms
    /\ phase = "out" /\ at = 1 /\ todo = <<>> /\ held = {} /\ users = 0

\* The end of the init function is missed by one.
ResumeLate(k) ==
    /\ at' = k
    /\ phase' = IF k > Len(Lkm.init) + 1 THEN "in" ELSE "init"

(* The init function goes on at step k, or returns 0 after the last one.   *)
Resume(k) ==
    /\ at' = k
    /\ phase' = IF k > Len(Lkm.init) THEN "in" ELSE "init"

(* What an earlier life has left behind is out of the module's reach.      *)
Load ==
    /\ phase = "out"
    /\ Resume(1)
    /\ held' = {}
    /\ UNCHANGED <<lkm, todo, users>>

(* device_create and its like fail when they are given an error pointer.   *)
StepDone ==
    /\ phase = "init" /\ Step.given \subseteq held
    /\ held' = CASE Step.op = "take" -> held \cup {Step.what}
                 [] Step.op = "give" -> held \ {Step.what}
                 [] OTHER            -> held
    /\ Resume(at + 1)
    /\ UNCHANGED <<lkm, todo, users>>

(* The step fails: the init function jumps to its error label.             *)
StepFails ==
    /\ phase = "init" /\ Step.fails = "caught"
    /\ phase' = "undo"
    /\ todo' = Step.undo
    /\ UNCHANGED <<lkm, at, held, users>>

(* The step fails with an error pointer, which is not a null pointer: the  *)
(* init function goes on without the resource.                             *)
StepFailsUnnoticed ==
    /\ phase = "init" /\ Step.fails = "missed"
    /\ Resume(at + 1)
    /\ UNCHANGED <<lkm, todo, held, users>>

Release ==
    /\ phase \in {"undo", "exit"} /\ todo # <<>>
    /\ held' = held \ {Head(todo)}
    /\ todo' = Tail(todo)
    /\ UNCHANGED <<lkm, phase, at, users>>

\* The init function returns 0 from its error label.
UndoneAsLoaded ==
    /\ phase = "undo" /\ todo = <<>>
    /\ Resume(IF Step.then = 0 THEN Len(Lkm.init) + 1 ELSE Step.then)
    /\ UNCHANGED <<lkm, todo, held, users>>

(* After an error the init function returns an error, and the module is    *)
(* out; where retval is still 0 its caller goes on as after a success.     *)
Undone ==
    /\ phase = "undo" /\ todo = <<>>
    /\ IF Step.then = 0 THEN phase' = "out" /\ at' = 1 ELSE Resume(Step.then)
    /\ UNCHANGED <<lkm, todo, held, users>>

(* rmmod is refused while a program has a file open whose operations name  *)
(* their owner; a driver can be unbound from its device at any time.       *)
Unload ==
    /\ phase = "in"
    /\ Lkm.probe \/ ~Lkm.owner \/ users = 0
    /\ phase' = "exit"
    /\ todo' = Lkm.exit
    /\ UNCHANGED <<lkm, at, held, users>>

Unloaded ==
    /\ phase = "exit" /\ todo = <<>>
    /\ phase' = "out" /\ at' = 1
    /\ UNCHANGED <<lkm, todo, held, users>>

(* A program opens the device file: it needs the node and the cdev, and    *)
(* the kernel takes a reference unless the module is already going.        *)
Open ==
    /\ {"device", "cdev"} \subseteq held /\ users < MaxUsers
    /\ Lkm.owner /\ ~Lkm.probe => phase # "exit"
    /\ users' = users + 1
    /\ UNCHANGED <<lkm, phase, at, todo, held>>

Close ==
    /\ users > 0
    /\ users' = users - 1
    /\ UNCHANGED <<lkm, phase, at, todo, held>>

(* A timer expires or a thread returns: it is gone without being stopped.  *)
Ends ==
    /\ \E r \in held \cap Lkm.ends : held' = held \ {r}
    /\ UNCHANGED <<lkm, phase, at, todo, users>>

Next == \/ Load \/ StepDone \/ StepFails \/ StepFailsUnnoticed \/ Release \/ Undone
        \/ Unload \/ Unloaded \/ Open \/ Close \/ Ends

Spec == Init /\ [][Next]_vars

-----------------------------------------------------------------------------
(* Properties *)

Resources(l) ==
    {l.init[i].what : i \in {j \in DOMAIN l.init : l.init[j].op = "take"}}

(* What the module has when its init function reaches step k.              *)
Acquired(l, k) ==
    {l.init[i].what : i \in {j \in DOMAIN l.init :
        /\ j < k /\ l.init[j].op = "take"
        /\ \A m \in DOMAIN l.init :
               j < m /\ m < k => ~(l.init[m].op = "give" /\ l.init[m].what = l.init[j].what)}}

Owned(l) == Acquired(l, Len(l.init) + 1)

(* The defects found in the modules are on record, resource by resource:   *)
(* each property is asked of every module and excuses just those.          *)
Known(property) == Defects[property][lkm]

(* One module at a time goes through the phases, at a step that it has,    *)
(* with resources that it names.                                           *)
TypeOK ==
    /\ lkm \in Lkms
    /\ phase \in {"out", "init", "undo", "in", "exit"}
    /\ at \in 1..Len(Lkm.init) + 1
    /\ phase \in {"init", "undo"} => at <= Len(Lkm.init)
    /\ held \subseteq Resources(Lkm)
    /\ users \in 0..MaxUsers

(* Nothing outlives the module: after a failed init and after an exit the  *)
(* module has given back all that it took.                                 *)
NothingLeft == phase = "out" => held \subseteq Known("NothingLeft")

(* What another resource or a handler that may run relies on is there: no  *)
(* device without its class and number, no interrupt whose handler reads   *)
(* registers that are not mapped, no timer whose callback drives a freed   *)
(* pin.                                                                    *)
NeedsHeld ==
    \A p \in Lkm.needs : p[1] \in held \ Known("NeedsHeld") => p[2] \in held

(* What the next statement releases.                                       *)
Releasing ==
    IF todo # <<>> THEN {Head(todo)}
    ELSE IF phase = "init" /\ Step.op = "give" THEN {Step.what} ELSE {}

(* Only what the module has is released, and that once, in an error path,  *)
(* in the exit function and half way through the init function.            *)
ReleasedOnce ==
    Releasing \subseteq held \cup Lkm.mayBeGone \cup Known("ReleasedOnce")

(* The init function uses only what it has.                                *)
UsesHeld ==
    phase = "init" /\ Step.op = "use" => Step.what \subseteq held \cup Known("UsesHeld")

(* An init function that returns 0 has acquired everything.                *)
LoadedMeansReady ==
    phase = "in" => Owned(Lkm) \subseteq held \cup Lkm.ends \cup Known("LoadedMeansReady")

(* What the file operations use and is not there, their code included.     *)
Lacking ==
    (Lkm.fileNeeds \ held) \cup IF phase = "out" /\ ~Lkm.probe THEN {"code"} ELSE {}

(* While a program has the device file open, what the file operations use  *)
(* is there, and so is their code.                                         *)
FileUsable == users > 0 => Lacking \subseteq Known("FileUsable")

=============================================================================
