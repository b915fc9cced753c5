------------------------------- MODULE LkmText -------------------------------
(***************************************************************************)
(* What can be checked on the text of a module, statement by statement,    *)
(* and what follows from it for the module's life.  LkmProofs proves the   *)
(* properties of LkmLifecycle for each table whose texts are sound; that   *)
(* those of the repository are is part of HeldAsWritten.                   *)
(***************************************************************************)
EXTENDS LkmLifecycle

Members(s) == {s[i] : i \in DOMAIN s}

(* What may be missing at step k, since a failure has led past it: one     *)
(* that the module misses, or one after which retval is still 0.           *)
Lost(l, k) ==
    {l.init[j].what : j \in {i \in DOMAIN l.init : i < k /\ l.init[i].fails = "missed"}}
    \cup
    UNION {Acquired(l, l.init[j].then) \ (Acquired(l, j) \ Members(l.init[j].undo)) :
               j \in {i \in DOMAIN l.init :
                          l.init[i].fails = "caught" /\ l.init[i].then \in 1..k}}

(* What is there on every path that reaches step k.                        *)
Sure(l, k) == Acquired(l, k) \ (l.ends \cup Lost(l, k))

(* Apart from left each error label gives back what the steps before it    *)
(* have taken, or the caller goes on where the rest is taken, too; the     *)
(* exit function gives back the others.                                    *)
Balanced(l, left) ==
    /\ \A k \in DOMAIN l.init : l.init[k].fails = "caught" =>
           Acquired(l, k) \subseteq Members(l.init[k].undo)
               \cup (IF l.init[k].then = 0 THEN left ELSE Acquired(l, l.init[k].then))
    /\ Owned(l) \subseteq Members(l.exit) \cup left

(* In s there is an a before each b.                                       *)
Precedes(s, a, b) == \A i \in DOMAIN s : s[i] = b => \E j \in 1..i - 1 : s[j] = a

(* Nothing ever releases r.                                                *)
Permanent(l, r) ==
    /\ r \notin l.ends /\ r \notin Members(l.exit)
    /\ \A k \in DOMAIN l.init :
         /\ r \notin Members(l.init[k].undo)
         /\ ~(l.init[k].op = "give" /\ l.init[k].what = r)

(* What a resource relies on is taken before it, and released after it on  *)
(* every path or never.                                                    *)
Ordered(l, excused) ==
    \A p \in l.needs : p[1] \notin excused =>
        /\ \A k \in DOMAIN l.init :
             l.init[k].op = "take" /\ l.init[k].what = p[1] =>
                 p[2] \in Sure(l, k) \cup l.init[k].given
        /\ \/ Permanent(l, p[2])
           \/ /\ p[2] \notin l.ends
              /\ p[1] \in Owned(l) => Precedes(l.exit, p[1], p[2])
              /\ \A k \in DOMAIN l.init : p[1] \in Acquired(l, k) =>
                   /\ ~(l.init[k].op = "give" /\ l.init[k].what = p[2])
                   /\ l.init[k].fails = "caught" => Precedes(l.init[k].undo, p[1], p[2])

NoRepeats(s, but) == \A i, j \in DOMAIN s : s[i] = s[j] /\ s[i] \notin but => i = j

(* What is released is there for sure, and released once.                  *)
Releasable(l, excused) ==
    LET but == excused \cup l.mayBeGone
    IN  /\ NoRepeats(l.exit, but) /\ Members(l.exit) \subseteq Sure(l, Len(l.init) + 1) \cup but
        /\ \A k \in DOMAIN l.init :
             /\ l.init[k].fails = "caught" =>
                  /\ NoRepeats(l.init[k].undo, but)
                  /\ Members(l.init[k].undo) \subseteq Sure(l, k) \cup but
             /\ l.init[k].op = "give" => l.init[k].what \in Sure(l, k) \cup but

(* What is used is there for sure.                                         *)
Usable(l, excused) ==
    \A k \in DOMAIN l.init :
        l.init[k].op = "use" => l.init[k].what \subseteq Sure(l, k) \cup excused

(* Nothing that a loaded module owns may be missing.                       *)
Complete(l, excused) == Owned(l) \cap Lost(l, Len(l.init) + 1) \subseteq l.ends \cup excused

(* From step k on programs may have the device file open.                  *)
Published(l, k) == \E j \in 1..k : {"device", "cdev"} \subseteq Acquired(l, j)

(* Open files keep the module in, and once the device file is there the    *)
(* init function fails no more, or returns 0 all the same, and all that    *)
(* the file operations use is there.                                       *)
Guarded(l, left, excused) ==
    \/ ~({"device", "cdev"} \subseteq Resources(l))
    \/ l.fileNeeds \subseteq excused /\ (l.probe \/ "code" \in excused)
    \/ /\ l.owner /\ ~l.probe /\ ~({"device", "cdev"} \subseteq left)
       /\ \A k \in DOMAIN l.init : Published(l, k) /\ l.init[k].fails = "caught" =>
            l.init[k].then # 0 /\ l.fileNeeds \cap Members(l.init[k].undo) \subseteq excused
       /\ \A k \in 1..Len(l.init) + 1 :
            Published(l, k) => l.fileNeeds \subseteq Sure(l, k) \cup excused

(* The text of module n is such that the properties follow from how it     *)
(* reads, but for the resources on record; it has none of them by luck.    *)
TextIsSound(n) ==
    LET l    == Table[n]
        left == Defects["NothingLeft"][n]
    IN  /\ Balanced(l, left)
        /\ Ordered(l, Defects["NeedsHeld"][n])
        /\ Releasable(l, Defects["ReleasedOnce"][n])
        /\ Usable(l, Defects["UsesHeld"][n])
        /\ Complete(l, Defects["LoadedMeansReady"][n])
        /\ Guarded(l, left, Defects["FileUsable"][n])

TextsAreSound == \A n \in Lkms : TextIsSound(n)

-----------------------------------------------------------------------------
(* The text and the life *)

(* The module has at most what its steps have acquired, and while          *)
(* resources are released what is still to be released, what is taken      *)
(* where the init function goes on, or what stays behind.                  *)
HeldAtMost ==
    LET left == Known("NothingLeft")
    IN  /\ phase = "out" => held \subseteq left
        /\ phase \in {"init", "undo", "in"} => held \subseteq Acquired(Lkm, at)
        /\ phase = "undo" =>
             held \subseteq Members(todo)
                 \cup (IF Step.then = 0 THEN left ELSE Acquired(Lkm, Step.then))
        /\ phase = "exit" => held \subseteq Members(todo) \cup left

(* The module has what all paths that lead to its step have acquired; an   *)
(* error label takes away just what it names.                              *)
HeldAtLeast ==
    /\ phase \in {"init", "in"} => Sure(Lkm, at) \subseteq held
    /\ phase = "undo" => /\ Members(todo) \subseteq Members(Step.undo)
                         /\ Sure(Lkm, at) \ Members(Step.undo) \subseteq held

(* The text of the module that is loaded is sound, and in each state it    *)
(* bounds what the module has, from both sides: no failure, noticed or     *)
(* not, and no error label leads to a step at which it has more or less    *)
(* than the text up to that step says.                                     *)
HeldAsWritten == TextIsSound(lkm) /\ HeldAtMost /\ HeldAtLeast
=============================================================================
