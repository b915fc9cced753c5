------------------------------ MODULE LkmProofs ------------------------------
(***************************************************************************)
(* What the text of a module says about its life: for every table whose    *)
(* texts are sound (TextsAreSound) each property of LkmLifecycle holds,    *)
(* whichever step fails, noticed or not, whatever ends by itself and       *)
(* whoever holds the device file open.  The table of the repository is one *)
(* instance: Lkm_all checks that its texts are sound.                      *)
(***************************************************************************)
EXTENDS LkmText, TLAPS

-----------------------------------------------------------------------------
(* Types                                                                   *)

(* What the table gives for the module that is loaded.                     *)
LEMMA LkmIsTyped ==
    ASSUME lkm \in Lkms
    PROVE  /\ Len(Lkm.init) \in Nat /\ DOMAIN Lkm.init = 1..Len(Lkm.init)
           /\ \A i \in DOMAIN Lkm.init :
                /\ Lkm.init[i].undo \in Seq(STRING)
                /\ Lkm.init[i].then \in 0..Len(Lkm.init) + 1
                /\ Lkm.init[i].then # 0 => Lkm.init[i].then > i
                /\ Lkm.init[i].fails = "missed" => Lkm.init[i].op = "take"
           /\ Lkm.exit \in Seq(STRING)
BY TableIsTyped DEF Lkm

LEMMA LkmIsKept ==
    ASSUME [Next]_vars
    PROVE  lkm' = lkm /\ Lkm' = Lkm
BY DEF Next, Load, StepDone, StepFails, StepFailsUnnoticed, Release, Undone, Unload,
       Unloaded, Open, Close, Ends, vars, Lkm

(* The conditions on the text hold of the module that is loaded.           *)
LEMMA LkmIsSound ==
    ASSUME TextsAreSound, lkm \in Lkms
    PROVE  /\ TextIsSound(lkm)
           /\ Balanced(Lkm, Known("NothingLeft"))
           /\ Ordered(Lkm, Known("NeedsHeld"))
           /\ Releasable(Lkm, Known("ReleasedOnce"))
           /\ Usable(Lkm, Known("UsesHeld"))
           /\ Complete(Lkm, Known("LoadedMeansReady"))
           /\ Guarded(Lkm, Known("NothingLeft"), Known("FileUsable"))
BY DEF TextsAreSound, TextIsSound, Lkm, Known

(* An init function only takes resources that it names.                    *)
LEMMA TypesInvariant ==
    ASSUME TypeOK, [Next]_vars
    PROVE  TypeOK'
<1>1. /\ Len(Lkm.init) \in Nat /\ DOMAIN Lkm.init = 1..Len(Lkm.init)
      /\ \A i \in DOMAIN Lkm.init : Lkm.init[i].then \in 0..Len(Lkm.init) + 1
  BY LkmIsTyped DEF TypeOK
<1>2. lkm' = lkm /\ Lkm' = Lkm
  BY LkmIsKept
<1>3. ASSUME NEW k \in 1..Len(Lkm.init) + 1, Resume(k), held' \subseteq Resources(Lkm),
             users' = users
      PROVE  TypeOK'
  BY <1>1, <1>2, <1>3 DEF TypeOK, Resume
<1>4. CASE Load
  BY <1>1, <1>3, <1>4 DEF Load, TypeOK
<1>5. CASE StepDone
  <2>1. at \in DOMAIN Lkm.init /\ at + 1 \in 1..Len(Lkm.init) + 1
    BY <1>1, <1>5 DEF StepDone, TypeOK
  <2>2. Step.op = "take" => Step.what \in Resources(Lkm)
    BY <2>1 DEF Resources, Step
  <2>3. held' \subseteq Resources(Lkm)
    BY <1>5, <2>2 DEF StepDone, TypeOK
  <2> QED
    BY <1>3, <1>5, <2>1, <2>3 DEF StepDone
<1>6. CASE Undone
  <2>1. at \in DOMAIN Lkm.init
    BY <1>1, <1>6 DEF Undone, TypeOK
  <2>2. Step.then \in 0..Len(Lkm.init) + 1
    BY <1>1, <2>1 DEF Step
  <2>3. CASE Step.then = 0
    BY <1>1, <1>2, <1>6, <2>3 DEF Undone, TypeOK
  <2>4. CASE Step.then # 0
    BY <1>1, <1>3, <1>6, <2>2, <2>4 DEF Undone, TypeOK
  <2> QED
    BY <2>3, <2>4
<1>7. CASE StepFails \/ Release \/ Unload \/ Unloaded \/ Ends \/ UNCHANGED vars
  BY <1>1, <1>2, <1>7
     DEF StepFails, Release, Unload, Unloaded, Ends, vars, TypeOK
<1>8. CASE Open \/ Close
  BY <1>1, <1>2, <1>8, MaxUsersIsNatural DEF Open, Close, TypeOK
<1>9. CASE StepFailsUnnoticed
  BY <1>1, <1>3, <1>9 DEF StepFailsUnnoticed, TypeOK
<1> QED
  BY <1>4, <1>5, <1>6, <1>7, <1>8, <1>9 DEF Next

(* Whatever the table holds, a module runs the steps that it has with the  *)
(* resources that it names.                                                *)
THEOREM LkmTypes == Spec => []TypeOK
<1>1. Init => TypeOK
  BY TableIsTyped, LkmsInTable, MaxUsersIsNatural DEF Init, TypeOK, Lkm
<1> QED
  BY <1>1, TypesInvariant, PTL DEF Spec

-----------------------------------------------------------------------------
(* What the steps have acquired, and sequences of releases                 *)

(* A step that takes or gives back something changes what has been         *)
(* acquired in just that way.                                              *)
LEMMA AcquiredGrows ==
    ASSUME NEW l, NEW k \in DOMAIN l.init, DOMAIN l.init \subseteq Nat
    PROVE  /\ l.init[k].op = "take" =>
                  Acquired(l, k) \cup {l.init[k].what} \subseteq Acquired(l, k + 1)
           /\ l.init[k].op = "give" =>
                  Acquired(l, k) \ {l.init[k].what} \subseteq Acquired(l, k + 1)
           /\ l.init[k].op \notin {"take", "give"} =>
                  Acquired(l, k) \subseteq Acquired(l, k + 1)
<1>1. ASSUME NEW r \in Acquired(l, k), ~(l.init[k].op = "give" /\ l.init[k].what = r)
      PROVE  r \in Acquired(l, k + 1)
  <2>1. PICK j \in DOMAIN l.init :
            /\ j < k /\ l.init[j].op = "take" /\ l.init[j].what = r
            /\ \A m \in DOMAIN l.init :
                  j < m /\ m < k => ~(l.init[m].op = "give" /\ l.init[m].what = l.init[j].what)
    BY DEF Acquired
  <2>2. \A m \in DOMAIN l.init : m < k + 1 => m < k \/ m = k
    OBVIOUS
  <2>3. j < k + 1
    BY <2>1
  <2> QED
    BY <1>1, <2>1, <2>2, <2>3 DEF Acquired
<1>2. l.init[k].op = "take" => l.init[k].what \in Acquired(l, k + 1)
  <2>1. k < k + 1 /\ \A m \in DOMAIN l.init : ~(k < m /\ m < k + 1)
    OBVIOUS
  <2> QED
    BY <2>1 DEF Acquired
<1> QED
  BY <1>1, <1>2

LEMMA AcquiredKnown ==
    ASSUME NEW l, NEW k \in DOMAIN l.init, DOMAIN l.init \subseteq Nat,
           NEW r \in Acquired(l, k + 1)
    PROVE  /\ l.init[k].op # "take" => r \in Acquired(l, k)
           /\ l.init[k].op = "take" => r \in Acquired(l, k) \/ r = l.init[k].what
           /\ l.init[k].op = "give" => r # l.init[k].what
<1>1. PICK j \in DOMAIN l.init :
          /\ j < k + 1 /\ l.init[j].op = "take" /\ l.init[j].what = r
          /\ \A m \in DOMAIN l.init :
               j < m /\ m < k + 1 => ~(l.init[m].op = "give" /\ l.init[m].what = l.init[j].what)
  BY DEF Acquired
<1>2. \A m \in DOMAIN l.init : m < k => m < k + 1
  OBVIOUS
<1>3. CASE j = k
  BY <1>1, <1>3
<1>4. CASE j # k
  <2>1. j < k /\ k < k + 1
    BY <1>1, <1>4
  <2>2. r \in Acquired(l, k)
    BY <1>1, <1>2, <2>1 DEF Acquired
  <2> QED
    BY <1>1, <2>1, <2>2
<1> QED
  BY <1>3, <1>4

(* What precedes another in a sequence does so when the first element has  *)
(* been taken off, if that was neither of them.                            *)
LEMMA PrecedesTail ==
    ASSUME NEW s \in Seq(STRING), s # <<>>, NEW a, NEW b, a # Head(s), Precedes(s, a, b)
    PROVE  Head(s) # b /\ Precedes(Tail(s), a, b)
<1>1. /\ Len(s) \in Nat \ {0} /\ Len(Tail(s)) = Len(s) - 1 /\ Tail(s) \in Seq(STRING)
      /\ Head(s) = s[1] /\ DOMAIN s = 1..Len(s) /\ DOMAIN Tail(s) = 1..Len(s) - 1
      /\ \A i \in 1..Len(s) - 1 : Tail(s)[i] = s[i + 1]
  OBVIOUS
<1>2. Head(s) # b
  BY <1>1 DEF Precedes
<1>3. ASSUME NEW i \in DOMAIN Tail(s), Tail(s)[i] = b
      PROVE  \E j \in 1..i - 1 : Tail(s)[j] = a
  <2>1. i \in Nat /\ i + 1 \in DOMAIN s /\ s[i + 1] = b
    BY <1>1, <1>3
  <2>2. PICK j \in 1..(i + 1) - 1 : s[j] = a
    BY <2>1 DEF Precedes
  <2>3. j # 1
    BY <1>1, <2>2
  <2>4. j - 1 \in 1..i - 1 /\ j - 1 \in 1..Len(s) - 1 /\ (j - 1) + 1 = j
    BY <1>1, <1>3, <2>1, <2>2, <2>3
  <2> QED
    BY <1>1, <2>2, <2>4
<1> QED
  BY <1>2, <1>3 DEF Precedes

(* Releasing the first resource of a sequence leaves the others.           *)
LEMMA MembersTail ==
    ASSUME NEW s \in Seq(STRING), s # <<>>
    PROVE  /\ Tail(s) \in Seq(STRING)
           /\ Head(s) \in Members(s)
           /\ Members(Tail(s)) \subseteq Members(s)
           /\ Members(s) \ {Head(s)} \subseteq Members(Tail(s))
<1>1. /\ Len(s) \in Nat \ {0} /\ Head(s) = s[1] /\ Tail(s) \in Seq(STRING)
      /\ DOMAIN s = 1..Len(s) /\ DOMAIN Tail(s) = 1..Len(s) - 1
      /\ \A i \in 1..Len(s) - 1 : Tail(s)[i] = s[i + 1]
  OBVIOUS
<1>2. \A i \in DOMAIN Tail(s) : i + 1 \in DOMAIN s /\ Tail(s)[i] = s[i + 1]
  BY <1>1
<1>3. ASSUME NEW i \in DOMAIN s, s[i] # Head(s)
      PROVE  s[i] \in Members(Tail(s))
  <2>1. i \in 2..Len(s)
    BY <1>1, <1>3
  <2>2. i - 1 \in DOMAIN Tail(s) /\ Tail(s)[i - 1] = s[i]
    BY <1>1, <2>1
  <2> QED
    BY <2>2 DEF Members
<1>4. Head(s) \in Members(s)
  BY <1>1 DEF Members
<1> QED
  BY <1>1, <1>2, <1>3, <1>4 DEF Members

(* A sequence without repetitions loses its first element for good.        *)
LEMMA RepeatsTail ==
    ASSUME NEW s \in Seq(STRING), s # <<>>, NEW but, NoRepeats(s, but)
    PROVE  /\ NoRepeats(Tail(s), but)
           /\ Members(Tail(s)) \subseteq Members(s)
           /\ Head(s) \in Members(Tail(s)) => Head(s) \in but
<1>1. /\ Len(s) \in Nat \ {0} /\ Head(s) = s[1]
      /\ DOMAIN s = 1..Len(s) /\ DOMAIN Tail(s) = 1..Len(s) - 1
      /\ \A i \in 1..Len(s) - 1 : Tail(s)[i] = s[i + 1]
  OBVIOUS
<1>2. \A i \in DOMAIN Tail(s) : i + 1 \in DOMAIN s /\ i + 1 # 1 /\ Tail(s)[i] = s[i + 1]
  BY <1>1
<1>3. NoRepeats(Tail(s), but)
  <2> SUFFICES ASSUME NEW i \in DOMAIN Tail(s), NEW j \in DOMAIN Tail(s),
                      Tail(s)[i] = Tail(s)[j], Tail(s)[i] \notin but
               PROVE  i = j
    BY DEF NoRepeats
  <2>1. i + 1 = j + 1
    BY <1>2 DEF NoRepeats
  <2> QED
    BY <1>1, <2>1
<1>4. Members(Tail(s)) \subseteq Members(s)
  BY <1>2 DEF Members
<1>5. ASSUME NEW i \in DOMAIN Tail(s), Tail(s)[i] = Head(s)
      PROVE  Head(s) \in but
  <2>1. s[i + 1] = s[1] /\ i + 1 # 1 /\ i + 1 \in DOMAIN s /\ 1 \in DOMAIN s
    BY <1>1, <1>2, <1>5
  <2> QED
    BY <1>1, <2>1 DEF NoRepeats
<1> QED
  BY <1>3, <1>4, <1>5 DEF Members

-----------------------------------------------------------------------------
(* The invariants                                                          *)

(* Where the module is in its text.                                        *)
Place ==
    /\ TypeOK
    /\ phase = "in" => at = Len(Lkm.init) + 1
    /\ phase = "undo" => Step.fails = "caught"
    /\ todo \in Seq(STRING)
    /\ phase \notin {"undo", "exit"} => todo = <<>>
    /\ phase = "exit" => Members(todo) \subseteq Members(Lkm.exit)

LEMMA PlaceInvariant ==
    ASSUME Place, [Next]_vars
    PROVE  Place'
<1>1. TypeOK'
  BY TypesInvariant DEF Place
<1>2. /\ lkm \in Lkms /\ at \in 1..Len(Lkm.init) + 1 /\ Lkm' = Lkm
      /\ Len(Lkm.init) \in Nat /\ DOMAIN Lkm.init = 1..Len(Lkm.init)
      /\ phase \in {"init", "undo"} => at \in DOMAIN Lkm.init
  BY LkmIsKept, LkmIsTyped DEF Place, TypeOK
<1>3. ASSUME NEW k, Resume(k), todo' = <<>>
      PROVE  Place'
  <2>1. k = at' /\ at' \in 1..Len(Lkm.init) + 1
    BY <1>1, <1>2, <1>3 DEF Resume, TypeOK
  <2> QED
    BY <1>1, <1>2, <1>3, <2>1 DEF Resume, Place
<1>4. CASE Load \/ StepDone \/ StepFailsUnnoticed
  BY <1>3, <1>4 DEF Load, StepDone, StepFailsUnnoticed, Place
<1>5. CASE StepFails
  <2>1. Step.undo \in Seq(STRING) /\ Step' = Step
    BY <1>2, <1>5, LkmIsTyped DEF StepFails, Step
  <2> QED
    BY <1>1, <1>5, <2>1 DEF StepFails, Place
<1>6. CASE Release
  <2>1. todo' \in Seq(STRING) /\ Members(todo') \subseteq Members(todo)
    BY <1>6, MembersTail DEF Release, Place
  <2> QED
    BY <1>1, <1>2, <1>6, <2>1 DEF Release, Place, Step
<1>7. CASE Undone
  <2>1. todo' = <<>>
    BY <1>7 DEF Undone
  <2>2. CASE Step.then = 0
    BY <1>1, <1>7, <2>1, <2>2 DEF Undone, Place
  <2>3. CASE Step.then # 0
    BY <1>3, <1>7, <2>1, <2>3 DEF Undone
  <2> QED
    BY <2>2, <2>3
<1>8. CASE Unload
  <2>1. Lkm.exit \in Seq(STRING)
    BY <1>2, LkmIsTyped
  <2> QED
    BY <1>1, <1>2, <1>8, <2>1 DEF Unload, Place
<1>9. CASE Unloaded
  BY <1>1, <1>9 DEF Unloaded, Place
<1>10. CASE Open \/ Close \/ Ends \/ UNCHANGED vars
  BY <1>1, <1>2, <1>10 DEF Open, Close, Ends, vars, Place, Step
<1> QED
  BY <1>4, <1>5, <1>6, <1>7, <1>8, <1>9, <1>10 DEF Next

(* The text bounds what the module has from above: an error label that     *)
(* gives back less, or a failure whose label is skipped, would leave more. *)
LEMMA AtMostInvariant ==
    ASSUME TextsAreSound, Place, HeldAtMost, [Next]_vars
    PROVE  HeldAtMost'
<1> DEFINE left == Known("NothingLeft")
<1>1. /\ lkm \in Lkms /\ at \in 1..Len(Lkm.init) + 1 /\ Lkm' = Lkm /\ lkm' = lkm
      /\ todo \in Seq(STRING)
      /\ Len(Lkm.init) \in Nat /\ DOMAIN Lkm.init = 1..Len(Lkm.init)
      /\ phase \in {"init", "undo"} => at \in DOMAIN Lkm.init
  BY LkmIsKept, LkmIsTyped DEF Place, TypeOK
<1>2. left' = left
  BY <1>1 DEF Known
<1>3. ASSUME NEW k, Resume(k), held' \subseteq Acquired(Lkm, k)
      PROVE  HeldAtMost'
  BY <1>1, <1>3 DEF Resume, HeldAtMost
<1>4. CASE Load
  BY <1>3, <1>4 DEF Load
<1>5. CASE StepDone
  <2>1. at \in DOMAIN Lkm.init /\ held \subseteq Acquired(Lkm, at) /\ Resume(at + 1)
    BY <1>1, <1>5 DEF StepDone, HeldAtMost
  <2>2. held' \subseteq Acquired(Lkm, at + 1)
    BY <1>1, <1>5, <2>1, AcquiredGrows DEF StepDone, Step
  <2> QED
    BY <1>3, <2>1, <2>2
<1>6. CASE StepFails
  <2>1. /\ at \in DOMAIN Lkm.init /\ held \subseteq Acquired(Lkm, at) /\ Step.fails = "caught"
        /\ Step = Lkm.init[at] /\ Step' = Step
    BY <1>1, <1>6 DEF StepFails, HeldAtMost, Step
  <2>2. Acquired(Lkm, at) \subseteq Members(Step.undo)
            \cup (IF Step.then = 0 THEN left ELSE Acquired(Lkm, Step.then))
    BY <1>1, <2>1, LkmIsSound DEF Balanced
  <2> QED
    BY <1>1, <1>2, <1>6, <2>1, <2>2 DEF StepFails, HeldAtMost
<1>7. CASE StepFailsUnnoticed
  <2>1. /\ at \in DOMAIN Lkm.init /\ held \subseteq Acquired(Lkm, at) /\ Resume(at + 1)
        /\ Lkm.init[at].op = "take" /\ held' = held
    BY <1>1, <1>7, LkmIsTyped DEF StepFailsUnnoticed, HeldAtMost, Step
  <2>2. Acquired(Lkm, at) \subseteq Acquired(Lkm, at + 1)
    BY <1>1, <2>1, AcquiredGrows
  <2> QED
    BY <1>3, <2>1, <2>2
<1>8. CASE Release
  <2>1. Members(todo) \ {Head(todo)} \subseteq Members(todo')
    BY <1>1, <1>8, MembersTail DEF Release
  <2>2. Step' = Step
    BY <1>1, <1>8 DEF Release, Step
  <2> QED
    BY <1>1, <1>2, <1>8, <2>1, <2>2 DEF Release, HeldAtMost
<1>9. CASE Undone
  <2>1. held \subseteq (IF Step.then = 0 THEN left ELSE Acquired(Lkm, Step.then))
    BY <1>9 DEF Undone, HeldAtMost, Members
  <2>2. CASE Step.then = 0
    BY <1>1, <1>2, <1>9, <2>1, <2>2 DEF Undone, HeldAtMost
  <2>3. CASE Step.then # 0
    BY <1>3, <1>9, <2>1, <2>3 DEF Undone
  <2> QED
    BY <2>2, <2>3
<1>10. CASE Unload
  <2>1. held \subseteq Owned(Lkm)
    BY <1>10 DEF Unload, HeldAtMost, Place, Owned
  <2>2. Owned(Lkm) \subseteq Members(Lkm.exit) \cup left
    BY <1>1, LkmIsSound DEF Balanced
  <2> QED
    BY <1>1, <1>2, <1>10, <2>1, <2>2 DEF Unload, HeldAtMost
<1>11. CASE Unloaded
  <2>1. held \subseteq left
    BY <1>11 DEF Unloaded, HeldAtMost, Members
  <2> QED
    BY <1>2, <1>11, <2>1 DEF Unloaded, HeldAtMost
<1>12. CASE Open \/ Close \/ Ends \/ UNCHANGED vars
  <2>1. held' \subseteq held /\ phase' = phase /\ at' = at /\ todo' = todo /\ Step' = Step
    BY <1>1, <1>12 DEF Open, Close, Ends, vars, Step
  <2> QED
    BY <1>1, <1>2, <2>1 DEF HeldAtMost
<1> QED
  BY <1>4, <1>5, <1>6, <1>7, <1>8, <1>9, <1>10, <1>11, <1>12 DEF Next

(* A later step has lost all that an earlier one has.                      *)
LEMMA LostGrows ==
    ASSUME NEW l, NEW i \in Nat, NEW j \in Nat, i <= j, DOMAIN l.init \subseteq Nat
    PROVE  Lost(l, i) \subseteq Lost(l, j)
<1>1. 1..i \subseteq 1..j /\ \A k \in DOMAIN l.init : k < i => k < j
  OBVIOUS
<1> QED
  BY <1>1 DEF Lost

(* The text bounds what the module has from below, but for what a failure  *)
(* led past.                                                               *)
LEMMA AtLeastInvariant ==
    ASSUME Place, HeldAtLeast, [Next]_vars
    PROVE  HeldAtLeast'
<1>1. /\ lkm \in Lkms /\ at \in 1..Len(Lkm.init) + 1 /\ Lkm' = Lkm /\ todo \in Seq(STRING)
      /\ Len(Lkm.init) \in Nat /\ DOMAIN Lkm.init = 1..Len(Lkm.init)
      /\ phase \in {"init", "undo"} => at \in DOMAIN Lkm.init
  BY LkmIsKept, LkmIsTyped DEF Place, TypeOK
<1>2. ASSUME NEW k, Resume(k), Sure(Lkm, k) \subseteq held'
      PROVE  HeldAtLeast'
  BY <1>1, <1>2 DEF Resume, HeldAtLeast
<1>3. CASE Load
  <2>1. Acquired(Lkm, 1) = {}
    BY <1>1 DEF Acquired
  <2> QED
    BY <1>2, <1>3, <2>1 DEF Load, Sure
\* What a step acquires is there once it is done, or lost.
<1>4. ASSUME phase = "init", NEW r \in Sure(Lkm, at + 1)
      PROVE  /\ r \in held \/ (Step.op = "take" /\ r = Step.what)
             /\ Step.op = "give" => r # Step.what
             /\ Step.fails = "missed" => r # Step.what
  <2>1. /\ at \in DOMAIN Lkm.init /\ at \in Nat /\ at + 1 \in Nat /\ at <= at + 1
        /\ Sure(Lkm, at) \subseteq held /\ Step = Lkm.init[at]
    BY <1>1, <1>4 DEF HeldAtLeast, Step
  <2>2. r \in Acquired(Lkm, at + 1) /\ r \notin Lkm.ends /\ r \notin Lost(Lkm, at + 1)
    BY <1>4 DEF Sure
  <2>3. r \notin Lost(Lkm, at)
    BY <1>1, <2>1, <2>2, LostGrows
  <2>4. /\ Step.op # "take" => r \in Acquired(Lkm, at)
        /\ Step.op = "take" => r \in Acquired(Lkm, at) \/ r = Step.what
        /\ Step.op = "give" => r # Step.what
    BY <1>1, <2>1, <2>2, AcquiredKnown
  <2>5. r \in Acquired(Lkm, at) => r \in held
    BY <2>1, <2>2, <2>3 DEF Sure
  <2>6. Step.fails = "missed" => Step.what \in Lost(Lkm, at + 1)
    <3>1. at < at + 1
      BY <2>1
    <3> QED
      BY <2>1, <3>1 DEF Lost
  <2> QED
    BY <2>2, <2>4, <2>5, <2>6
<1>5. CASE StepDone
  <2>1. Sure(Lkm, at + 1) \subseteq held'
    BY <1>4, <1>5 DEF StepDone
  <2> QED
    BY <1>2, <1>5, <2>1 DEF StepDone
<1>6. CASE StepFailsUnnoticed
  <2>1. Sure(Lkm, at + 1) \subseteq held'
    BY <1>4, <1>6 DEF StepFailsUnnoticed
  <2> QED
    BY <1>2, <1>6, <2>1 DEF StepFailsUnnoticed
<1>7. CASE StepFails
  <2>1. Step' = Step /\ Sure(Lkm, at) \subseteq held
    BY <1>1, <1>7 DEF StepFails, HeldAtLeast, Step
  <2> QED
    BY <1>1, <1>7, <2>1 DEF StepFails, HeldAtLeast
<1>8. CASE Release
  <2>1. /\ todo' = Tail(todo) /\ held' = held \ {Head(todo)} /\ phase' = phase /\ at' = at
        /\ Step' = Step /\ todo # <<>>
    BY <1>1, <1>8 DEF Release, Step
  <2>2. Members(Tail(todo)) \subseteq Members(todo) /\ Head(todo) \in Members(todo)
    BY <1>1, <2>1, MembersTail
  <2> QED
    BY <1>1, <1>8, <2>1, <2>2 DEF HeldAtLeast, Release
<1>9. CASE Undone
  <2>1. /\ at \in DOMAIN Lkm.init /\ at \in Nat /\ Step = Lkm.init[at] /\ Step.fails = "caught"
        /\ Sure(Lkm, at) \ Members(Step.undo) \subseteq held /\ held' = held
    BY <1>1, <1>9 DEF Undone, HeldAtLeast, Place, Step
  <2>2. CASE Step.then = 0
    BY <1>9, <2>2 DEF Undone, HeldAtLeast
  <2>3. CASE Step.then # 0
    <3> DEFINE m == Step.then
    <3>1. m \in Nat /\ at <= m /\ m \in 1..m
      BY <1>1, <2>1, <2>3, LkmIsTyped
    <3>2. Lost(Lkm, at) \subseteq Lost(Lkm, m)
      BY <1>1, <2>1, <3>1, LostGrows
    <3>3. Acquired(Lkm, m) \ (Acquired(Lkm, at) \ Members(Step.undo)) \subseteq Lost(Lkm, m)
      BY <2>1, <3>1 DEF Lost
    <3>4. Sure(Lkm, m) \subseteq held'
      BY <2>1, <3>2, <3>3 DEF Sure
    <3> QED
      BY <1>2, <1>9, <2>3, <3>4 DEF Undone
  <2> QED
    BY <2>2, <2>3
<1>10. CASE Unload \/ Unloaded
  BY <1>10 DEF Unload, Unloaded, HeldAtLeast
<1>11. CASE Ends
  <2>1. PICK r \in Lkm.ends : held' = held \ {r}
    BY <1>11 DEF Ends
  <2>2. phase' = phase /\ at' = at /\ todo' = todo /\ Step' = Step /\ r \notin Sure(Lkm, at)
    BY <1>1, <1>11 DEF Ends, Step, Sure
  <2> QED
    BY <1>1, <2>1, <2>2 DEF HeldAtLeast
<1>12. CASE Open \/ Close \/ UNCHANGED vars
  BY <1>1, <1>12 DEF Open, Close, vars, HeldAtLeast, Step
<1> QED
  BY <1>3, <1>5, <1>6, <1>7, <1>8, <1>9, <1>10, <1>11, <1>12 DEF Next

(* What a resource relies on is there, and is released after it or never.  *)
HeldInOrder ==
    \A p \in Lkm.needs : p[1] \in held \ Known("NeedsHeld") =>
        /\ p[2] \in held
        /\ phase \in {"undo", "exit"} => Permanent(Lkm, p[2]) \/ Precedes(todo, p[1], p[2])

LEMMA OrderInvariant ==
    ASSUME TextsAreSound, Place, HeldAtMost, HeldAtLeast, HeldInOrder, [Next]_vars
    PROVE  HeldInOrder'
<1>1. /\ lkm \in Lkms /\ at \in 1..Len(Lkm.init) + 1 /\ Lkm' = Lkm /\ lkm' = lkm
      /\ todo \in Seq(STRING)
      /\ Len(Lkm.init) \in Nat /\ DOMAIN Lkm.init = 1..Len(Lkm.init)
      /\ phase \in {"init", "undo"} => at \in DOMAIN Lkm.init
  BY LkmIsKept, LkmIsTyped DEF Place, TypeOK
<1> SUFFICES ASSUME NEW p \in Lkm.needs, p[1] \in held', p[1] \notin Known("NeedsHeld")
             PROVE  /\ p[2] \in held'
                    /\ phase' \in {"undo", "exit"} =>
                         Permanent(Lkm, p[2]) \/ Precedes(todo', p[1], p[2])
  BY <1>1 DEF HeldInOrder, Known
<1>2. p[1] \in held =>
          /\ p[2] \in held
          /\ phase \in {"undo", "exit"} => Permanent(Lkm, p[2]) \/ Precedes(todo, p[1], p[2])
  BY DEF HeldInOrder
<1>3. /\ \A k \in DOMAIN Lkm.init :
           Lkm.init[k].op = "take" /\ Lkm.init[k].what = p[1] =>
               p[2] \in Sure(Lkm, k) \cup Lkm.init[k].given
      /\ ~Permanent(Lkm, p[2]) =>
           /\ p[2] \notin Lkm.ends
           /\ p[1] \in Owned(Lkm) => Precedes(Lkm.exit, p[1], p[2])
           /\ \A k \in DOMAIN Lkm.init : p[1] \in Acquired(Lkm, k) =>
                /\ ~(Lkm.init[k].op = "give" /\ Lkm.init[k].what = p[2])
                /\ Lkm.init[k].fails = "caught" => Precedes(Lkm.init[k].undo, p[1], p[2])
  BY <1>1, LkmIsSound DEF Ordered
<1>4. CASE StepDone
  <2>1. /\ at \in DOMAIN Lkm.init /\ held \subseteq Acquired(Lkm, at)
        /\ Sure(Lkm, at) \subseteq held /\ Step = Lkm.init[at] /\ Step.given \subseteq held
    BY <1>1, <1>4 DEF StepDone, HeldAtMost, HeldAtLeast, Step
  <2>2. Step.op = "take" /\ Step.what = p[1] => p[2] \in held
    BY <1>3, <2>1
  <2>3. p[1] \in held => ~(Step.op = "give" /\ Step.what = p[2])
    <3>1. CASE Permanent(Lkm, p[2])
      BY <2>1, <3>1 DEF Permanent
    <3>2. CASE ~Permanent(Lkm, p[2])
      BY <1>3, <2>1, <3>2
    <3> QED
      BY <3>1, <3>2
  <2>4. p[2] \in held'
    BY <1>2, <1>4, <2>2, <2>3 DEF StepDone
  <2>5. phase' \notin {"undo", "exit"}
    BY <1>4 DEF StepDone, Resume
  <2> QED
    BY <2>4, <2>5
<1>5. CASE StepFails
  <2>1. /\ at \in DOMAIN Lkm.init /\ p[1] \in Acquired(Lkm, at) /\ Step = Lkm.init[at]
        /\ Step.fails = "caught"
    BY <1>1, <1>5 DEF StepFails, HeldAtMost, Step
  <2>2. Permanent(Lkm, p[2]) \/ Precedes(Step.undo, p[1], p[2])
    BY <1>3, <2>1
  <2> QED
    BY <1>2, <1>5, <2>2 DEF StepFails
<1>6. CASE Release
  <2>1. /\ todo # <<>> /\ phase \in {"undo", "exit"} /\ phase' = phase
        /\ held' = held \ {Head(todo)} /\ todo' = Tail(todo)
    BY <1>6 DEF Release
  <2>2. p[1] \in held /\ p[1] # Head(todo)
    BY <2>1
  <2>3. p[2] \in held /\ (Permanent(Lkm, p[2]) \/ Precedes(todo, p[1], p[2]))
    BY <1>2, <2>1, <2>2
  <2>4. CASE Permanent(Lkm, p[2])
    <3>1. \/ Head(todo) \in Members(Lkm.exit)
          \/ \E k \in DOMAIN Lkm.init : Head(todo) \in Members(Lkm.init[k].undo)
      BY <1>1, <2>1, MembersTail DEF Place, HeldAtLeast, Step
    <3>2. Head(todo) # p[2]
      BY <2>4, <3>1 DEF Permanent
    <3> QED
      BY <2>1, <2>3, <2>4, <3>2
  <2>5. CASE Precedes(todo, p[1], p[2])
    BY <1>1, <2>1, <2>2, <2>3, <2>5, PrecedesTail
  <2> QED
    BY <2>3, <2>4, <2>5
<1>7. CASE Unload
  <2>1. p[1] \in held /\ held' = held /\ todo' = Lkm.exit /\ p[1] \in Owned(Lkm)
    BY <1>7 DEF Unload, HeldAtMost, Place, Owned
  <2> QED
    BY <1>2, <1>3, <2>1
<1>8. CASE Ends
  <2>1. PICK r \in Lkm.ends : held' = held \ {r}
    BY <1>8 DEF Ends
  <2>2. p[2] # r
    BY <1>3, <2>1 DEF Permanent
  <2> QED
    BY <1>2, <1>8, <2>1, <2>2 DEF Ends
<1>9. CASE StepFailsUnnoticed \/ Load \/ Undone \/ Unloaded
  BY <1>2, <1>9 DEF StepFailsUnnoticed, Load, Undone, Unloaded, Resume
<1>10. CASE Open \/ Close \/ UNCHANGED vars
  BY <1>2, <1>10 DEF Open, Close, vars
<1> QED
  BY <1>4, <1>5, <1>6, <1>7, <1>8, <1>9, <1>10 DEF Next

(* What may be released without being there, or is on record for it.       *)
Excused == Lkm.mayBeGone \cup Known("ReleasedOnce")

(* What is still to be released is there, once, and does not end before.   *)
Pending ==
    phase \in {"undo", "exit"} =>
        NoRepeats(todo, Excused) /\ Members(todo) \subseteq (held \ Lkm.ends) \cup Excused

LEMMA PendingInvariant ==
    ASSUME TextsAreSound, Place, HeldAtLeast, Pending, [Next]_vars
    PROVE  Pending'
<1>1. /\ lkm \in Lkms /\ at \in 1..Len(Lkm.init) + 1 /\ Lkm' = Lkm /\ lkm' = lkm
      /\ todo \in Seq(STRING)
      /\ Len(Lkm.init) \in Nat /\ DOMAIN Lkm.init = 1..Len(Lkm.init)
      /\ phase \in {"init", "undo"} => at \in DOMAIN Lkm.init
  BY LkmIsKept, LkmIsTyped DEF Place, TypeOK
<1>2. Excused' = Excused
  BY <1>1 DEF Excused, Known
<1> SUFFICES ASSUME phase' \in {"undo", "exit"}
             PROVE  /\ NoRepeats(todo', Excused)
                    /\ Members(todo') \subseteq (held' \ Lkm.ends) \cup Excused
  BY <1>1, <1>2 DEF Pending
<1>3. phase \in {"undo", "exit"} =>
          NoRepeats(todo, Excused) /\ Members(todo) \subseteq (held \ Lkm.ends) \cup Excused
  BY DEF Pending
<1>4. Known("ReleasedOnce") \cup Lkm.mayBeGone = Excused
  BY DEF Excused
<1>5. CASE StepFails
  <2>1. /\ at \in DOMAIN Lkm.init /\ Step = Lkm.init[at] /\ Step.fails = "caught"
        /\ Sure(Lkm, at) \subseteq held /\ todo' = Step.undo /\ held' = held
    BY <1>1, <1>5 DEF StepFails, HeldAtLeast, Step
  <2>2. NoRepeats(Step.undo, Excused) /\ Members(Step.undo) \subseteq Sure(Lkm, at) \cup Excused
    BY <1>1, <1>4, <2>1, LkmIsSound DEF Releasable
  <2> QED
    BY <2>1, <2>2 DEF Sure
<1>6. CASE Unload
  <2>1. Sure(Lkm, Len(Lkm.init) + 1) \subseteq held /\ todo' = Lkm.exit /\ held' = held
    BY <1>6 DEF Unload, HeldAtLeast, Place
  <2>2. /\ NoRepeats(Lkm.exit, Excused)
        /\ Members(Lkm.exit) \subseteq Sure(Lkm, Len(Lkm.init) + 1) \cup Excused
    BY <1>1, <1>4, LkmIsSound DEF Releasable
  <2> QED
    BY <2>1, <2>2 DEF Sure
<1>7. CASE Release
  <2>1. /\ todo # <<>> /\ phase \in {"undo", "exit"}
        /\ held' = held \ {Head(todo)} /\ todo' = Tail(todo)
    BY <1>7 DEF Release
  <2>2. /\ NoRepeats(Tail(todo), Excused) /\ Members(Tail(todo)) \subseteq Members(todo)
        /\ Head(todo) \in Members(Tail(todo)) => Head(todo) \in Excused
    BY <1>1, <1>3, <2>1, RepeatsTail
  <2> QED
    BY <1>3, <2>1, <2>2
<1>8. CASE Ends
  <2>1. PICK r \in Lkm.ends : held' = held \ {r}
    BY <1>8 DEF Ends
  <2>2. phase' = phase /\ todo' = todo
    BY <1>8 DEF Ends
  <2> QED
    BY <1>3, <2>1, <2>2
<1>9. CASE Load \/ StepDone \/ StepFailsUnnoticed \/ Undone \/ Unloaded
  BY <1>9 DEF Load, StepDone, StepFailsUnnoticed, Undone, Unloaded, Resume
<1>10. CASE Open \/ Close \/ UNCHANGED vars
  BY <1>3, <1>10 DEF Open, Close, vars
<1> QED
  BY <1>5, <1>6, <1>7, <1>8, <1>9, <1>10 DEF Next

(* The modules that an open file keeps where they are.                     *)
Stays(l, left) ==
    /\ l.owner /\ ~l.probe /\ ~({"device", "cdev"} \subseteq left)
    /\ \A k \in DOMAIN l.init :
           Published(l, k) /\ l.init[k].fails = "caught" => l.init[k].then # 0

OpenInside ==
    /\ users > 0 => {"device", "cdev"} \subseteq Resources(Lkm)
    /\ users > 0 /\ Stays(Lkm, Known("NothingLeft")) =>
         phase \in {"init", "undo", "in"} /\ Published(Lkm, at)

LEMMA OpenInvariant ==
    ASSUME TextsAreSound, Place, HeldAtMost, OpenInside, [Next]_vars
    PROVE  OpenInside'
<1>1. /\ lkm \in Lkms /\ at \in 1..Len(Lkm.init) + 1 /\ Lkm' = Lkm /\ lkm' = lkm
      /\ users \in Nat /\ Len(Lkm.init) \in Nat /\ DOMAIN Lkm.init = 1..Len(Lkm.init)
      /\ phase \in {"init", "undo"} => at \in DOMAIN Lkm.init
      /\ phase \in {"out", "init", "undo", "in", "exit"}
  BY LkmIsKept, LkmIsTyped, MaxUsersIsNatural DEF Place, TypeOK
<1>2. Known("NothingLeft")' = Known("NothingLeft")
  BY <1>1 DEF Known
<1>3. ASSUME users' > 0
      PROVE  Open \/ users > 0
  <2>1. Open \/ users' = users \/ (users > 0 /\ users' = users - 1)
    BY DEF Next, Load, StepDone, StepFails, StepFailsUnnoticed, Release, Undone, Unload,
           Unloaded, Close, Ends, vars
  <2> QED
    BY <1>3, <2>1
<1>4. users' > 0 => {"device", "cdev"} \subseteq Resources(Lkm)
  BY <1>3 DEF Open, Place, TypeOK, OpenInside
<1> SUFFICES ASSUME users' > 0, Stays(Lkm, Known("NothingLeft"))
             PROVE  phase' \in {"init", "undo", "in"} /\ Published(Lkm, at')
  BY <1>1, <1>2, <1>4 DEF OpenInside
<1>5. CASE Open
  <2>1. {"device", "cdev"} \subseteq held /\ phase # "exit" /\ phase' = phase /\ at' = at
    BY <1>5 DEF Open, Stays
  <2>2. phase # "out"
    BY <2>1 DEF HeldAtMost, Stays
  <2>3. phase \in {"init", "undo", "in"} /\ held \subseteq Acquired(Lkm, at)
    BY <1>1, <2>1, <2>2 DEF HeldAtMost
  <2>4. at \in 1..at
    BY <1>1
  <2> QED
    BY <2>1, <2>3, <2>4 DEF Published
<1>6. CASE ~Open
  <2>1. users > 0 /\ phase \in {"init", "undo", "in"} /\ Published(Lkm, at)
    BY <1>3, <1>6 DEF OpenInside
  \* Once the device file is there it stays there for the rest of the text.
  <2>2. ASSUME NEW k \in Nat, at <= k
        PROVE  Published(Lkm, k)
    <3>1. 1..at \subseteq 1..k
      BY <1>1, <2>2
    <3> QED
      BY <2>1, <3>1 DEF Published
  <2>3. ASSUME NEW k \in Nat, at <= k, Resume(k)
        PROVE  phase' \in {"init", "undo", "in"} /\ Published(Lkm, at')
    BY <2>2, <2>3 DEF Resume
  <2>4. CASE StepDone \/ StepFailsUnnoticed
    <3>1. at + 1 \in Nat /\ at <= at + 1
      BY <1>1
    <3> QED
      BY <2>3, <2>4, <3>1 DEF StepDone, StepFailsUnnoticed
  <2>5. CASE Undone
    <3>1. at \in DOMAIN Lkm.init /\ Step = Lkm.init[at] /\ Step.fails = "caught"
      BY <1>1, <2>5 DEF Undone, Place, Step
    <3>2. Step.then # 0
      BY <2>1, <3>1 DEF Stays
    <3>3. Step.then \in Nat /\ at <= Step.then
      BY <1>1, <3>1, <3>2, LkmIsTyped
    <3> QED
      BY <2>3, <2>5, <3>2, <3>3 DEF Undone
  <2>6. CASE Load \/ Unload \/ Unloaded
    <3>1. users = 0
      BY <2>1, <2>6 DEF Load, Unload, Unloaded, Stays
    <3> QED
      BY <2>1, <3>1
  <2>7. CASE StepFails \/ Release \/ Close \/ Ends \/ UNCHANGED vars
    BY <2>1, <2>7 DEF StepFails, Release, Close, Ends, vars
  <2> QED
    BY <1>6, <2>4, <2>5, <2>6, <2>7 DEF Next
<1> QED
  BY <1>5, <1>6

(* All that is known of a module at any moment, of whichever text.         *)
LkmInv == Place /\ HeldAtMost /\ HeldAtLeast /\ HeldInOrder /\ Pending /\ OpenInside

LEMMA LkmInvariant ==
    ASSUME TextsAreSound
    PROVE  Spec => []LkmInv
<1>1. Init => LkmInv
  <2> SUFFICES ASSUME Init
               PROVE  LkmInv
    OBVIOUS
  <2>1. Len(Lkm.init) \in Nat /\ lkm \in Lkms
    BY TableIsTyped, LkmsInTable DEF Init, Lkm
  <2> QED
    BY <2>1, MaxUsersIsNatural
       DEF Init, LkmInv, Place, TypeOK, HeldAtMost, HeldAtLeast, HeldInOrder, Pending, OpenInside
<1>2. LkmInv /\ [Next]_vars => LkmInv'
  BY PlaceInvariant, AtMostInvariant, AtLeastInvariant, OrderInvariant, PendingInvariant,
     OpenInvariant DEF LkmInv
<1> QED
  BY <1>1, <1>2, PTL DEF Spec

-----------------------------------------------------------------------------
(* What the text of a module says                                          *)

(* In each state of its life the text of a module bounds what it has, from *)
(* both sides, whichever steps have failed before.                         *)
THEOREM TextBoundsHeld ==
    ASSUME TextsAreSound
    PROVE  Spec => []HeldAsWritten
<1>1. LkmInv => HeldAsWritten
  BY LkmIsSound DEF LkmInv, HeldAsWritten, Place, TypeOK
<1> QED
  BY <1>1, LkmInvariant, PTL

(* A module whose labels and exit function are balanced leaves nothing     *)
(* behind but what is on record, be it after a failed init or its exit.    *)
THEOREM BalancedLeavesNothing ==
    ASSUME TextsAreSound
    PROVE  Spec => []NothingLeft
<1>1. LkmInv => NothingLeft
  BY DEF LkmInv, HeldAtMost, NothingLeft
<1> QED
  BY <1>1, LkmInvariant, PTL

(* A module that is ordered holds what its resources rely on, in whichever *)
(* step it is and however it got there.                                    *)
THEOREM OrderedKeepsNeeds ==
    ASSUME TextsAreSound
    PROVE  Spec => []NeedsHeld
<1>1. LkmInv => NeedsHeld
  BY DEF LkmInv, HeldInOrder, NeedsHeld
<1> QED
  BY <1>1, LkmInvariant, PTL

(* A module whose labels and exit function name only what is there for     *)
(* sure, and that once, releases nothing that it does not have.            *)
THEOREM ReleasableIsReleasedOnce ==
    ASSUME TextsAreSound
    PROVE  Spec => []ReleasedOnce
<1>1. LkmInv => ReleasedOnce
  <2> SUFFICES ASSUME LkmInv, NEW r \in Releasing
               PROVE  r \in held \cup Excused
    BY DEF ReleasedOnce, Excused
  <2>1. CASE todo # <<>>
    <3>1. todo \in Seq(STRING) /\ phase \in {"undo", "exit"} /\ r = Head(todo)
      BY <2>1 DEF LkmInv, Place, Releasing
    <3>2. r \in Members(todo)
      BY <2>1, <3>1, MembersTail
    <3> QED
      BY <3>1, <3>2 DEF LkmInv, Pending
  <2>2. CASE todo = <<>>
    <3>1. phase = "init" /\ Step.op = "give" /\ r = Step.what
      BY <2>2 DEF Releasing
    <3>2. lkm \in Lkms /\ at \in DOMAIN Lkm.init /\ Sure(Lkm, at) \subseteq held
          /\ Step = Lkm.init[at]
      BY <3>1, LkmIsTyped DEF LkmInv, Place, TypeOK, HeldAtLeast, Step
    <3>3. r \in Sure(Lkm, at) \cup (Known("ReleasedOnce") \cup Lkm.mayBeGone)
      BY <3>1, <3>2, LkmIsSound DEF Releasable
    <3> QED
      BY <3>2, <3>3 DEF Excused
  <2> QED
    BY <2>1, <2>2
<1> QED
  BY <1>1, LkmInvariant, PTL

(* An init function that uses only what is there for sure never uses what  *)
(* a failure has taken away.                                               *)
THEOREM UsableIsHeld ==
    ASSUME TextsAreSound
    PROVE  Spec => []UsesHeld
<1>1. LkmInv => UsesHeld
  <2> SUFFICES ASSUME LkmInv, phase = "init", Step.op = "use"
               PROVE  Step.what \subseteq held \cup Known("UsesHeld")
    BY DEF UsesHeld
  <2>1. /\ lkm \in Lkms /\ at \in DOMAIN Lkm.init /\ Sure(Lkm, at) \subseteq held
        /\ Step = Lkm.init[at]
    BY LkmIsTyped DEF LkmInv, Place, TypeOK, HeldAtLeast, Step
  <2> QED
    BY <2>1, LkmIsSound DEF Usable
<1> QED
  BY <1>1, LkmInvariant, PTL

(* Once loaded a module that no failure leads past a resource has all that *)
(* it acquired, but for what ends by itself.                               *)
THEOREM CompleteIsReady ==
    ASSUME TextsAreSound
    PROVE  Spec => []LoadedMeansReady
<1>1. LkmInv => LoadedMeansReady
  <2> SUFFICES ASSUME LkmInv, phase = "in"
               PROVE  Owned(Lkm) \subseteq held \cup Lkm.ends \cup Known("LoadedMeansReady")
    BY DEF LoadedMeansReady
  <2>1. lkm \in Lkms /\ Sure(Lkm, Len(Lkm.init) + 1) \subseteq held
    BY DEF LkmInv, Place, TypeOK, HeldAtLeast
  <2>2. Owned(Lkm) \cap Lost(Lkm, Len(Lkm.init) + 1)
            \subseteq Lkm.ends \cup Known("LoadedMeansReady")
    BY <2>1, LkmIsSound DEF Complete
  <2> QED
    BY <2>1, <2>2 DEF Sure, Owned
<1> QED
  BY <1>1, LkmInvariant, PTL

(* A program that opens the device file of a guarded module, even before   *)
(* its init function has returned, finds what its operations use, and the  *)
(* module stays until the file is closed.                                  *)
THEOREM GuardedIsUsable ==
    ASSUME TextsAreSound
    PROVE  Spec => []FileUsable
<1>1. LkmInv => FileUsable
  <2> DEFINE excused == Known("FileUsable")
  <2> SUFFICES ASSUME LkmInv, users > 0
               PROVE  /\ Lkm.fileNeeds \subseteq held \cup excused
                      /\ Lkm.probe \/ phase # "out" \/ "code" \in excused
    BY DEF FileUsable, Lacking
  <2>1. /\ lkm \in Lkms /\ {"device", "cdev"} \subseteq Resources(Lkm)
        /\ at \in 1..Len(Lkm.init) + 1
        /\ DOMAIN Lkm.init = 1..Len(Lkm.init)
    BY LkmIsTyped DEF LkmInv, OpenInside, Place, TypeOK
  <2>2. CASE Lkm.fileNeeds \subseteq excused /\ (Lkm.probe \/ "code" \in excused)
    BY <2>2
  <2>3. CASE /\ Stays(Lkm, Known("NothingLeft"))
             /\ \A k \in DOMAIN Lkm.init : Published(Lkm, k) /\ Lkm.init[k].fails = "caught" =>
                  Lkm.fileNeeds \cap Members(Lkm.init[k].undo) \subseteq excused
             /\ \A k \in 1..Len(Lkm.init) + 1 :
                  Published(Lkm, k) => Lkm.fileNeeds \subseteq Sure(Lkm, k) \cup excused
    <3>1. phase \in {"init", "undo", "in"} /\ Published(Lkm, at)
      BY <2>3 DEF LkmInv, OpenInside
    <3>2. Lkm.fileNeeds \subseteq Sure(Lkm, at) \cup excused
      BY <2>1, <2>3, <3>1
    <3>3. CASE phase = "undo"
      <4>1. at \in DOMAIN Lkm.init /\ Step = Lkm.init[at] /\ Step.fails = "caught"
            /\ Sure(Lkm, at) \ Members(Step.undo) \subseteq held
        BY <2>1, <3>3, LkmIsTyped DEF LkmInv, Place, TypeOK, HeldAtLeast, Step
      <4>2. Lkm.fileNeeds \cap Members(Step.undo) \subseteq excused
        BY <2>3, <3>1, <4>1
      <4> QED
        BY <3>2, <3>3, <4>1, <4>2
    <3>4. CASE phase \in {"init", "in"}
      BY <3>2, <3>4 DEF LkmInv, HeldAtLeast
    <3> QED
      BY <3>1, <3>3, <3>4
  <2> QED
    BY <2>1, <2>2, <2>3, LkmIsSound DEF Guarded, Stays
<1> QED
  BY <1>1, LkmInvariant, PTL
=============================================================================
