---------------------- MODULE LifecyclePreparationProofs ----------------------
(***************************************************************************)
(* Proofs about LifecyclePreparation for any number of transactions,       *)
(* crashes, exceptions and intrusions.                                     *)
(*                                                                         *)
(* While an operation prepares, what there is of an output and what its    *)
(* claim says follow from the steps that are left for it (OutputSound,     *)
(* PhaseOf): the record is written before the disk and promoted after it,  *)
(* so the two never differ by more than the step under way.  Of an         *)
(* abandoned record nothing is known but what any of its steps leaves      *)
(* (Kept), and that is all the next operation relies on when it decides    *)
(* which outputs are its predecessor's and which belong to the user.       *)
(***************************************************************************)
EXTENDS LifecyclePreparation, FiniteSetTheorems, TLAPS

-----------------------------------------------------------------------------
(* The inductive invariant.                                                *)

Claims == [output : Outputs, phase : {"reserved", "incomplete", "complete"}]

TakenClaims == [output : Outputs,
                phase : {"reserved", "incomplete", "complete", "removing"}]

Effects == {"claim", "create", "bind", "write", "finish", "promote"}

Steps == [do : Effects, output : Outputs]

\* The effects on an output, and those of them that come after one.
Of(o) == IF o = "control" THEN {"claim", "create", "bind"} ELSE Effects

Later(do) ==
    CASE do = "claim" -> {"create", "bind", "write", "finish", "promote"}
      [] do = "create" -> {"bind", "write", "finish", "promote"}
      [] do = "bind" -> {"write", "finish", "promote"}
      [] do = "write" -> {"finish", "promote"}
      [] do = "finish" -> {"promote"}
      [] OTHER -> {}

\* The effects on the output that are left.
Left(steps, o) == {steps[i].do : i \in {j \in 1..Len(steps) : steps[j].output = o}}

InOrder(steps) ==
    \A i, j \in 1..Len(steps) :
        i < j /\ steps[i].output = steps[j].output => steps[j].do \in Later(steps[i].do)

\* The rest of a preparation: each output has its last effects in their order.
Remainder(steps) ==
    /\ steps \in Seq(Steps) /\ InOrder(steps)
    /\ \A o \in Outputs : /\ Left(steps, o) \subseteq Of(o)
                          /\ \A do \in Left(steps, o) : Later(do) \cap Of(o) \subseteq Left(steps, o)

\* What there is of a claimed output, and the phase of its claim.
Made(left, o) ==
    IF "create" \in left THEN "absent"
    ELSE IF "write" \in left \/ o = "control" THEN "empty"
    ELSE IF "finish" \in left THEN "partial" ELSE "full"

PhaseOf(left, o) ==
    IF "bind" \in left THEN "reserved"
    ELSE IF "promote" \in left \/ o = "control" THEN "incomplete" ELSE "complete"

\* Nothing has been done for the output.
Untouched(o) ==
    \/ Left(todo, o) = Of(o)
    \/ o = "tool" /\ last \in retained /\ Left(todo, o) = {}

OutputSound(o) ==
    IF o \in Claimed THEN "claim" \notin Left(todo, o) /\ At(o) = Made(Left(todo, o), o)
                     ELSE At(o) = "absent" /\ Untouched(o)

\* The control directory is claimed before anything else.
ControlNext == todo # <<>> /\ Head(todo) = Step("claim", "control")

OpenSound ==
    /\ record = NoRecord /\ last # 0 /\ last \notin intents
    /\ admission.status # "recovery_required"
    /\ Remainder(todo) /\ ControlNext /\ \A o \in Outputs : Untouched(o)

PrepareSound ==
    /\ record # NoRecord /\ last \notin intents /\ admission.status # "recovery_required"
    /\ Remainder(todo) /\ \A o \in Outputs : OutputSound(o)
    /\ \A i \in 1..Len(record.claims) :
           record.claims[i].phase
             = PhaseOf(Left(todo, record.claims[i].output), record.claims[i].output)
    /\ record.claims = <<>> => ControlNext

\* The outputs that are left to take back, in the reverse order of their claims.
CleanSound ==
    /\ record # NoRecord /\ last \notin intents \ undone
    /\ admission.status # "recovery_required"
    /\ todo \in Seq(TakenClaims) /\ Len(todo) <= Len(record.claims)
    /\ \A i \in 1..Len(todo) :
           LET claim == record.claims[Len(todo) + 1 - i] IN
           /\ todo[i].output = claim.output
           /\ \/ todo[i].phase = claim.phase
              \/ i = 1 /\ todo[i].phase = "removing" /\ At(claim.output) = "partial"
    /\ \A i \in (Len(todo) + 1)..Len(record.claims) : ~Exists(At(record.claims[i].output))

PlaceSound ==
    /\ pc \in {"reconcile", "admit", "open", "prepare", "preserve", "execute"} =>
         pending = "none"
    /\ pc = "admit" => record = NoRecord
    /\ pc = "open" => OpenSound
    /\ pc = "prepare" => PrepareSound
    /\ pc = "preserve" => record # NoRecord /\ admission.status = "recovery_required"
    /\ pc = "execute" => record = NoRecord /\ admission.status = "recovery_required"
    /\ pc = "clean" => CleanSound
    /\ pc = "clean" /\ answer = "none" => pending = "none"
    /\ answer = "refused" => pc = "idle"

\* The record is of the last transaction, and its claims differ.
RecordSound ==
    /\ record \in [transaction : 0..last, bootstrap : BOOLEAN, claims : Seq(Claims)]
    /\ record # NoRecord => record.transaction = last /\ last # 0
    /\ IsFiniteSet(Claimed)
    /\ \A i, j \in 1..Len(record.claims) :
           record.claims[i].output = record.claims[j].output => i = j
    /\ record.claims # <<>> => record.claims[1].output = "control"

\* What is not claimed does not exist, and what was made of a reserved output is
\* at most empty.
ClaimsSound ==
    record # NoRecord =>
      /\ \A o \in Outputs \ Claimed : ~Exists(At(o))
      /\ \A i \in 1..Len(record.claims) :
             record.claims[i].phase = "reserved" =>
               At(record.claims[i].output) \notin {"partial", "full"}
      /\ last \in intents => "journal" \in Claimed

\* Only the last transaction can need recovery, and one that was published and
\* not undone does, or is the one the admission is certified by.
IntentSound ==
    /\ admission.status = "recovery_required" =>
         admission.transaction = last /\ last \in intents \ undone
    /\ last \in intents \ undone =>
         \/ admission.status = "recovery_required"
         \/ admission.status = "terminal" /\ admission.certified = last
    /\ admission.certified \in intents \union {0}
    /\ pending # "none" => last # 0 /\ last \notin intents

\* Only a publication takes anything along.
MovedSound ==
    \A t \in Transactions \ intents : \A o \in Outputs : disk[t][o] # "moved"

\* What holds wherever an operation is interrupted.
Kept == /\ RecordSound /\ ClaimsSound /\ IntentSound /\ MovedSound
        /\ Accounted /\ PublishedIntact

PreparationInv == TypeOK /\ Kept /\ PlaceSound

-----------------------------------------------------------------------------
(* The steps that are left.                                                *)

LEMMA LaterOrder ==
  \A d \in Effects : /\ Later(d) \subseteq Effects /\ d \notin Later(d)
                     /\ \A e \in Later(d) : d \notin Later(e)
PROOF
  <1> QED BY DEF Effects, Later

\* The effects left when the first step is done.
LEMMA LeftTail ==
  ASSUME NEW s \in Seq(Steps), s # <<>>
  PROVE  /\ Tail(s) \in Seq(Steps) /\ Head(s) \in Steps
         /\ \A o : Left(s, o) = Left(Tail(s), o)
                                  \cup (IF Head(s).output = o THEN {Head(s).do} ELSE {})
PROOF
  <1>1. /\ Tail(s) \in Seq(Steps) /\ Head(s) \in Steps /\ Len(s) \in Nat /\ Len(s) >= 1
        /\ Head(s) = s[1] /\ Len(Tail(s)) = Len(s) - 1
        /\ \A i \in 1..Len(Tail(s)) : Tail(s)[i] = s[i + 1]
    OBVIOUS
  <1>2. ASSUME NEW o, NEW d \in Left(s, o)
        PROVE  d \in Left(Tail(s), o) \/ (Head(s).output = o /\ d = Head(s).do)
    <2>1. PICK i \in 1..Len(s) : s[i].output = o /\ d = s[i].do
      BY <1>2 DEF Left
    <2>2. CASE i = 1
      BY <1>1, <2>1, <2>2
    <2>3. CASE i # 1
      <3>1. /\ i - 1 \in 1..Len(Tail(s)) /\ Tail(s)[i - 1] = s[(i - 1) + 1]
            /\ (i - 1) + 1 = i
        BY <1>1, <2>1, <2>3
      <3> QED BY <2>1, <3>1 DEF Left
    <2> QED BY <2>2, <2>3
  <1>3. ASSUME NEW o, NEW d \in Left(Tail(s), o) PROVE d \in Left(s, o)
    <2>1. PICK i \in 1..Len(Tail(s)) : Tail(s)[i].output = o /\ d = Tail(s)[i].do
      BY <1>3 DEF Left
    <2>2. i + 1 \in 1..Len(s) /\ s[i + 1] = Tail(s)[i]
      BY <1>1, <2>1
    <2> QED BY <2>1, <2>2 DEF Left
  <1>4. ASSUME NEW o, Head(s).output = o PROVE Head(s).do \in Left(s, o)
    <2>1. 1 \in 1..Len(s)
      BY <1>1
    <2> QED BY <1>1, <1>4, <2>1 DEF Left
  <1> QED BY <1>1, <1>2, <1>3, <1>4

\* The effects on an output that come after one, and those from it on.
Following(do, o) == Later(do) \cap Of(o)
Since(do, o) == {do} \cup Following(do, o)

LEMMA RemainderTail ==
  ASSUME NEW s, Remainder(s), s # <<>>
  PROVE  LET do == Head(s).do
             o == Head(s).output
         IN  /\ Remainder(Tail(s)) /\ Head(s) \in Steps /\ do \in Of(o)
             /\ Left(s, o) = Since(do, o) /\ Left(Tail(s), o) = Following(do, o)
             /\ \A p : p # o => Left(Tail(s), p) = Left(s, p)
PROOF
  <1> DEFINE do == Head(s).do
             o == Head(s).output
  <1>0. s \in Seq(Steps) /\ InOrder(s)
    BY DEF Remainder
  <1>1. /\ Tail(s) \in Seq(Steps) /\ Head(s) \in Steps
        /\ \A p : Left(s, p) = Left(Tail(s), p) \cup (IF o = p THEN {do} ELSE {})
    BY <1>0, LeftTail
  <1>2. do \in Effects /\ o \in Outputs
    BY <1>1 DEF Steps
  <1>3. /\ Len(s) \in Nat /\ Len(s) >= 1 /\ Head(s) = s[1] /\ Len(Tail(s)) = Len(s) - 1
        /\ \A i \in 1..Len(Tail(s)) : Tail(s)[i] = s[i + 1]
    BY <1>0
  <1>4. ASSUME NEW d \in Left(Tail(s), o) PROVE d \in Later(do)
    <2>1. PICK i \in 1..Len(Tail(s)) : Tail(s)[i].output = o /\ d = Tail(s)[i].do
      BY <1>4 DEF Left
    <2>2. /\ i + 1 \in 1..Len(s) /\ 1 \in 1..Len(s) /\ 1 < i + 1
          /\ s[i + 1] = Tail(s)[i]
      BY <1>3, <2>1
    <2> QED BY <1>0, <1>3, <2>1, <2>2 DEF InOrder
  <1>5. /\ do \in Left(s, o) /\ Left(s, o) \subseteq Of(o)
        /\ Later(do) \cap Of(o) \subseteq Left(s, o)
    BY <1>1, <1>2 DEF Remainder
  <1>6. /\ Left(s, o) = {do} \cup (Later(do) \cap Of(o))
        /\ Left(Tail(s), o) = Later(do) \cap Of(o)
    BY <1>1, <1>2, <1>4, <1>5, LaterOrder
  <1>a. Left(s, o) = Since(do, o) /\ Left(Tail(s), o) = Following(do, o)
    BY <1>6 DEF Since, Following
  <1>7. \A p : p # o => Left(Tail(s), p) = Left(s, p)
    BY <1>1
  <1>8. InOrder(Tail(s))
    <2> SUFFICES ASSUME NEW i \in 1..Len(Tail(s)), NEW j \in 1..Len(Tail(s)), i < j,
                        Tail(s)[i].output = Tail(s)[j].output
                 PROVE  Tail(s)[j].do \in Later(Tail(s)[i].do)
      BY DEF InOrder
    <2>1. /\ i + 1 \in 1..Len(s) /\ j + 1 \in 1..Len(s) /\ i + 1 < j + 1
          /\ s[i + 1] = Tail(s)[i] /\ s[j + 1] = Tail(s)[j]
      BY <1>3
    <2> QED BY <1>0, <2>1 DEF InOrder
  <1>9. ASSUME NEW p \in Outputs
        PROVE  /\ Left(Tail(s), p) \subseteq Of(p)
               /\ \A d \in Left(Tail(s), p) : Later(d) \cap Of(p) \subseteq Left(Tail(s), p)
    <2>1. CASE p = o
      <3>1. ASSUME NEW d \in Left(Tail(s), p), NEW e \in Later(d) \cap Of(p)
            PROVE  e \in Left(Tail(s), p)
        <4>1. d \in Later(do) /\ d \in Left(s, p)
          BY <1>1, <1>4, <2>1, <3>1
        <4>2. e # do
          BY <1>2, <3>1, <4>1, LaterOrder
        <4>3. e \in Left(s, p)
          BY <3>1, <4>1 DEF Remainder
        <4> QED BY <1>1, <2>1, <4>2, <4>3
      <3> QED BY <1>6, <2>1, <3>1
    <2>2. CASE p # o
      BY <1>7, <2>2 DEF Remainder
    <2> QED BY <2>1, <2>2
  <1> QED BY <1>1, <1>5, <1>a, <1>7, <1>8, <1>9 DEF Remainder

\* One part of a preparation after another.
LEMMA Concatenated ==
  ASSUME NEW a \in Seq(Steps), NEW b \in Seq(Steps), InOrder(a), InOrder(b),
         \A o \in Outputs : \A d \in Left(a, o), e \in Left(b, o) : e \in Later(d)
  PROVE  /\ a \o b \in Seq(Steps) /\ InOrder(a \o b)
         /\ \A o : Left(a \o b, o) = Left(a, o) \cup Left(b, o)
PROOF
  <1> DEFINE s == a \o b
  <1>1. /\ s \in Seq(Steps) /\ Len(s) = Len(a) + Len(b) /\ Len(a) \in Nat /\ Len(b) \in Nat
        /\ \A i \in 1..Len(a) : s[i] = a[i]
        /\ \A i \in (Len(a) + 1)..Len(s) : s[i] = b[i - Len(a)]
    OBVIOUS
  <1>2. /\ \A i \in 1..Len(a) : a[i] \in Steps
        /\ \A i \in 1..Len(b) : b[i] \in Steps
    OBVIOUS
  <1> HIDE DEF s
  <1>3. ASSUME NEW i \in 1..Len(s)
        PROVE  \/ i \in 1..Len(a) /\ s[i] = a[i]
               \/ i > Len(a) /\ i - Len(a) \in 1..Len(b) /\ s[i] = b[i - Len(a)]
    BY <1>1
  <1>4. InOrder(s)
    <2> SUFFICES ASSUME NEW i \in 1..Len(s), NEW j \in 1..Len(s), i < j,
                        s[i].output = s[j].output
                 PROVE  s[j].do \in Later(s[i].do)
      BY DEF InOrder
    <2>1. CASE j \in 1..Len(a)
      <3>1. i \in 1..Len(a)
        BY <1>1, <2>1
      <3> QED BY <1>1, <2>1, <3>1 DEF InOrder
    <2>2. CASE i \in 1..Len(a) /\ j > Len(a)
      <3>1. s[i] = a[i] /\ j - Len(a) \in 1..Len(b) /\ s[j] = b[j - Len(a)]
        BY <1>1, <1>3, <2>2
      <3>2. s[i].output \in Outputs
        BY <1>2, <2>2, <3>1 DEF Steps
      <3>3. s[i].do \in Left(a, s[i].output) /\ s[j].do \in Left(b, s[i].output)
        BY <2>2, <3>1 DEF Left
      <3> QED BY <3>2, <3>3
    <2>3. CASE i > Len(a)
      <3>1. /\ i - Len(a) \in 1..Len(b) /\ s[i] = b[i - Len(a)] /\ i - Len(a) < j - Len(a)
            /\ j - Len(a) \in 1..Len(b) /\ s[j] = b[j - Len(a)]
        BY <1>1, <1>3, <2>3
      <3> QED BY <3>1 DEF InOrder
    <2> QED BY <1>1, <1>3, <2>1, <2>2, <2>3
  <1>5. ASSUME NEW o, NEW d \in Left(s, o) PROVE d \in Left(a, o) \cup Left(b, o)
    <2>1. PICK i \in 1..Len(s) : s[i].output = o /\ d = s[i].do
      BY <1>5 DEF Left
    <2> QED BY <1>3, <2>1 DEF Left
  <1>6. ASSUME NEW o, NEW d \in Left(a, o) PROVE d \in Left(s, o)
    <2>1. PICK i \in 1..Len(a) : a[i].output = o /\ d = a[i].do
      BY <1>6 DEF Left
    <2>2. i \in 1..Len(s) /\ s[i] = a[i]
      BY <1>1, <2>1
    <2> QED BY <2>1, <2>2 DEF Left
  <1>7. ASSUME NEW o, NEW d \in Left(b, o) PROVE d \in Left(s, o)
    <2>1. PICK i \in 1..Len(b) : b[i].output = o /\ d = b[i].do
      BY <1>7 DEF Left
    <2>2. i + Len(a) \in (Len(a) + 1)..Len(s) /\ i + Len(a) \in 1..Len(s)
          /\ (i + Len(a)) - Len(a) = i
      BY <1>1, <2>1
    <2>3. s[i + Len(a)] = b[i]
      BY <1>1, <2>2
    <2> QED BY <2>1, <2>2, <2>3 DEF Left
  <1> QED BY <1>1, <1>4, <1>5, <1>6, <1>7 DEF s

LEMMA HeadOfConcatenated ==
  ASSUME NEW a \in Seq(Steps), NEW b \in Seq(Steps), a # <<>>
  PROVE  a \o b # <<>> /\ Head(a \o b) = Head(a)
PROOF
  <1>1. /\ Len(a \o b) = Len(a) + Len(b) /\ Len(a) \in Nat /\ Len(b) \in Nat /\ Len(a) >= 1
        /\ a \o b \in Seq(Steps) /\ 1 \in 1..Len(a)
    OBVIOUS
  <1>2. (a \o b)[1] = a[1]
    BY <1>1
  <1> QED BY <1>1, <1>2

LEMMA CopiedSound ==
  ASSUME NEW o \in Outputs \ {"control"}
  PROVE  /\ Copied(o) \in Seq(Steps) /\ InOrder(Copied(o))
         /\ \A p : Left(Copied(o), p) = IF p = o THEN Effects ELSE {}
PROOF
  <1>1. \A d \in Effects : Step(d, o) \in Steps /\ Step(d, o).do = d /\ Step(d, o).output = o
    BY DEF Step, Steps
  <1> DEFINE c == Copied(o)
  <1>2. c = << Step("claim", o), Step("create", o), Step("bind", o),
               Step("write", o), Step("finish", o), Step("promote", o) >>
    BY DEF Copied
  <1>3. /\ c \in Seq(Steps) /\ Len(c) = 6
        /\ c[1] = Step("claim", o) /\ c[2] = Step("create", o) /\ c[3] = Step("bind", o)
        /\ c[4] = Step("write", o) /\ c[5] = Step("finish", o) /\ c[6] = Step("promote", o)
    BY <1>1, <1>2 DEF Effects
  <1> HIDE DEF c
  <1>4. /\ c[1].do = "claim" /\ c[2].do = "create" /\ c[3].do = "bind"
        /\ c[4].do = "write" /\ c[5].do = "finish" /\ c[6].do = "promote"
        /\ \A i \in 1..6 : c[i].output = o
    BY <1>1, <1>3 DEF Effects
  <1>5. InOrder(c)
    BY <1>3, <1>4 DEF InOrder, Later
  <1>6. \A p : Left(c, p) = IF p = o THEN Effects ELSE {}
    BY <1>3, <1>4 DEF Left, Effects
  <1> QED BY <1>3, <1>5, <1>6 DEF c

LEMMA WrittenSound ==
  ASSUME NEW o \in Outputs \ {"control"}
  PROVE  /\ Written(o) \in Seq(Steps) /\ InOrder(Written(o))
         /\ \A p : Left(Written(o), p) = IF p = o THEN Effects \ {"claim"} ELSE {}
PROOF
  <1>1. \A d \in Effects : Step(d, o) \in Steps /\ Step(d, o).do = d /\ Step(d, o).output = o
    BY DEF Step, Steps
  <1> DEFINE c == Written(o)
  <1>2. c = << Step("create", o), Step("bind", o),
               Step("write", o), Step("finish", o), Step("promote", o) >>
    BY DEF Copied, Written
  <1>3. /\ c \in Seq(Steps) /\ Len(c) = 5
        /\ c[1] = Step("create", o) /\ c[2] = Step("bind", o)
        /\ c[3] = Step("write", o) /\ c[4] = Step("finish", o) /\ c[5] = Step("promote", o)
    BY <1>1, <1>2 DEF Effects
  <1> HIDE DEF c
  <1>4. /\ c[1].do = "create" /\ c[2].do = "bind"
        /\ c[3].do = "write" /\ c[4].do = "finish" /\ c[5].do = "promote"
        /\ \A i \in 1..5 : c[i].output = o
    BY <1>1, <1>3 DEF Effects
  <1>5. InOrder(c)
    BY <1>3, <1>4 DEF InOrder, Later
  <1>6. \A p : Left(c, p) = IF p = o THEN Effects \ {"claim"} ELSE {}
    BY <1>3, <1>4 DEF Left, Effects
  <1> QED BY <1>3, <1>5, <1>6 DEF c

\* The preparation has every effect of every output, but for a tool that is retained.
LEMMA PreparationSound ==
  ASSUME NEW t
  PROVE  /\ Remainder(Preparation(t)) /\ Preparation(t) # <<>>
         /\ Head(Preparation(t)) = Step("claim", "control")
         /\ \A o \in Outputs : \/ Left(Preparation(t), o) = Of(o)
                               \/ /\ o = "tool" /\ t \in retained
                                  /\ Left(Preparation(t), o) = {}
PROOF
  <1> DEFINE first == << Step("claim", "control"), Step("create", "control"),
                         Step("bind", "control"),
                         Step("claim", "plan"), Step("claim", "journal") >>
             kept == t \in retained /\ admission.status # "absent"
             tool == IF kept THEN <<>> ELSE Copied("tool")
             s2 == first \o tool
             s3 == s2 \o Copied("prior")
             s4 == s3 \o Copied("target")
             s5 == s4 \o Written("plan")
             s6 == s5 \o Written("journal")
  <1>0. Preparation(t) = s6
    BY DEF Preparation
  <1>1. /\ first \in Seq(Steps) /\ Len(first) = 5
        /\ first # <<>> /\ Head(first) = Step("claim", "control")
        /\ first[1].do = "claim" /\ first[1].output = "control"
        /\ first[2].do = "create" /\ first[2].output = "control"
        /\ first[3].do = "bind" /\ first[3].output = "control"
        /\ first[4].do = "claim" /\ first[4].output = "plan"
        /\ first[5].do = "claim" /\ first[5].output = "journal"
    BY DEF Step, Steps, Effects, Outputs, Control, Trees
  <1> HIDE DEF first
  <1>2. InOrder(first)
    BY <1>1 DEF InOrder, Later
  <1>3. \A p : Left(first, p) = IF p = "control" THEN {"claim", "create", "bind"}
                                ELSE IF p \in {"plan", "journal"} THEN {"claim"} ELSE {}
    BY <1>1 DEF Left
  <1>4. /\ tool \in Seq(Steps) /\ InOrder(tool)
        /\ \A p : Left(tool, p) = IF p = "tool" /\ ~kept THEN Effects ELSE {}
    <2>1. CASE kept
      <3>1. tool = <<>> /\ Len(tool) = 0
        BY <2>1
      <3> QED BY <2>1, <3>1 DEF InOrder, Left
    <2>2. CASE ~kept
      <3>1. tool = Copied("tool") /\ "tool" \in Outputs \ {"control"}
        BY <2>2 DEF Outputs, Control
      <3> HIDE DEF tool, kept
      <3> QED BY <2>2, <3>1, CopiedSound
    <2> QED BY <2>1, <2>2
  <1> HIDE DEF tool
  <1>5. {"plan", "journal", "prior", "target"} \subseteq Outputs \ {"control"}
    BY DEF Outputs, Control, Trees
  <1>a. /\ \A p : Left(Copied("prior"), p) = IF p = "prior" THEN Effects ELSE {}
        /\ \A p : Left(Copied("target"), p) = IF p = "target" THEN Effects ELSE {}
        /\ \A p : Left(Written("plan"), p) = IF p = "plan" THEN Effects \ {"claim"} ELSE {}
        /\ \A p : Left(Written("journal"), p)
                    = IF p = "journal" THEN Effects \ {"claim"} ELSE {}
    BY <1>5, CopiedSound, WrittenSound
  <1>6. /\ s2 \in Seq(Steps) /\ InOrder(s2)
        /\ \A p : Left(s2, p) = Left(first, p) \cup Left(tool, p)
    <2>1. \A o \in Outputs : \A d \in Left(first, o), e \in Left(tool, o) : e \in Later(d)
      BY <1>3, <1>4
    <2> QED BY <1>1, <1>2, <1>4, <2>1, Concatenated
  <1> HIDE DEF s2
  <1>7. /\ s3 \in Seq(Steps) /\ InOrder(s3)
        /\ \A p : Left(s3, p) = Left(s2, p) \cup Left(Copied("prior"), p)
    <2>1. \A o \in Outputs : \A d \in Left(s2, o), e \in Left(Copied("prior"), o) : e \in Later(d)
      BY <1>3, <1>4, <1>5, <1>6, CopiedSound
    <2> QED BY <1>5, <1>6, <2>1, CopiedSound, Concatenated
  <1> HIDE DEF s3
  <1>8. /\ s4 \in Seq(Steps) /\ InOrder(s4)
        /\ \A p : Left(s4, p) = Left(s3, p) \cup Left(Copied("target"), p)
    <2>1. \A o \in Outputs : \A d \in Left(s3, o), e \in Left(Copied("target"), o) :
            e \in Later(d)
      BY <1>3, <1>4, <1>5, <1>6, <1>7, CopiedSound
    <2> QED BY <1>5, <1>7, <2>1, CopiedSound, Concatenated
  <1> HIDE DEF s4
  <1>9. /\ s5 \in Seq(Steps) /\ InOrder(s5)
        /\ \A p : Left(s5, p) = Left(s4, p) \cup Left(Written("plan"), p)
    <2>1. Left(s4, "plan") = {"claim"}
      <3>1. /\ Left(first, "plan") = {"claim"} /\ Left(tool, "plan") = {}
            /\ Left(Copied("prior"), "plan") = {} /\ Left(Copied("target"), "plan") = {}
        BY <1>3, <1>4, <1>a
      <3> QED BY <1>6, <1>7, <1>8, <3>1
    <2>2. \A o \in Outputs : \A d \in Left(s4, o), e \in Left(Written("plan"), o) :
            e \in Later(d)
      BY <1>5, <2>1, WrittenSound DEF Later, Effects
    <2> QED BY <1>5, <1>8, <2>2, WrittenSound, Concatenated
  <1> HIDE DEF s5
  <1>10. /\ s6 \in Seq(Steps) /\ InOrder(s6)
         /\ \A p : Left(s6, p) = Left(s5, p) \cup Left(Written("journal"), p)
    <2>1. Left(s5, "journal") = {"claim"}
      <3>1. /\ Left(first, "journal") = {"claim"} /\ Left(tool, "journal") = {}
            /\ Left(Copied("prior"), "journal") = {}
            /\ Left(Copied("target"), "journal") = {}
            /\ Left(Written("plan"), "journal") = {}
        BY <1>3, <1>4, <1>a
      <3> QED BY <1>6, <1>7, <1>8, <1>9, <3>1
    <2>2. \A o \in Outputs : \A d \in Left(s5, o), e \in Left(Written("journal"), o) :
            e \in Later(d)
      BY <1>5, <2>1, WrittenSound DEF Later, Effects
    <2> QED BY <1>5, <1>9, <2>2, WrittenSound, Concatenated
  <1> HIDE DEF s6
  <1>11. /\ Left(s6, "control") = Of("control")
         /\ \A p \in {"plan", "journal", "prior", "target"} : Left(s6, p) = Of(p)
         /\ Left(s6, "tool") = IF kept THEN {} ELSE Of("tool")
    <2>1. \A p : Left(s6, p) = Left(first, p) \cup Left(tool, p) \cup Left(Copied("prior"), p)
                                \cup Left(Copied("target"), p) \cup Left(Written("plan"), p)
                                \cup Left(Written("journal"), p)
      BY <1>6, <1>7, <1>8, <1>9, <1>10
    <2>2. Left(s6, "control") = Of("control")
      <3>1. /\ Left(first, "control") = {"claim", "create", "bind"}
            /\ Left(tool, "control") = {} /\ Left(Copied("prior"), "control") = {}
            /\ Left(Copied("target"), "control") = {} /\ Left(Written("plan"), "control") = {}
            /\ Left(Written("journal"), "control") = {}
        BY <1>3, <1>4, <1>a
      <3> QED BY <2>1, <3>1 DEF Of
    <2>3. Left(s6, "tool") = IF kept THEN {} ELSE Of("tool")
      <3>1. /\ Left(first, "tool") = {} /\ Left(Copied("prior"), "tool") = {}
            /\ Left(Copied("target"), "tool") = {} /\ Left(Written("plan"), "tool") = {}
            /\ Left(Written("journal"), "tool") = {}
            /\ Left(tool, "tool") = IF kept THEN {} ELSE Effects
        BY <1>3, <1>4, <1>a
      <3> QED BY <2>1, <3>1 DEF Of
    <2>4. Left(s6, "prior") = Effects /\ Left(s6, "target") = Effects
      <3>1. \A p \in {"prior", "target"} :
              /\ Left(first, p) = {} /\ Left(tool, p) = {}
              /\ Left(Written("plan"), p) = {} /\ Left(Written("journal"), p) = {}
        BY <1>3, <1>4, <1>a
      <3>2. /\ Left(Copied("prior"), "prior") = Effects /\ Left(Copied("prior"), "target") = {}
            /\ Left(Copied("target"), "target") = Effects /\ Left(Copied("target"), "prior") = {}
        BY <1>a
      <3> QED BY <2>1, <3>1, <3>2
    <2>5. Left(s6, "plan") = Effects /\ Left(s6, "journal") = Effects
      <3>1. \A p \in {"plan", "journal"} :
              /\ Left(first, p) = {"claim"} /\ Left(tool, p) = {}
              /\ Left(Copied("prior"), p) = {} /\ Left(Copied("target"), p) = {}
        BY <1>3, <1>4, <1>a
      <3>2. /\ Left(Written("plan"), "plan") = Effects \ {"claim"}
            /\ Left(Written("plan"), "journal") = {}
            /\ Left(Written("journal"), "journal") = Effects \ {"claim"}
            /\ Left(Written("journal"), "plan") = {}
        BY <1>a
      <3> QED BY <2>1, <3>1, <3>2 DEF Effects
    <2> QED BY <2>2, <2>3, <2>4, <2>5 DEF Of
  <1>12. \A o \in Outputs : \/ Left(s6, o) = Of(o)
                            \/ o = "tool" /\ t \in retained /\ Left(s6, o) = {}
    BY <1>11 DEF Outputs, Control, Trees
  <1>13. Remainder(s6)
    BY <1>10, <1>12, LaterOrder DEF Remainder, Of, Effects
  <1>14. s6 # <<>> /\ Head(s6) = Step("claim", "control")
    <2>1. first # <<>> /\ Head(first) = Step("claim", "control")
      BY <1>1
    <2>2. /\ Copied("prior") \in Seq(Steps) /\ Copied("target") \in Seq(Steps)
          /\ Written("plan") \in Seq(Steps) /\ Written("journal") \in Seq(Steps)
      BY <1>5, CopiedSound, WrittenSound
    <2>3. s2 # <<>> /\ Head(s2) = Step("claim", "control")
      BY <1>1, <1>4, <2>1, HeadOfConcatenated DEF s2
    <2>4. s3 # <<>> /\ Head(s3) = Step("claim", "control")
      BY <1>6, <2>2, <2>3, HeadOfConcatenated DEF s3
    <2>5. s4 # <<>> /\ Head(s4) = Step("claim", "control")
      BY <1>7, <2>2, <2>4, HeadOfConcatenated DEF s4
    <2>6. s5 # <<>> /\ Head(s5) = Step("claim", "control")
      BY <1>8, <2>2, <2>5, HeadOfConcatenated DEF s5
    <2> QED BY <1>9, <2>2, <2>6, HeadOfConcatenated DEF s6
  <1> QED BY <1>0, <1>12, <1>13, <1>14 DEF s6

-----------------------------------------------------------------------------
(* The record.                                                             *)

ClaimedIn(claims) == {claims[i].output : i \in DOMAIN claims}

Different(claims) ==
  \A i, j \in 1..Len(claims) : claims[i].output = claims[j].output => i = j

\* A claim is added.
LEMMA ClaimAdded ==
  ASSUME NEW claims \in Seq(Claims), Different(claims), NEW o \in Outputs \ ClaimedIn(claims),
         IsFiniteSet(ClaimedIn(claims)), Cardinality(ClaimedIn(claims)) = Len(claims),
         NEW step, step.do = "claim", step.output = o
  PROVE  LET after == ClaimsAfter(claims, step) IN
         /\ after \in Seq(Claims) /\ Different(after) /\ Len(after) = Len(claims) + 1
         /\ ClaimedIn(after) = ClaimedIn(claims) \cup {o}
         /\ IsFiniteSet(ClaimedIn(after)) /\ Cardinality(ClaimedIn(after)) = Len(after)
         /\ \A i \in 1..Len(claims) : after[i] = claims[i]
         /\ after[Len(after)] = Claim(o)
PROOF
  <1> DEFINE after == ClaimsAfter(claims, step)
  <1>1. after = Append(claims, Claim(o)) /\ Claim(o) \in Claims /\ Claim(o).output = o
    BY DEF ClaimsAfter, Claim, Claims
  <1>2. /\ after \in Seq(Claims) /\ Len(after) = Len(claims) + 1 /\ Len(claims) \in Nat
        /\ \A i \in 1..Len(claims) : after[i] = claims[i]
        /\ after[Len(after)] = Claim(o)
        /\ DOMAIN claims = 1..Len(claims) /\ DOMAIN after = 1..Len(after)
    BY <1>1
  <1> HIDE DEF after
  <1>3. \A i \in 1..Len(after) : i \in 1..Len(claims) \/ i = Len(after)
    BY <1>2
  <1>4. Len(after) \in 1..Len(after) /\ \A i \in 1..Len(claims) : i \in 1..Len(after)
    BY <1>2
  <1>5. ClaimedIn(after) = ClaimedIn(claims) \cup {o}
    <2>1. ASSUME NEW p \in ClaimedIn(after) PROVE p \in ClaimedIn(claims) \cup {o}
      <3>1. PICK i \in 1..Len(after) : p = after[i].output
        BY <1>2, <2>1 DEF ClaimedIn
      <3> QED BY <1>1, <1>2, <1>3, <3>1 DEF ClaimedIn
    <2>2. ASSUME NEW p \in ClaimedIn(claims) PROVE p \in ClaimedIn(after)
      <3>1. PICK i \in 1..Len(claims) : p = claims[i].output
        BY <1>2, <2>2 DEF ClaimedIn
      <3> QED BY <1>2, <1>4, <3>1 DEF ClaimedIn
    <2>3. o \in ClaimedIn(after)
      BY <1>1, <1>2, <1>4 DEF ClaimedIn
    <2> QED BY <2>1, <2>2, <2>3
  <1>6. \A i \in 1..Len(claims) : claims[i].output # o
    BY <1>2 DEF ClaimedIn
  <1>7. Different(after)
    BY <1>1, <1>2, <1>3, <1>6 DEF Different
  <1>8. /\ IsFiniteSet(ClaimedIn(after))
        /\ Cardinality(ClaimedIn(after)) = Cardinality(ClaimedIn(claims)) + 1
    BY <1>5, FS_AddElement
  <1> QED BY <1>2, <1>5, <1>7, <1>8 DEF after

\* A claim moves to its next phase.
LEMMA ClaimMoved ==
  ASSUME NEW claims \in Seq(Claims), Different(claims),
         NEW step, step.do \in {"bind", "promote"}
  PROVE  LET after == ClaimsAfter(claims, step) IN
         /\ after \in Seq(Claims) /\ Different(after) /\ Len(after) = Len(claims)
         /\ ClaimedIn(after) = ClaimedIn(claims)
         /\ \A i \in 1..Len(claims) :
              /\ after[i].output = claims[i].output
              /\ after[i].phase = IF claims[i].output = step.output THEN PhaseAfter(step.do)
                                  ELSE claims[i].phase
PROOF
  <1> DEFINE moved(i) == IF claims[i].output = step.output
                         THEN [claims[i] EXCEPT !.phase = PhaseAfter(step.do)] ELSE claims[i]
             after == ClaimsAfter(claims, step)
  <1>1. Len(claims) \in Nat /\ DOMAIN claims = 1..Len(claims)
    OBVIOUS
  <1>2. PhaseAfter(step.do) \in {"incomplete", "complete"}
    BY DEF PhaseAfter
  <1>3. ASSUME NEW i \in 1..Len(claims)
        PROVE  /\ moved(i) \in Claims /\ moved(i).output = claims[i].output
               /\ moved(i).phase = IF claims[i].output = step.output THEN PhaseAfter(step.do)
                                   ELSE claims[i].phase
    <2>1. claims[i] \in Claims
      BY <1>3
    <2> QED BY <1>2, <2>1 DEF Claims
  <1>4. after = [i \in 1..Len(claims) |-> moved(i)]
    BY <1>1 DEF ClaimsAfter
  <1> HIDE DEF moved, after
  <1>5. /\ after \in Seq(Claims) /\ Len(after) = Len(claims)
        /\ \A i \in 1..Len(claims) : after[i] = moved(i)
        /\ DOMAIN after = 1..Len(claims)
    BY <1>1, <1>3, <1>4
  <1>6. \A i \in 1..Len(claims) : after[i].output = claims[i].output
    BY <1>3, <1>5
  <1>7. Different(after)
    BY <1>5, <1>6 DEF Different
  <1>8. ClaimedIn(after) = ClaimedIn(claims)
    BY <1>1, <1>5, <1>6 DEF ClaimedIn
  <1> QED BY <1>3, <1>5, <1>7, <1>8 DEF after

Disks == [Transactions -> [Outputs -> Contents]]

\* What one output is replaced by.
LEMMA PutSound ==
  ASSUME disk \in Disks, record.transaction \in Transactions, NEW o \in Outputs,
         NEW content \in Contents, Put(o, content)
  PROVE  /\ disk' \in Disks /\ disk'[record.transaction][o] = content
         /\ \A t \in Transactions, p \in Outputs :
              t # record.transaction \/ p # o => disk'[t][p] = disk[t][p]
PROOF
  <1> DEFINE t == record.transaction
             tree == [disk[t] EXCEPT ![o] = content]
  <1>1. disk' = [disk EXCEPT ![t] = tree]
    BY DEF Put
  <1>2. /\ tree \in [Outputs -> Contents] /\ tree[o] = content
        /\ \A p \in Outputs : p # o => tree[p] = disk[t][p]
    BY DEF Disks
  <1> HIDE DEF tree
  <1> QED BY <1>1, <1>2 DEF Disks

LEMMA TakenBackSound ==
  ASSUME NEW claims \in Seq(Claims)
  PROVE  /\ Reverse(claims) \in Seq(Claims) /\ Reverse(claims) \in Seq(TakenClaims)
         /\ Len(Reverse(claims)) = Len(claims)
         /\ \A i \in 1..Len(claims) : Reverse(claims)[i] = claims[Len(claims) + 1 - i]
PROOF
  <1>1. Len(claims) \in Nat /\ \A i \in 1..Len(claims) : claims[i] \in Claims
    OBVIOUS
  <1>2. ASSUME NEW i \in 1..Len(claims)
        PROVE  /\ (Len(claims) - i) + 1 \in 1..Len(claims)
               /\ (Len(claims) - i) + 1 = Len(claims) + 1 - i
               /\ claims[(Len(claims) - i) + 1] \in Claims
    <2>1. (Len(claims) - i) + 1 \in 1..Len(claims) /\ (Len(claims) - i) + 1 = Len(claims) + 1 - i
      BY <1>1
    <2> QED BY <1>1, <2>1
  <1>3. Claims \subseteq TakenClaims
    BY DEF Claims, TakenClaims
  <1> QED BY <1>1, <1>2, <1>3 DEF Reverse

-----------------------------------------------------------------------------
(* What the invariant depends on.                                          *)

RecordStays == UNCHANGED <<disk, record, admission, last, retained, intents, undone>>

LEMMA KeptStays ==
  ASSUME Kept, RecordStays, pending' = pending \/ pending' = "none"
  PROVE  Kept'
PROOF
  <1> USE DEF RecordStays
  <1>1. RecordSound'
    BY DEF Kept, RecordSound, Claimed
  <1>2. ClaimsSound'
    BY DEF Kept, ClaimsSound, Claimed, At
  <1>3. IntentSound'
    BY DEF Kept, IntentSound
  <1>4. Accounted' /\ PublishedIntact' /\ MovedSound'
    BY DEF Kept, Accounted, PublishedIntact, Claimed, Intact, MovedSound
  <1> QED BY <1>1, <1>2, <1>3, <1>4 DEF Kept

\* The types of what the operation does.
OperationType ==
  /\ pc \in {"idle", "pending", "reconcile", "admit", "open", "prepare", "preserve",
             "execute", "clean"}
  /\ todo \in Seq(Todos)
  /\ answer \in {"none", "declined", "refused", "failed", "crashed", "done"}

StateType ==
  /\ disk \in Disks /\ pending \in {"none", "torn", "next"}
  /\ admission \in [status : {"absent", "recovery_required", "terminal"},
                    transaction : 0..last, certified : 0..last]
  /\ last \in 0..MaxTransactions
  /\ undone \subseteq intents /\ intents \subseteq 1..last
  /\ Cardinality(Claimed) = Len(record.claims)

LEMMA TypesAre == Kept => (TypeOK <=> OperationType /\ StateType)
PROOF
  <1> QED BY DEF Kept, RecordSound, TypeOK, OperationType, StateType, Disks, Claims

LEMMA StateTypeStays ==
  ASSUME StateType, RecordStays, pending' \in {"none", "torn", "next"}
  PROVE  StateType'
PROOF
  <1> QED BY DEF StateType, RecordStays, Claimed

\* The record's transaction is on the disk.
LEMMA RecordOwned ==
  ASSUME StateType, Kept, record # NoRecord
  PROVE  record.transaction = last /\ last \in Transactions
PROOF
  <1> QED BY BoundsAssumption DEF StateType, Kept, RecordSound, Transactions

LEMMA NoRecordSound ==
  /\ NoRecord.claims = <<>> /\ NoRecord.transaction = 0 /\ NoRecord.bootstrap = FALSE
  /\ record = NoRecord => Claimed = {} /\ Len(record.claims) = 0
PROOF
  <1>1. NoRecord.claims = <<>> /\ NoRecord.transaction = 0 /\ NoRecord.bootstrap = FALSE
    BY DEF NoRecord
  <1>2. ASSUME record = NoRecord PROVE Claimed = {} /\ Len(record.claims) = 0
    BY <1>1, <1>2 DEF Claimed
  <1> QED BY <1>1, <1>2

LEMMA ClaimsAre ==
  ASSUME RecordSound
  PROVE  /\ record.claims \in Seq(Claims) /\ Different(record.claims)
         /\ Claimed = ClaimedIn(record.claims) /\ DOMAIN record.claims = 1..Len(record.claims)
         /\ Claimed \subseteq Outputs
         /\ \A o \in Claimed : \E i \in 1..Len(record.claims) : record.claims[i].output = o
         /\ \A i \in 1..Len(record.claims) : /\ record.claims[i] \in Claims
                                             /\ record.claims[i].output \in Claimed
PROOF
  <1>1. record.claims \in Seq(Claims)
    BY DEF RecordSound
  <1>2. \A i \in 1..Len(record.claims) : record.claims[i] \in Claims
    BY <1>1
  <1>3. DOMAIN record.claims = 1..Len(record.claims)
    BY <1>1
  <1>4. Claimed \subseteq Outputs
    BY <1>2, <1>3 DEF Claimed, Claims
  <1> QED BY <1>1, <1>2, <1>3, <1>4 DEF RecordSound, Different, Claimed, ClaimedIn

\* When the record goes, either its transaction was published or nothing is left.
LEMMA RecordRetired ==
  ASSUME StateType, Kept, record' = NoRecord, pending' = pending \/ pending' = "none",
         UNCHANGED <<disk, admission, last, retained, intents, undone>>,
         record = NoRecord \/ last \in intents \/ \A o \in Outputs : ~Exists(At(o))
  PROVE  StateType' /\ Kept'
PROOF
  <1>1. Claimed' = {} /\ Len(record'.claims) = 0 /\ record'.claims = <<>>
    BY NoRecordSound DEF Claimed
  <1>2. NoRecord \in [transaction : 0..last, bootstrap : BOOLEAN, claims : Seq(Claims)]
    BY BoundsAssumption DEF NoRecord, StateType
  <1>3. IsFiniteSet({}) /\ Cardinality({}) = 0
    BY FS_EmptySet
  <1>4. RecordSound'
    BY <1>1, <1>2, <1>3 DEF RecordSound
  <1>5. StateType'
    BY <1>1, <1>3 DEF StateType
  <1>6. ClaimsSound'
    BY DEF ClaimsSound
  <1>7. IntentSound'
    BY DEF Kept, IntentSound
  <1>8. ASSUME NEW t \in Transactions \ intents, NEW o \in Outputs PROVE ~Exists(disk[t][o])
    <2>1. Exists(disk[t][o]) => record.transaction = t /\ o \in Claimed
      BY <1>8 DEF Kept, Accounted
    <2>2. record # NoRecord => record.transaction = last
      BY DEF Kept, RecordSound
    <2>3. record = NoRecord => record.transaction = 0 /\ t # 0
      BY <1>8, NoRecordSound DEF Transactions
    <2> QED BY <1>8, <2>1, <2>2, <2>3 DEF At
  <1>9. Accounted' /\ PublishedIntact' /\ MovedSound'
    BY <1>8 DEF Kept, Accounted, PublishedIntact, Intact, MovedSound
  <1> QED BY <1>4, <1>5, <1>6, <1>7, <1>9 DEF Kept


\* What the invariant says, the types apart.
Inv == OperationType /\ StateType /\ Kept /\ PlaceSound

LEMMA InvIs == (PreparationInv <=> Inv) /\ (Inv' => PreparationInv')
PROOF
  <1>1. PreparationInv <=> Inv
    BY TypesAre DEF PreparationInv, Inv
  <1>2. Inv' => TypeOK'
    BY DEF Inv, Kept, RecordSound, TypeOK, OperationType, StateType, Disks, Claims
  <1> QED BY <1>1, <1>2 DEF PreparationInv, Inv

\* What somebody else left stays where it can be told.
ForeignStays ==
  \A t \in Transactions : \A o \in Outputs :
    disk[t][o] \in Others /\ ~Indistinct(t, o) => disk'[t][o] \in Others

\* A refusal has its reason.
Explained == answer' = "refused" => answer = "refused" \/ Unrecognisable

-----------------------------------------------------------------------------
(* Steps that leave the record and the disk alone.                         *)

LEMMA QuietStep ==
  ASSUME Inv, RecordStays, pending' = pending \/ pending' = "none", OperationType',
         PlaceSound', Explained
  PROVE  Inv' /\ ForeignStays /\ Explained
PROOF
  <1>1. StateType'
    BY StateTypeStays DEF Inv, StateType
  <1> QED BY <1>1, KeptStays DEF Inv, ForeignStays, RecordStays

LEMMA StartStep == Inv /\ Start => Inv' /\ ForeignStays /\ Explained
PROOF
  <1> SUFFICES ASSUME Inv, Start PROVE Inv' /\ ForeignStays /\ Explained
    OBVIOUS
  <1>1. RecordStays /\ pending' = pending
    BY DEF Start, RecordStays, history
  <1>2. OperationType'
    BY DEF Start, OperationType
  <1>3. PlaceSound' /\ Explained
    BY DEF Start, PlaceSound, Explained
  <1> QED BY <1>1, <1>2, <1>3, QuietStep

\* Without a record nothing is left of a transaction that was not published.
LEMMA NothingLeft ==
  ASSUME StateType, Kept, record = NoRecord, last # 0, last \notin intents
  PROVE  last \in Transactions /\ \A o \in Outputs : disk[last][o] = "absent"
PROOF
  <1>1. last \in Transactions
    BY BoundsAssumption DEF StateType, Transactions
  <1>2. \A o \in Outputs : ~Exists(disk[last][o]) /\ disk[last][o] # "moved"
    BY <1>1, NoRecordSound DEF Kept, Accounted, MovedSound
  <1> QED BY <1>1, <1>2 DEF Exists

LEMMA ReconcilePendingStep == Inv /\ ReconcilePending => Inv' /\ ForeignStays /\ Explained
PROOF
  <1> SUFFICES ASSUME Inv, ReconcilePending PROVE Inv' /\ ForeignStays /\ Explained
    OBVIOUS
  <1>1. /\ RecordStays /\ pc = "pending"
    BY DEF ReconcilePending, RecordStays, history
  <1>2. CASE PendingKnown /\ pending' = "none" /\ pc' = "reconcile" /\ UNCHANGED <<todo, answer>>
    <2>1. OperationType'
      BY <1>2 DEF Inv, OperationType
    <2>2. answer # "refused"
      BY <1>1 DEF Inv, PlaceSound
    <2>3. PlaceSound' /\ Explained
      BY <1>2, <2>2 DEF PlaceSound, Explained
    <2> QED BY <1>1, <1>2, <2>1, <2>3, QuietStep
  <1>3. CASE ~PendingKnown /\ End("refused") /\ pending' = pending
    <2>1. pc' = "idle" /\ todo' = <<>> /\ answer' = "refused"
      BY <1>3 DEF End
    <2>2. OperationType' /\ PlaceSound'
      BY <2>1 DEF OperationType, PlaceSound
    <2>3. record # NoRecord /\ pending = "torn"
      <3>1. pending # "none"
        BY <1>3 DEF PendingKnown
      <3>2. last # 0 /\ last \notin intents
        BY <3>1 DEF Inv, Kept, IntentSound
      <3>3. "control" \in Outputs
        BY DEF Outputs, Control
      <3>4. record # NoRecord
        BY <1>3, <3>2, <3>3, NothingLeft DEF Inv, PendingKnown
      <3> QED BY <1>3, <3>1, <3>4 DEF PendingKnown, Inv, StateType
    <2>4. Explained
      BY <1>1, <1>3, <2>3 DEF Explained, Unrecognisable, RecordStays
    <2> QED BY <1>1, <1>3, <2>2, <2>4, QuietStep
  <1> QED BY <1>2, <1>3 DEF ReconcilePending

\* The outputs of the record are about to be taken back.
LEMMA CleanStarts ==
  ASSUME RecordSound', record' # NoRecord, last' \notin intents' \ undone',
         admission'.status # "recovery_required", todo' = Reverse(record'.claims)
  PROVE  CleanSound' /\ todo' \in Seq(Todos)
PROOF
  <1> DEFINE claims == record'.claims
  <1>1. claims \in Seq(Claims)
    BY DEF RecordSound
  <1> HIDE DEF claims
  <1>2. /\ todo' \in Seq(TakenClaims) /\ Len(todo') = Len(claims) /\ Len(claims) \in Nat
        /\ \A i \in 1..Len(claims) : todo'[i] = claims[Len(claims) + 1 - i]
    BY <1>1, TakenBackSound DEF claims
  <1>3. TakenClaims \subseteq Todos
    BY DEF TakenClaims, Todos
  <1>4. todo' \in Seq(Todos)
    BY <1>2, <1>3
  <1>5. \A i \in (Len(todo') + 1)..Len(claims) : FALSE
    BY <1>2
  <1>6. \A i \in 1..Len(todo') : /\ todo'[i].output = claims[Len(todo') + 1 - i].output
                                 /\ todo'[i].phase = claims[Len(todo') + 1 - i].phase
    BY <1>2
  <1>7. Len(todo') <= Len(claims)
    BY <1>2
  <1> QED BY <1>2, <1>4, <1>5, <1>6, <1>7 DEF CleanSound, claims

LEMMA ReconcileRecordStep == Inv /\ ReconcileRecord => Inv' /\ ForeignStays /\ Explained
PROOF
  <1> SUFFICES ASSUME Inv, ReconcileRecord PROVE Inv' /\ ForeignStays /\ Explained
    OBVIOUS
  <1>1. /\ UNCHANGED <<disk, pending, admission, last, retained, intents, undone>>
        /\ pc = "reconcile" /\ pending = "none" /\ answer # "refused"
    BY DEF ReconcileRecord, history, Inv, PlaceSound
  <1>2. CASE record = NoRecord /\ pc' = "admit" /\ UNCHANGED <<record, todo, answer>>
    <2>1. OperationType' /\ RecordStays
      BY <1>1, <1>2 DEF Inv, OperationType, RecordStays
    <2>2. PlaceSound' /\ Explained
      BY <1>1, <1>2 DEF PlaceSound, Explained
    <2> QED BY <1>1, <2>1, <2>2, QuietStep
  <1>3. CASE /\ record # NoRecord /\ IntentMatches
             /\ record' = NoRecord /\ pc' = "admit" /\ UNCHANGED <<todo, answer>>
    <2>1. last \in intents
      BY <1>3 DEF Inv, Kept, RecordSound, IntentSound, IntentMatches
    <2>2. StateType' /\ Kept'
      BY <1>1, <1>3, <2>1, RecordRetired DEF Inv
    <2>3. OperationType'
      BY <1>3 DEF Inv, OperationType
    <2>4. PlaceSound' /\ Explained
      BY <1>1, <1>3 DEF PlaceSound, Explained
    <2> QED BY <1>1, <2>2, <2>3, <2>4 DEF Inv, ForeignStays
  <1>4. CASE /\ record # NoRecord /\ ~IntentMatches /\ record' = record
             /\ IF IntentOfAnother THEN End("refused")
                ELSE pc' = "clean" /\ todo' = TakenBack /\ UNCHANGED answer
    <2>1. /\ record.transaction = last /\ admission.status # "recovery_required"
          /\ last \notin intents \ undone
      BY <1>4 DEF Inv, Kept, RecordSound, IntentSound, IntentMatches
    <2>2. pc' = "clean" /\ todo' = Reverse(record'.claims) /\ answer' = answer
      BY <1>4, <2>1 DEF IntentOfAnother, TakenBack
    <2>3. RecordStays
      BY <1>1, <1>4 DEF RecordStays
    <2>4. RecordSound'
      BY <1>1, <2>3, KeptStays DEF Inv, Kept
    <2>5. CleanSound' /\ todo' \in Seq(Todos)
      BY <1>1, <1>4, <2>1, <2>2, <2>4, CleanStarts
    <2>6. OperationType'
      BY <2>2, <2>5 DEF Inv, OperationType
    <2>7. PlaceSound' /\ Explained
      BY <1>1, <2>2, <2>5 DEF PlaceSound, Explained
    <2> QED BY <1>1, <2>3, <2>6, <2>7, QuietStep
  <1> QED BY <1>2, <1>3, <1>4 DEF ReconcileRecord

LEMMA RefuseStep == Inv /\ Refuse => Inv' /\ ForeignStays /\ Explained
PROOF
  <1> SUFFICES ASSUME Inv, Refuse PROVE Inv' /\ ForeignStays /\ Explained
    OBVIOUS
  <1>1. /\ RecordStays /\ pending' = pending
        /\ pc' = "idle" /\ todo' = <<>> /\ answer' = "declined"
    BY DEF Refuse, RecordStays, history, End
  <1>2. OperationType' /\ PlaceSound' /\ Explained
    BY <1>1 DEF OperationType, PlaceSound, Explained
  <1> QED BY <1>1, <1>2, QuietStep

LEMMA AdmitStep == Inv /\ Admit => Inv' /\ ForeignStays /\ Explained
PROOF
  <1> SUFFICES ASSUME Inv, Admit PROVE Inv' /\ ForeignStays /\ Explained
    OBVIOUS
  <1>1. /\ pc = "admit" /\ admission.status # "recovery_required" /\ last < MaxTransactions
        /\ last' = last + 1 /\ pc' = "open" /\ todo' = Preparation(last')
        /\ UNCHANGED <<disk, record, pending, admission, retained, intents, undone, answer>>
    BY DEF Admit, history
  <1>2. record = NoRecord /\ pending = "none" /\ answer # "refused"
    BY <1>1 DEF Inv, PlaceSound
  <1>3. /\ last \in Nat /\ last' \in 0..MaxTransactions /\ last' # 0
        /\ 0..last \subseteq 0..last' /\ 1..last \subseteq 1..last' /\ last' \notin 1..last
    BY <1>1, BoundsAssumption DEF Inv, StateType
  <1>4. last' \notin intents
    BY <1>3 DEF Inv, StateType
  <1>5. StateType'
    <2>1. Claimed' = Claimed
      BY <1>1 DEF Claimed
    <2> QED BY <1>1, <1>3, <2>1 DEF Inv, StateType
  <1>6. RecordSound'
    <2>1. record \in [transaction : 0..last', bootstrap : BOOLEAN, claims : Seq(Claims)]
      BY <1>3 DEF Inv, Kept, RecordSound
    <2> QED BY <1>1, <1>2, <2>1 DEF Inv, Kept, RecordSound, Claimed
  <1>7. ClaimsSound' /\ IntentSound'
    BY <1>1, <1>2, <1>4 DEF ClaimsSound, Inv, Kept, IntentSound
  <1>8. Accounted' /\ PublishedIntact' /\ MovedSound'
    BY <1>1 DEF Inv, Kept, Accounted, PublishedIntact, Claimed, Intact, MovedSound
  <1>9. /\ Remainder(todo') /\ todo' # <<>> /\ Head(todo') = Step("claim", "control")
        /\ \A o \in Outputs : \/ Left(todo', o) = Of(o)
                              \/ o = "tool" /\ last' \in retained /\ Left(todo', o) = {}
    BY <1>1, PreparationSound
  <1>10. OpenSound'
    BY <1>1, <1>2, <1>3, <1>4, <1>9 DEF OpenSound, ControlNext, Untouched
  <1>11. OperationType'
    <2>1. Steps \subseteq Todos
      BY DEF Steps, Todos, Effects
    <2>2. todo' \in Seq(Steps)
      BY <1>9 DEF Remainder
    <2>3. todo' \in Seq(Todos)
      BY <2>1, <2>2
    <2> QED BY <1>1, <2>3 DEF Inv, OperationType
  <1>12. PlaceSound' /\ Explained
    BY <1>1, <1>2, <1>10 DEF PlaceSound, Explained
  <1> QED BY <1>1, <1>5, <1>6, <1>7, <1>8, <1>11, <1>12 DEF Inv, Kept, ForeignStays

LEMMA OpenRecordStep == Inv /\ OpenRecord => Inv' /\ ForeignStays /\ Explained
PROOF
  <1> SUFFICES ASSUME Inv, OpenRecord PROVE Inv' /\ ForeignStays /\ Explained
    OBVIOUS
  <1>1. /\ pc = "open" /\ pc' = "prepare" /\ pending' = "none"
        /\ record' = [transaction |-> last, bootstrap |-> admission.status = "absent",
                      claims |-> <<>>]
        /\ UNCHANGED <<disk, admission, last, retained, intents, undone, todo, answer>>
    BY DEF OpenRecord, history
  <1>2. OpenSound /\ answer # "refused"
    BY <1>1 DEF Inv, PlaceSound
  <1>3. last \in Transactions /\ \A o \in Outputs : disk[last][o] = "absent"
    BY <1>2, NothingLeft DEF Inv, OpenSound
  <1>4. /\ record'.transaction = last /\ record'.claims = <<>> /\ record' # NoRecord
        /\ record' \in [transaction : 0..last, bootstrap : BOOLEAN, claims : Seq(Claims)]
    <2>1. last \in 0..last
      BY BoundsAssumption DEF Inv, StateType
    <2> QED BY <1>1, <1>2, <2>1 DEF NoRecord, OpenSound
  <1>5. Claimed' = {} /\ Len(record'.claims) = 0 /\ IsFiniteSet({}) /\ Cardinality({}) = 0
    BY <1>4, FS_EmptySet DEF Claimed
  <1>6. StateType'
    BY <1>1, <1>5 DEF Inv, StateType
  <1>7. RecordSound'
    BY <1>1, <1>2, <1>4, <1>5 DEF RecordSound, OpenSound
  <1>8. ClaimsSound'
    BY <1>1, <1>2, <1>3, <1>4, <1>5 DEF ClaimsSound, At, Exists, OpenSound
  <1>9. IntentSound'
    BY <1>1 DEF Inv, Kept, IntentSound
  <1>10. Accounted'
    <2>1. record.transaction = 0
      BY <1>2, NoRecordSound DEF OpenSound
    <2>2. \A t \in Transactions \ intents, o \in Outputs : ~Exists(disk[t][o])
      BY <2>1 DEF Inv, Kept, Accounted, Transactions
    <2> QED BY <1>1, <2>2 DEF Accounted
  <1>11. PublishedIntact' /\ MovedSound'
    BY <1>1 DEF Inv, Kept, PublishedIntact, Intact, MovedSound
  <1>12. OperationType'
    BY <1>1 DEF Inv, OperationType
  <1>13. \A o \in Outputs : OutputSound(o)'
    BY <1>1, <1>2, <1>3, <1>4, <1>5 DEF OutputSound, OpenSound, Untouched, At
  <1>14. PrepareSound'
    BY <1>1, <1>2, <1>4, <1>5, <1>13 DEF PrepareSound, OpenSound, ControlNext
  <1>15. PlaceSound' /\ Explained
    BY <1>1, <1>2, <1>14 DEF PlaceSound, Explained
  <1> QED BY <1>1, <1>6, <1>7, <1>8, <1>9, <1>10, <1>11, <1>12, <1>15
       DEF Inv, Kept, ForeignStays

-----------------------------------------------------------------------------
(* Steps that change the outputs of the record's transaction.              *)

\* What a change of the record and of its outputs must respect.
LEMMA OutputsChange ==
  ASSUME StateType, Kept, record # NoRecord, record' # NoRecord, last \notin intents \ undone,
         disk' \in Disks, \A t \in Transactions : t # last => disk'[t] = disk[t],
         RecordSound', Cardinality(Claimed') = Len(record'.claims),
         Claimed \subseteq Claimed',
         \A o \in Outputs \ Claimed' : ~Exists(disk'[last][o]),
         \A o \in Outputs : disk'[last][o] = disk[last][o] \/ disk'[last][o] # "moved",
         \A i \in 1..Len(record'.claims) :
           record'.claims[i].phase = "reserved" =>
             disk'[last][record'.claims[i].output] \notin {"partial", "full"},
         pending' = pending \/ (pending' \in {"none", "torn", "next"} /\ last \notin intents),
         UNCHANGED <<admission, last, retained, intents, undone>>
  PROVE  StateType' /\ Kept'
PROOF
  <1>1. record'.transaction = last /\ last # 0 /\ record.transaction = last
    BY DEF RecordSound, Kept
  <1>2. StateType'
    BY DEF StateType
  <1>3. ClaimsSound'
    BY <1>1 DEF Kept, ClaimsSound, At
  <1>4. IntentSound'
    BY <1>1 DEF Kept, IntentSound
  <1>5. MovedSound'
    BY DEF Kept, MovedSound
  <1>6. Accounted'
    <2> SUFFICES ASSUME NEW t \in Transactions \ intents, NEW o \in Outputs, Exists(disk'[t][o])
                 PROVE  t = last /\ o \in Claimed'
      BY <1>1 DEF Accounted
    <2>1. CASE t = last
      BY <2>1
    <2>2. CASE t # last
      BY <1>1, <2>2 DEF Kept, Accounted
    <2> QED BY <2>1, <2>2
  <1>7. PublishedIntact'
    <2>1. \A t \in intents \ undone : t \in Transactions /\ t # last
      BY BoundsAssumption DEF StateType, Transactions
    <2> QED BY <2>1 DEF Kept, PublishedIntact, Intact
  <1> QED BY <1>2, <1>3, <1>4, <1>5, <1>6, <1>7 DEF Kept

\* One claimed output changes.
LEMMA OutputChanges ==
  ASSUME StateType, Kept, record # NoRecord, last \notin intents \ undone,
         NEW o \in Claimed, NEW content \in Contents \ {"moved"}, Put(o, content),
         \A i \in 1..Len(record.claims) :
           record.claims[i].output = o /\ record.claims[i].phase = "reserved" =>
             content \notin {"partial", "full"},
         pending' = pending \/ (pending' \in {"none", "torn", "next"} /\ last \notin intents),
         UNCHANGED <<record, admission, last, retained, intents, undone>>
  PROVE  /\ StateType' /\ Kept'
         /\ record.transaction = last /\ last \in Transactions /\ o \in Outputs
         /\ disk'[last][o] = content
         /\ \A t \in Transactions, p \in Outputs : t # last \/ p # o => disk'[t][p] = disk[t][p]
PROOF
  <1>1. record.transaction = last /\ last \in Transactions
    BY RecordOwned
  <1>2. /\ o \in Outputs
        /\ \A i \in 1..Len(record.claims) : record.claims[i].output \in Outputs
    BY ClaimsAre DEF Kept
  <1>3. /\ disk' \in Disks /\ disk'[last][o] = content
        /\ \A t \in Transactions, p \in Outputs : t # last \/ p # o => disk'[t][p] = disk[t][p]
    BY <1>1, <1>2, PutSound DEF StateType
  <1>4. \A t \in Transactions : t # last => disk'[t] = disk[t]
    BY <1>1 DEF Put, StateType, Disks
  <1>5. Claimed' = Claimed /\ RecordSound' /\ Cardinality(Claimed') = Len(record'.claims)
    BY DEF Claimed, Kept, RecordSound, StateType
  <1>6. \A p \in Outputs \ Claimed : ~Exists(disk'[last][p])
    BY <1>1, <1>3 DEF Kept, ClaimsSound, At
  <1>7. ASSUME NEW i \in 1..Len(record.claims), record.claims[i].phase = "reserved"
        PROVE  disk'[last][record.claims[i].output] \notin {"partial", "full"}
    BY <1>1, <1>2, <1>3, <1>7 DEF Kept, ClaimsSound, At
  <1>8. \A p \in Outputs : disk'[last][p] = disk[last][p] \/ disk'[last][p] # "moved"
    BY <1>1, <1>3
  <1>9. StateType' /\ Kept'
    BY <1>3, <1>4, <1>5, <1>6, <1>7, <1>8, OutputsChange
  <1> QED BY <1>1, <1>2, <1>3, <1>9

\* A version of the record is published; what it binds may have been withdrawn.
LEMMA VersionPublished ==
  ASSUME StateType, Kept, record # NoRecord, last \notin intents,
         NEW step \in Steps, step.do \in Publishing, record' = RecordAfter(step),
         step.do = "claim" => step.output \notin Claimed,
         record.claims = <<>> => step.output = "control" /\ step.do = "claim",
         \/ disk' = disk
         \/ step.do # "claim" /\ step.output \in Claimed /\ Put(step.output, "absent"),
         UNCHANGED <<pending, admission, last, retained, intents, undone>>
  PROVE  /\ StateType' /\ Kept' /\ record' # NoRecord
         /\ record'.transaction = last /\ record.transaction = last /\ last \in Transactions
         /\ Claimed' = IF step.do = "claim" THEN Claimed \cup {step.output} ELSE Claimed
         /\ record'.claims = ClaimsAfter(record.claims, step)
PROOF
  <1> DEFINE claims == record.claims
             after == ClaimsAfter(claims, step)
             o == step.output
  <1>1. record.transaction = last /\ last \in Transactions /\ last # 0
    BY RecordOwned DEF Kept, RecordSound
  <1>2. /\ claims \in Seq(Claims) /\ Different(claims) /\ Claimed = ClaimedIn(claims)
        /\ IsFiniteSet(ClaimedIn(claims)) /\ Cardinality(ClaimedIn(claims)) = Len(claims)
        /\ Claimed \subseteq Outputs
        /\ \A i \in 1..Len(claims) : claims[i].output \in Claimed
    BY ClaimsAre DEF Kept, RecordSound, StateType
  <1>3. record' = [record EXCEPT !.claims = after]
    BY DEF RecordAfter
  <1> HIDE DEF after
  <1>4. /\ record'.transaction = last /\ record'.claims = after
        /\ record'.bootstrap = record.bootstrap
        /\ record \in [transaction : 0..last, bootstrap : BOOLEAN, claims : Seq(Claims)]
    BY <1>1, <1>3 DEF Kept, RecordSound
  <1>5. record' # NoRecord
    BY <1>1, <1>4, NoRecordSound
  <1>6. o \in Outputs /\ Len(claims) \in Nat
    BY <1>2 DEF Steps
  <1>7. /\ after \in Seq(Claims) /\ Different(after) /\ IsFiniteSet(ClaimedIn(after))
        /\ Cardinality(ClaimedIn(after)) = Len(after)
        /\ ClaimedIn(after) = IF step.do = "claim" THEN Claimed \cup {o} ELSE Claimed
        /\ \A i \in 1..Len(after) :
             after[i].phase = "reserved" =>
               \/ /\ i \in 1..Len(claims) /\ after[i].output = claims[i].output
                  /\ claims[i].phase = "reserved"
               \/ step.do = "claim" /\ after[i].output = o
        /\ after[1].output = "control"
    <2>1. CASE step.do = "claim"
      <3>1. o \in Outputs \ ClaimedIn(claims)
        BY <1>2, <1>6, <2>1
      <3>2. /\ after \in Seq(Claims) /\ Different(after) /\ Len(after) = Len(claims) + 1
            /\ ClaimedIn(after) = ClaimedIn(claims) \cup {o}
            /\ IsFiniteSet(ClaimedIn(after)) /\ Cardinality(ClaimedIn(after)) = Len(after)
            /\ \A i \in 1..Len(claims) : after[i] = claims[i]
            /\ after[Len(after)] = Claim(o)
        BY <1>2, <2>1, <3>1, ClaimAdded DEF after
      <3>3. \A i \in 1..Len(after) : i \in 1..Len(claims) \/ i = Len(claims) + 1
        BY <1>6, <3>2
      <3>4. after[1].output = "control"
        <4>1. CASE claims = <<>>
          <5>1. Len(after) = 1 /\ o = "control"
            BY <3>2, <4>1
          <5> QED BY <3>2, <5>1 DEF Claim
        <4>2. CASE claims # <<>>
          <5>1. 1 \in 1..Len(claims)
            BY <1>2, <4>2
          <5> QED BY <3>2, <4>2, <5>1 DEF Kept, RecordSound
        <4> QED BY <4>1, <4>2
      <3> QED BY <1>2, <2>1, <3>2, <3>3, <3>4 DEF Claim
    <2>2. CASE step.do # "claim"
      <3>1. step.do \in {"bind", "promote"}
        BY <2>2 DEF Publishing
      <3>2. /\ after \in Seq(Claims) /\ Different(after) /\ Len(after) = Len(claims)
            /\ ClaimedIn(after) = ClaimedIn(claims)
            /\ \A i \in 1..Len(claims) :
                 /\ after[i].output = claims[i].output
                 /\ after[i].phase = IF claims[i].output = o THEN PhaseAfter(step.do)
                                     ELSE claims[i].phase
        BY <1>2, <3>1, ClaimMoved DEF after
      <3>3. PhaseAfter(step.do) # "reserved"
        BY DEF PhaseAfter
      <3>4. 1 \in 1..Len(claims) /\ claims # <<>>
        BY <1>2, <2>2
      <3>5. after[1].output = "control"
        BY <3>2, <3>4 DEF Kept, RecordSound
      <3> QED BY <1>2, <2>2, <3>2, <3>3, <3>5
    <2> QED BY <2>1, <2>2
  <1>8. Claimed' = ClaimedIn(after)
    BY <1>4, <1>7 DEF Claimed, ClaimedIn
  <1>9. RecordSound' /\ Cardinality(Claimed') = Len(record'.claims)
    <2>1. record' \in [transaction : 0..last, bootstrap : BOOLEAN, claims : Seq(Claims)]
      BY <1>3, <1>4, <1>7
    <2> QED BY <1>1, <1>4, <1>7, <1>8, <2>1 DEF RecordSound, Different
  <1>10. /\ disk' \in Disks /\ \A t \in Transactions : t # last => disk'[t] = disk[t]
         /\ \A p \in Outputs :
              \/ disk'[last][p] = disk[last][p]
              \/ disk'[last][p] = "absent" /\ p \in Claimed /\ step.do # "claim"
    <2>1. CASE disk' = disk
      BY <2>1 DEF StateType
    <2>2. CASE step.do # "claim" /\ o \in Claimed /\ Put(o, "absent")
      <3>1. "absent" \in Contents
        BY DEF Contents
      <3>2. /\ disk' \in Disks /\ disk'[last][o] = "absent"
            /\ \A t \in Transactions, p \in Outputs :
                 t # last \/ p # o => disk'[t][p] = disk[t][p]
        BY <1>1, <1>6, <2>2, <3>1, PutSound DEF StateType
      <3>3. \A t \in Transactions : t # last => disk'[t] = disk[t]
        BY <1>1, <2>2 DEF Put, StateType, Disks
      <3> QED BY <1>1, <2>2, <3>2, <3>3
    <2> QED BY <2>1, <2>2
  <1>11. \A p \in Outputs \ Claimed' : ~Exists(disk'[last][p])
    BY <1>1, <1>7, <1>8, <1>10 DEF Kept, ClaimsSound, At, Exists
  <1>12. ASSUME NEW i \in 1..Len(after), after[i].phase = "reserved"
         PROVE  disk'[last][after[i].output] \notin {"partial", "full"}
    <2>a. after[i] \in Claims
      BY <1>7, <1>12
    <2>1. after[i].output \in Outputs
      BY <2>a DEF Claims
    <2>2. disk[last][after[i].output] \notin {"partial", "full"}
      <3>1. CASE /\ i \in 1..Len(claims) /\ after[i].output = claims[i].output
                 /\ claims[i].phase = "reserved"
        BY <1>1, <3>1 DEF Kept, ClaimsSound, At
      <3>2. CASE step.do = "claim" /\ after[i].output = o
        BY <1>1, <1>6, <3>2 DEF Kept, ClaimsSound, At, Exists
      <3> QED BY <1>7, <1>12, <3>1, <3>2
    <2> QED BY <1>10, <2>1, <2>2
  <1>13. \A p \in Outputs : disk'[last][p] = disk[last][p] \/ disk'[last][p] # "moved"
    BY <1>10
  <1>14. Claimed \subseteq Claimed'
    BY <1>7, <1>8
  <1>15. StateType' /\ Kept'
    BY <1>4, <1>5, <1>9, <1>10, <1>11, <1>12, <1>13, <1>14, OutputsChange
  <1> QED BY <1>1, <1>4, <1>5, <1>7, <1>8, <1>15 DEF after

-----------------------------------------------------------------------------
(* Preparing.                                                              *)

\* What an effect finds of its output, and what it makes of it.
LEMMA EffectSound ==
  ASSUME NEW o \in Outputs, NEW do \in Of(o)
  PROVE  LET left == Since(do, o)
             after == Following(do, o)
         IN
         /\ "claim" \notin after /\ left # {}
         /\ do # "claim" => "claim" \notin left
         /\ do = "claim" => Made(after, o) = "absent" /\ PhaseOf(after, o) = "reserved"
         /\ do = "create" => /\ Made(left, o) = "absent" /\ Made(after, o) = "empty"
                             /\ PhaseOf(left, o) = PhaseOf(after, o)
         /\ do = "bind" => /\ Made(left, o) = Made(after, o)
                           /\ PhaseOf(left, o) = "reserved"
                           /\ PhaseOf(after, o) = "incomplete"
         /\ do = "write" => /\ Made(left, o) = "empty" /\ Made(after, o) = "partial"
                            /\ PhaseOf(left, o) = "incomplete"
                            /\ PhaseOf(after, o) = "incomplete"
         /\ do = "finish" => /\ Made(left, o) = "partial" /\ Made(after, o) = "full"
                             /\ PhaseOf(left, o) = "incomplete"
                             /\ PhaseOf(after, o) = "incomplete"
         /\ do = "promote" => /\ Made(left, o) = Made(after, o)
                              /\ PhaseOf(after, o) = "complete"
PROOF
  <1>1. do \in Effects
    BY DEF Of, Effects
  <1>2. CASE o = "control"
    BY <1>1, <1>2 DEF Of, Effects, Later, Made, PhaseOf, Since, Following
  <1>3. CASE o # "control"
    <2>1. Of(o) = Effects
      BY <1>3 DEF Of
    <2>2. CASE do = "claim"
      BY <1>3, <2>1, <2>2 DEF Effects, Later, Made, PhaseOf, Since, Following
    <2>3. CASE do = "create"
      BY <1>3, <2>1, <2>3 DEF Effects, Later, Made, PhaseOf, Since, Following
    <2>4. CASE do = "bind"
      BY <1>3, <2>1, <2>4 DEF Effects, Later, Made, PhaseOf, Since, Following
    <2>5. CASE do = "write"
      BY <1>3, <2>1, <2>5 DEF Effects, Later, Made, PhaseOf, Since, Following
    <2>6. CASE do = "finish"
      BY <1>3, <2>1, <2>6 DEF Effects, Later, Made, PhaseOf, Since, Following
    <2>7. CASE do = "promote"
      BY <1>3, <2>1, <2>7 DEF Effects, Later, Made, PhaseOf, Since, Following
    <2> QED BY <1>1, <2>2, <2>3, <2>4, <2>5, <2>6, <2>7 DEF Effects
  <1> QED BY <1>2, <1>3

\* The next step of a preparation finds its output as the steps before left it.
LEMMA HeadSound ==
  ASSUME Inv, pc = "prepare", todo # <<>>
  PROVE  LET step == Head(todo)
             o == step.output
             left == Left(todo, o)
             after == Left(Tail(todo), o)
         IN  /\ step \in Steps /\ o \in Outputs /\ step.do \in Of(o)
             /\ Remainder(Tail(todo))
             /\ left = Since(step.do, o)
             /\ after = Following(step.do, o)
             /\ \A p : p # o => Left(Tail(todo), p) = Left(todo, p)
             /\ step.do = "claim" => o \notin Claimed /\ At(o) = "absent"
             /\ step.do # "claim" =>
                  /\ o \in Claimed /\ At(o) = Made(left, o) /\ record.claims # <<>>
                  /\ \A i \in 1..Len(record.claims) :
                       record.claims[i].output = o =>
                         record.claims[i].phase = PhaseOf(left, o)
             /\ record.claims = <<>> => o = "control" /\ step.do = "claim"
PROOF
  <1> DEFINE step == Head(todo)
             o == step.output
             left == Left(todo, o)
             after == Left(Tail(todo), o)
  <1>1. PrepareSound
    BY DEF Inv, PlaceSound
  <1>2. /\ step \in Steps /\ step.do \in Of(o) /\ Remainder(Tail(todo))
        /\ left = Since(step.do, o)
        /\ after = Following(step.do, o)
        /\ \A p : p # o => Left(Tail(todo), p) = Left(todo, p)
    BY <1>1, RemainderTail DEF PrepareSound
  <1>3. o \in Outputs
    BY <1>2 DEF Steps
  <1>4. OutputSound(o)
    BY <1>1, <1>3 DEF PrepareSound
  <1>5. record.claims = <<>> => step = Step("claim", "control")
    BY <1>1 DEF PrepareSound, ControlNext
  <1>6. record.claims = <<>> => o = "control" /\ step.do = "claim"
    BY <1>5 DEF Step
  <1> HIDE DEF step
  <1>7. step.do = "claim" => o \notin Claimed /\ At(o) = "absent"
    BY <1>2, <1>4 DEF OutputSound, Since
  <1>8. ASSUME step.do # "claim"
        PROVE  o \in Claimed /\ At(o) = Made(left, o)
    <2>1. "claim" \notin left /\ left # {}
      BY <1>2, <1>3, <1>8, EffectSound
    <2>2. "claim" \in Of(o)
      BY DEF Of, Effects
    <2>3. ~Untouched(o)
      BY <2>1, <2>2 DEF Untouched
    <2> QED BY <1>4, <2>3 DEF OutputSound
  <1>9. \A i \in 1..Len(record.claims) :
          record.claims[i].output = o => record.claims[i].phase = PhaseOf(left, o)
    BY <1>1 DEF PrepareSound
  <1> QED BY <1>2, <1>3, <1>6, <1>7, <1>8, <1>9 DEF step

\* The step that makes something of an output.
LEMMA MadeStep ==
  ASSUME Inv, Prepare, Head(todo).do \notin Publishing
  PROVE  Inv' /\ ForeignStays /\ Explained
PROOF
  <1> DEFINE step == Head(todo)
             o == step.output
             left == Left(todo, o)
             after == Left(Tail(todo), o)
             content == ContentAfter(step)
  <1>1. /\ pc = "prepare" /\ todo # <<>> /\ pc' = "prepare" /\ todo' = Tail(todo)
        /\ UNCHANGED <<record, pending, admission, last, retained, intents, undone, answer>>
        /\ Put(o, content)
    BY DEF Prepare, history
  <1>2. /\ PrepareSound /\ pending = "none" /\ answer # "refused"
        /\ StateType /\ Kept /\ OperationType
    BY <1>1 DEF Inv, PlaceSound
  <1>3. /\ step \in Steps /\ o \in Outputs /\ step.do \in Of(o)
        /\ Remainder(todo')
        /\ left = Since(step.do, o)
        /\ after = Following(step.do, o)
        /\ \A p : p # o => Left(todo', p) = Left(todo, p)
        /\ step.do # "claim" =>
             /\ o \in Claimed /\ At(o) = Made(left, o) /\ record.claims # <<>>
             /\ \A i \in 1..Len(record.claims) :
                  record.claims[i].output = o => record.claims[i].phase = PhaseOf(left, o)
    BY <1>1, HeadSound
  <1>4. after = Left(todo', o)
    BY <1>1
  <1> HIDE DEF step, content, left, after
  <1>5. step.do \in {"create", "write", "finish"}
    <2>1. step.do \in Effects
      BY <1>3 DEF Steps
    <2> QED BY <2>1 DEF Effects, Publishing, step
  <1>6. /\ "claim" \notin after /\ Made(after, o) = content /\ PhaseOf(after, o) = PhaseOf(left, o)
        /\ step.do # "create" => PhaseOf(left, o) = "incomplete"
        /\ content \in {"empty", "partial", "full"} /\ (step.do = "create" => content = "empty")
        /\ Made(left, o) \notin Others
    BY <1>3, <1>5, EffectSound DEF content, ContentAfter, Others
  <1>7. content \in Contents \ {"moved"}
    BY <1>6 DEF Contents
  <1>8. ASSUME NEW i \in 1..Len(record.claims), record.claims[i].output = o,
               record.claims[i].phase = "reserved"
        PROVE  content \notin {"partial", "full"}
    BY <1>3, <1>5, <1>6, <1>8
  <1>9. record # NoRecord /\ last \notin intents \ undone
    BY <1>2 DEF PrepareSound
  <1>10. /\ StateType' /\ Kept' /\ record.transaction = last /\ last \in Transactions
         /\ disk'[last][o] = content
         /\ \A t \in Transactions, p \in Outputs : t # last \/ p # o => disk'[t][p] = disk[t][p]
    BY <1>1, <1>2, <1>3, <1>5, <1>7, <1>8, <1>9, OutputChanges
  <1>11. Claimed' = Claimed
    BY <1>1 DEF Claimed
  <1>12. ASSUME NEW p \in Outputs PROVE OutputSound(p)'
    <2>1. CASE p = o
      BY <1>1, <1>3, <1>4, <1>5, <1>6, <1>10, <1>11, <2>1 DEF OutputSound, At
    <2>2. CASE p # o
      <3>1. OutputSound(p) /\ Left(todo', p) = Left(todo, p) /\ At(p)' = At(p)
        BY <1>1, <1>2, <1>3, <1>10, <2>2 DEF PrepareSound, At
      <3> QED BY <1>1, <1>11, <3>1 DEF OutputSound, Untouched
    <2> QED BY <2>1, <2>2
  <1>13. ASSUME NEW i \in 1..Len(record.claims)
         PROVE  record.claims[i].phase
                  = PhaseOf(Left(todo', record.claims[i].output), record.claims[i].output)
    <2>1. CASE record.claims[i].output = o
      BY <1>3, <1>4, <1>5, <1>6, <2>1
    <2>2. CASE record.claims[i].output # o
      BY <1>2, <1>3, <2>2 DEF PrepareSound
    <2> QED BY <2>1, <2>2
  <1>14. PrepareSound'
    BY <1>1, <1>2, <1>3, <1>5, <1>12, <1>13 DEF PrepareSound
  <1>15. PlaceSound' /\ Explained
    BY <1>1, <1>2, <1>14 DEF PlaceSound, Explained
  <1>16. OperationType'
    <2>1. todo' \in Seq(Todos)
      BY <1>1, <1>2 DEF OperationType
    <2> QED BY <1>1, <1>2, <2>1 DEF OperationType
  <1>17. ForeignStays
    <2>1. disk[last][o] \notin Others
      BY <1>3, <1>5, <1>6, <1>10 DEF At
    <2> QED BY <1>10, <2>1 DEF ForeignStays
  <1> QED BY <1>10, <1>15, <1>16, <1>17 DEF Inv

\* The step that publishes a version of the record.
LEMMA PublishingStep ==
  ASSUME Inv, Prepare, Head(todo).do \in Publishing
  PROVE  Inv' /\ ForeignStays /\ Explained
PROOF
  <1> DEFINE step == Head(todo)
             o == step.output
             left == Left(todo, o)
             after == Left(Tail(todo), o)
             claims == record.claims
  <1>1. /\ pc = "prepare" /\ todo # <<>> /\ pc' = "prepare" /\ todo' = Tail(todo)
        /\ UNCHANGED <<disk, pending, admission, last, retained, intents, undone, answer>>
        /\ record' = RecordAfter(step)
    BY DEF Prepare, history
  <1>2. /\ PrepareSound /\ pending = "none" /\ answer # "refused"
        /\ StateType /\ Kept /\ OperationType
    BY <1>1 DEF Inv, PlaceSound
  <1>3. /\ step \in Steps /\ o \in Outputs /\ step.do \in Of(o)
        /\ Remainder(todo')
        /\ left = Since(step.do, o)
        /\ after = Following(step.do, o)
        /\ \A p : p # o => Left(todo', p) = Left(todo, p)
        /\ step.do = "claim" => o \notin Claimed /\ At(o) = "absent"
        /\ step.do # "claim" =>
             /\ o \in Claimed /\ At(o) = Made(left, o) /\ claims # <<>>
        /\ claims = <<>> => o = "control" /\ step.do = "claim"
    BY <1>1, HeadSound
  <1>4. after = Left(todo', o)
    BY <1>1
  <1>5. step.do \in Publishing
    OBVIOUS
  <1> HIDE DEF step, left, after
  <1>6. record # NoRecord /\ last \notin intents
    BY <1>2 DEF PrepareSound
  <1>7. /\ StateType' /\ Kept' /\ record' # NoRecord
        /\ record'.transaction = last /\ record.transaction = last /\ last \in Transactions
        /\ Claimed' = IF step.do = "claim" THEN Claimed \cup {o} ELSE Claimed
        /\ record'.claims = ClaimsAfter(claims, step)
    BY <1>1, <1>2, <1>3, <1>5, <1>6, VersionPublished
  <1>8. /\ claims \in Seq(Claims) /\ Different(claims) /\ Claimed = ClaimedIn(claims)
        /\ IsFiniteSet(ClaimedIn(claims)) /\ Cardinality(ClaimedIn(claims)) = Len(claims)
    BY <1>2, ClaimsAre DEF Kept, RecordSound, StateType
  <1>9. /\ "claim" \notin after
        /\ PhaseOf(after, o) = IF step.do = "claim" THEN "reserved" ELSE PhaseAfter(step.do)
        /\ Made(after, o) = IF step.do = "claim" THEN "absent" ELSE Made(left, o)
    <2>1. CASE step.do = "claim"
      BY <1>3, <2>1, EffectSound
    <2>2. CASE step.do = "bind"
      BY <1>3, <2>2, EffectSound DEF PhaseAfter
    <2>3. CASE step.do = "promote"
      BY <1>3, <2>3, EffectSound DEF PhaseAfter
    <2> QED BY <1>5, <2>1, <2>2, <2>3 DEF Publishing
  <1>10. ASSUME NEW p \in Outputs PROVE OutputSound(p)'
    <2>1. At(p)' = At(p)
      BY <1>1, <1>7 DEF At
    <2>2. CASE p = o
      BY <1>3, <1>4, <1>7, <1>9, <2>1, <2>2 DEF OutputSound
    <2>3. CASE p # o
      <3>1. OutputSound(p) /\ Left(todo', p) = Left(todo, p) /\ (p \in Claimed' <=> p \in Claimed)
        BY <1>2, <1>3, <1>7, <2>3 DEF PrepareSound
      <3> QED BY <1>1, <2>1, <3>1 DEF OutputSound, Untouched
    <2> QED BY <2>2, <2>3
  <1>11. ASSUME NEW i \in 1..Len(record'.claims)
         PROVE  record'.claims[i].phase
                  = PhaseOf(Left(todo', record'.claims[i].output), record'.claims[i].output)
    <2>1. ASSUME NEW j \in 1..Len(claims), claims[j].output # o
          PROVE  claims[j].phase = PhaseOf(Left(todo', claims[j].output), claims[j].output)
      BY <1>2, <1>3, <2>1 DEF PrepareSound
    <2>2. CASE step.do = "claim"
      <3>1. o \in Outputs \ ClaimedIn(claims)
        BY <1>3, <1>8, <2>2
      <3>2. /\ Len(record'.claims) = Len(claims) + 1 /\ Len(claims) \in Nat
            /\ \A j \in 1..Len(claims) : record'.claims[j] = claims[j]
            /\ record'.claims[Len(claims) + 1] = Claim(o)
        BY <1>7, <1>8, <2>2, <3>1, ClaimAdded
      <3>3. \A j \in 1..Len(claims) : claims[j].output # o
        BY <1>8, <3>1 DEF ClaimedIn
      <3>4. CASE i \in 1..Len(claims)
        BY <2>1, <3>2, <3>3, <3>4
      <3>5. CASE i = Len(claims) + 1
        BY <1>4, <1>9, <2>2, <3>2, <3>5 DEF Claim
      <3> QED BY <1>11, <3>2, <3>4, <3>5
    <2>3. CASE step.do # "claim"
      <3>1. step.do \in {"bind", "promote"}
        BY <1>5, <2>3 DEF Publishing
      <3>2. /\ Len(ClaimsAfter(claims, step)) = Len(claims)
            /\ \A j \in 1..Len(claims) :
                 /\ ClaimsAfter(claims, step)[j].output = claims[j].output
                 /\ ClaimsAfter(claims, step)[j].phase =
                      IF claims[j].output = step.output THEN PhaseAfter(step.do)
                      ELSE claims[j].phase
        BY <1>8, <3>1, ClaimMoved
      <3>3. /\ i \in 1..Len(claims)
            /\ record'.claims[i].output = claims[i].output
            /\ record'.claims[i].phase = IF claims[i].output = o THEN PhaseAfter(step.do)
                                         ELSE claims[i].phase
        BY <1>7, <1>11, <3>2
      <3> QED BY <1>4, <1>9, <2>1, <2>3, <3>3
    <2> QED BY <2>2, <2>3
  <1>12. record'.claims # <<>>
    <2>1. o \in Claimed'
      BY <1>3, <1>7
    <2> QED BY <2>1 DEF Claimed
  <1>13. PrepareSound'
    BY <1>1, <1>2, <1>3, <1>7, <1>10, <1>11, <1>12 DEF PrepareSound
  <1>14. PlaceSound' /\ Explained
    BY <1>1, <1>2, <1>13 DEF PlaceSound, Explained
  <1>15. OperationType'
    <2>1. todo' \in Seq(Todos)
      BY <1>1, <1>2 DEF OperationType
    <2> QED BY <1>1, <1>2, <2>1 DEF OperationType
  <1> QED BY <1>1, <1>7, <1>14, <1>15 DEF Inv, ForeignStays

LEMMA PrepareStep == Inv /\ Prepare => Inv' /\ ForeignStays /\ Explained
PROOF
  <1> QED BY MadeStep, PublishingStep

-----------------------------------------------------------------------------
(* Publishing, and what the recoverer does to the disk.                    *)

\* When no step is left every output is there, and its claim says so.
LEMMA PreparationDone ==
  ASSUME Inv, pc = "prepare", todo = <<>>
  PROVE  /\ record # NoRecord /\ record.transaction = last /\ last \in Transactions
         /\ last \notin intents /\ admission.status # "recovery_required"
         /\ pending = "none" /\ answer # "refused"
         /\ \A o \in Outputs :
              IF o \in Claimed THEN At(o) = IF o = "control" THEN "empty" ELSE "full"
                               ELSE At(o) = "absent" /\ o = "tool" /\ last \in retained
         /\ \A i \in 1..Len(record.claims) : record.claims[i].phase # "reserved"
PROOF
  <1>1. PrepareSound /\ pending = "none" /\ answer # "refused"
    BY DEF Inv, PlaceSound
  <1>2. record.transaction = last /\ last \in Transactions
    BY <1>1, RecordOwned DEF Inv, PrepareSound
  <1>3. \A o : Left(todo, o) = {}
    BY DEF Left
  <1>4. ASSUME NEW o \in Outputs
        PROVE  IF o \in Claimed THEN At(o) = IF o = "control" THEN "empty" ELSE "full"
                                ELSE At(o) = "absent" /\ o = "tool" /\ last \in retained
    <2>1. OutputSound(o)
      BY <1>1 DEF PrepareSound
    <2>2. Of(o) # {}
      BY DEF Of, Effects
    <2> QED BY <1>3, <2>1, <2>2 DEF OutputSound, Untouched, Made
  <1>5. \A i \in 1..Len(record.claims) : record.claims[i].phase # "reserved"
    BY <1>1, <1>3 DEF PrepareSound, PhaseOf
  <1> QED BY <1>1, <1>2, <1>4, <1>5 DEF PrepareSound

LEMMA PublishIntentStep == Inv /\ PublishIntent => Inv' /\ ForeignStays /\ Explained
PROOF
  <1> SUFFICES ASSUME Inv, PublishIntent PROVE Inv' /\ ForeignStays /\ Explained
    OBVIOUS
  <1> DEFINE t == record.transaction
             tree == [o \in Outputs |->
                        IF record.bootstrap /\ o \in Control /\ Exists(disk[t][o])
                        THEN "moved" ELSE disk[t][o]]
  <1>1. /\ pc = "prepare" /\ todo = <<>> /\ pc' = "preserve"
        /\ disk' = [disk EXCEPT ![t] = tree]
        /\ admission' = [admission EXCEPT !.status = "recovery_required", !.transaction = t]
        /\ intents' = intents \cup {t}
        /\ UNCHANGED <<record, pending, last, retained, undone, todo, answer>>
    BY DEF PublishIntent
  <1>2. /\ record # NoRecord /\ t = last /\ last \in Transactions
        /\ last \notin intents /\ admission.status # "recovery_required"
        /\ pending = "none" /\ answer # "refused"
        /\ \A o \in Outputs :
             IF o \in Claimed THEN disk[last][o] = IF o = "control" THEN "empty" ELSE "full"
                              ELSE disk[last][o] = "absent" /\ o = "tool" /\ last \in retained
        /\ \A i \in 1..Len(record.claims) : record.claims[i].phase # "reserved"
    BY <1>1, PreparationDone DEF At
  <1>3. StateType /\ Kept /\ last # 0 /\ Claimed' = Claimed
    BY <1>1, <1>2 DEF Inv, Kept, RecordSound, Claimed
  <1>4. \A o \in Outputs : tree[o] = "moved" \/ tree[o] = disk[last][o]
    BY <1>2
  <1>5. \A o \in Outputs : tree[o] = "moved" => o \in Control /\ o \in Claimed
    BY <1>2 DEF Exists
  <1>6. tree \in [Outputs -> Contents]
    <2>1. disk[last] \in [Outputs -> Contents]
      BY <1>2, <1>3 DEF StateType, Disks
    <2> QED BY <1>2, <2>1 DEF Contents
  <1> HIDE DEF tree
  <1>7. /\ disk' \in Disks /\ disk'[last] = tree
        /\ \A u \in Transactions : u # last => disk'[u] = disk[u]
    BY <1>1, <1>2, <1>3, <1>6 DEF StateType, Disks
  <1>8. /\ admission'.status = "recovery_required" /\ admission'.transaction = last
        /\ admission'.certified = admission.certified
        /\ admission' \in [status : {"absent", "recovery_required", "terminal"},
                           transaction : 0..last, certified : 0..last]
    <2>1. last \in 0..last
      BY <1>3, BoundsAssumption DEF StateType
    <2> QED BY <1>1, <1>2, <1>3, <2>1 DEF StateType
  <1>9. StateType'
    <2>1. last \in 1..last
      BY <1>3, BoundsAssumption DEF StateType
    <2> QED BY <1>1, <1>2, <1>3, <1>7, <1>8, <2>1 DEF StateType
  <1>10. RecordSound'
    BY <1>1, <1>3 DEF Kept, RecordSound
  <1>11. ClaimsSound'
    <2>1. \A o \in Outputs \ Claimed : ~Exists(disk'[last][o])
      BY <1>2, <1>4, <1>7 DEF Exists
    <2>2. "journal" \in Claimed
      <3>1. "journal" \in Outputs
        BY DEF Outputs, Control
      <3> QED BY <1>2, <3>1
    <2> QED BY <1>1, <1>2, <1>3, <2>1, <2>2 DEF ClaimsSound, At
  <1>12. IntentSound'
    BY <1>1, <1>2, <1>3, <1>8 DEF Kept, IntentSound, StateType
  <1>13. MovedSound' /\ Accounted'
    <2>1. \A u \in Transactions \ intents' : u \in Transactions \ intents /\ disk'[u] = disk[u]
      BY <1>1, <1>2, <1>7
    <2> QED BY <1>1, <1>3, <2>1 DEF Kept, MovedSound, Accounted
  <1>14. PublishedIntact'
    <2> SUFFICES ASSUME NEW u \in intents' \ undone', NEW o \in Outputs
                 PROVE  \/ disk'[u][o] \in {"full", "moved", "rewritten"}
                        \/ o = "control" /\ disk'[u][o] = "empty"
                        \/ o = "tool" /\ u \in retained'
      BY DEF PublishedIntact, Intact
    <2>1. CASE u = last
      BY <1>1, <1>2, <1>4, <1>7, <2>1
    <2>2. CASE u # last
      <3>1. u \in intents \ undone /\ u \in Transactions
        BY <1>1, <1>2, <1>3, <2>2, BoundsAssumption DEF StateType, Transactions
      <3> QED BY <1>1, <1>3, <1>7, <2>2, <3>1 DEF Kept, PublishedIntact, Intact
    <2> QED BY <2>1, <2>2
  <1>15. OperationType'
    BY <1>1 DEF Inv, OperationType
  <1>16. PlaceSound' /\ Explained
    BY <1>1, <1>2, <1>8 DEF PlaceSound, Explained
  <1>17. ForeignStays
    <2>1. \A o \in Outputs : disk[last][o] \notin Others
      BY <1>2 DEF Others
    <2> QED BY <1>7, <2>1 DEF ForeignStays
  <1> QED BY <1>9, <1>10, <1>11, <1>12, <1>13, <1>14, <1>15, <1>16, <1>17 DEF Inv, Kept

LEMMA PreserveStep == Inv /\ Preserve => Inv' /\ ForeignStays /\ Explained
PROOF
  <1> SUFFICES ASSUME Inv, Preserve PROVE Inv' /\ ForeignStays /\ Explained
    OBVIOUS
  <1>1. /\ pc = "preserve" /\ record' = NoRecord
        /\ UNCHANGED <<disk, pending, admission, last, retained, intents, undone>>
        /\ \/ pc' = "execute" /\ todo' = todo /\ answer' = answer
           \/ pc' = "idle" /\ todo' = <<>> /\ answer' = answer
    BY DEF Preserve, history, End
  <1>2. admission.status = "recovery_required" /\ pending = "none" /\ answer # "refused"
    BY <1>1 DEF Inv, PlaceSound
  <1>3. last \in intents
    BY <1>2 DEF Inv, Kept, IntentSound
  <1>4. StateType' /\ Kept'
    BY <1>1, <1>3, RecordRetired DEF Inv
  <1>5. OperationType'
    <2>1. pc' \in {"execute", "idle"} /\ answer' = answer
      BY <1>1
    <2>2. todo' \in Seq(Todos)
      <3>1. <<>> \in Seq(Todos) /\ todo \in Seq(Todos)
        BY DEF Inv, OperationType
      <3> QED BY <1>1, <3>1
    <2> QED BY <2>1, <2>2 DEF Inv, OperationType
  <1>6. PlaceSound' /\ Explained
    BY <1>1, <1>2 DEF PlaceSound, Explained
  <1> QED BY <1>1, <1>4, <1>5, <1>6 DEF Inv, ForeignStays

\* The recoverer rewrites the journal of the transaction, and may settle it.
LEMMA JournalRewritten ==
  ASSUME StateType, Kept, admission.status = "recovery_required",
         disk' = Rewritten(admission.transaction),
         \/ UNCHANGED <<admission, undone>>
         \/ \E goal \in {"target", "prior"} : Recovered(goal),
         UNCHANGED <<record, pending, last, retained, intents>>
  PROVE  /\ StateType' /\ Kept' /\ ForeignStays /\ last \in intents /\ last \in Transactions
         /\ \A o \in Outputs :
              \/ disk'[last][o] = disk[last][o]
              \/ o = "journal" /\ disk'[last][o] = "rewritten"
PROOF
  <1>1. /\ admission.transaction = last /\ last \in intents \ undone
    BY DEF Kept, IntentSound
  <1>2. last \in Transactions /\ last \in Nat /\ last # 0
    BY <1>1, BoundsAssumption DEF StateType, Transactions
  <1>3. "journal" \in Outputs /\ "rewritten" \in Contents
    BY DEF Outputs, Control, Contents
  <1> DEFINE content == IF disk[last]["journal"] = "moved" THEN "moved" ELSE "rewritten"
             tree == [disk[last] EXCEPT !["journal"] = content]
  <1>4. disk' = [disk EXCEPT ![last] = tree]
    BY <1>1 DEF Rewritten
  <1>5. disk[last] \in [Outputs -> Contents]
    BY <1>2 DEF StateType, Disks
  <1>6. /\ tree \in [Outputs -> Contents]
        /\ tree["journal"] = content /\ \A o \in Outputs : o # "journal" => tree[o] = disk[last][o]
    BY <1>3, <1>5 DEF Contents
  <1>7. /\ content = "moved" => disk[last]["journal"] = "moved"
        /\ content \in {"moved", "rewritten"}
    OBVIOUS
  <1> HIDE DEF tree, content
  <1>8. /\ disk' \in Disks /\ disk'[last] = tree
        /\ \A u \in Transactions : u # last => disk'[u] = disk[u]
    BY <1>2, <1>4, <1>6 DEF StateType, Disks
  <1>9. /\ admission' \in [status : {"absent", "recovery_required", "terminal"},
                           transaction : 0..last, certified : 0..last]
        /\ undone' \subseteq intents
        /\ undone \subseteq undone' /\ undone' \subseteq undone \cup {last}
        /\ \/ /\ admission'.status = "recovery_required" /\ admission'.transaction = last
              /\ undone' = undone
           \/ /\ admission'.status = "terminal"
              /\ last \notin undone' => admission'.certified = last
        /\ admission'.certified \in {admission.certified, last}
    <2>1. CASE UNCHANGED <<admission, undone>>
      BY <1>1, <2>1 DEF StateType
    <2>2. ASSUME NEW goal \in {"target", "prior"}, Recovered(goal)
          PROVE  /\ admission' \in [status : {"absent", "recovery_required", "terminal"},
                                    transaction : 0..last, certified : 0..last]
                 /\ undone' \subseteq intents
                 /\ undone \subseteq undone' /\ undone' \subseteq undone \cup {last}
                 /\ admission'.status = "terminal"
                 /\ last \notin undone' => admission'.certified = last
                 /\ admission'.certified \in {admission.certified, last}
      <3>1. /\ admission' = [status |-> "terminal", transaction |-> 0,
                             certified |-> IF goal = "target" \/ disk[last]["control"] = "moved"
                                           THEN last ELSE admission.certified]
            /\ undone' = IF goal = "prior" THEN undone \cup {last} ELSE undone
        BY <1>1, <2>2 DEF Recovered, Terminal
      <3>2. 0 \in 0..last /\ last \in 0..last /\ admission.certified \in 0..last
        BY <1>2 DEF StateType
      <3> QED BY <1>1, <3>1, <3>2 DEF StateType
    <2> QED BY <2>1, <2>2
  <1>10. Claimed' = Claimed /\ StateType'
    BY <1>8, <1>9 DEF Claimed, StateType
  <1>11. RecordSound'
    BY <1>10 DEF Kept, RecordSound
  <1>12. record # NoRecord => record.transaction = last /\ "journal" \in Claimed
    BY <1>1 DEF Kept, RecordSound, ClaimsSound
  <1>13. ClaimsSound'
    <2> SUFFICES ASSUME record # NoRecord
                 PROVE  /\ \A o \in Outputs \ Claimed : ~Exists(disk'[last][o])
                        /\ \A i \in 1..Len(record.claims) :
                             record.claims[i].phase = "reserved" =>
                               disk'[last][record.claims[i].output] \notin {"partial", "full"}
      BY <1>10, <1>12 DEF ClaimsSound, At
    <2>1. \A o \in Outputs \ Claimed : ~Exists(disk'[last][o])
      BY <1>6, <1>8, <1>12 DEF Kept, ClaimsSound, At
    <2>2. ASSUME NEW i \in 1..Len(record.claims), record.claims[i].phase = "reserved"
          PROVE  disk'[last][record.claims[i].output] \notin {"partial", "full"}
      <3>1. record.claims[i].output \in Outputs
        BY ClaimsAre DEF Kept
      <3>2. disk[last][record.claims[i].output] \notin {"partial", "full"}
        BY <1>12, <2>2 DEF Kept, ClaimsSound, At
      <3> QED BY <1>6, <1>7, <1>8, <3>1, <3>2
    <2> QED BY <2>1, <2>2
  <1>14. IntentSound'
    BY <1>1, <1>9 DEF Kept, IntentSound
  <1>15. MovedSound' /\ Accounted'
    <2>1. \A u \in Transactions \ intents : disk'[u] = disk[u]
      BY <1>1, <1>8
    <2> QED BY <1>10, <2>1 DEF Kept, MovedSound, Accounted
  <1>16. disk[last]["journal"] \in {"full", "moved", "rewritten"}
    BY <1>1, <1>3 DEF Kept, PublishedIntact, Intact
  <1>17. PublishedIntact'
    <2> SUFFICES ASSUME NEW u \in intents \ undone', NEW o \in Outputs
                 PROVE  \/ disk'[u][o] \in {"full", "moved", "rewritten"}
                        \/ o = "control" /\ disk'[u][o] = "empty"
                        \/ o = "tool" /\ u \in retained
      BY DEF PublishedIntact, Intact
    <2>1. u \in Transactions /\ u \in intents \ undone
      BY <1>9, BoundsAssumption DEF StateType, Transactions
    <2>2. \/ disk[u][o] \in {"full", "moved", "rewritten"}
          \/ o = "control" /\ disk[u][o] = "empty"
          \/ o = "tool" /\ u \in retained
      BY <2>1 DEF Kept, PublishedIntact, Intact
    <2>3. CASE u = last
      BY <1>6, <1>7, <1>8, <2>2, <2>3
    <2>4. CASE u # last
      BY <1>8, <2>1, <2>2, <2>4
    <2> QED BY <2>3, <2>4
  <1>18. ForeignStays
    BY <1>6, <1>8, <1>16 DEF ForeignStays, Others
  <1> QED BY <1>1, <1>2, <1>6, <1>7, <1>8, <1>10, <1>11, <1>13, <1>14, <1>15, <1>17, <1>18 DEF Kept

LEMMA ExecuteStep == Inv /\ Execute => Inv' /\ ForeignStays /\ Explained
PROOF
  <1> SUFFICES ASSUME Inv, Execute PROVE Inv' /\ ForeignStays /\ Explained
    OBVIOUS
  <1>1. /\ pc = "execute" /\ Recovered("target")
        /\ pc' = "idle" /\ todo' = <<>> /\ answer' = "done"
        /\ UNCHANGED <<record, pending, last, retained, intents>>
    BY DEF Execute, End
  <1>2. admission.status = "recovery_required" /\ StateType /\ Kept
    BY <1>1 DEF Inv, PlaceSound
  <1>3. disk' = Rewritten(admission.transaction)
    BY <1>1 DEF Recovered
  <1>4. StateType' /\ Kept' /\ ForeignStays
    BY <1>1, <1>2, <1>3, JournalRewritten
  <1>5. OperationType' /\ PlaceSound' /\ Explained
    BY <1>1 DEF OperationType, PlaceSound, Explained
  <1> QED BY <1>4, <1>5 DEF Inv

LEMMA RecovererStep ==
  ASSUME Inv, pc = "idle", admission.status = "recovery_required",
         disk' = Rewritten(admission.transaction),
         \/ UNCHANGED <<admission, undone>>
         \/ \E goal \in {"target", "prior"} : Recovered(goal),
         UNCHANGED <<record, pending, pc, todo, answer, last, retained, intents>>
  PROVE  Inv' /\ ForeignStays /\ Explained
PROOF
  <1>1. /\ StateType' /\ Kept' /\ ForeignStays /\ last \in intents /\ last \in Transactions
        /\ \A o \in Outputs :
             \/ disk'[last][o] = disk[last][o]
             \/ o = "journal" /\ disk'[last][o] = "rewritten"
    BY JournalRewritten DEF Inv
  <1>2. OperationType' /\ PlaceSound'
    BY DEF Inv, OperationType, PlaceSound
  <1>3. Explained
    BY DEF Explained
  <1> QED BY <1>1, <1>2, <1>3 DEF Inv

LEMMA RecoverStep ==
  ASSUME NEW goal \in {"target", "prior"}
  PROVE  Inv /\ Recover(goal) => Inv' /\ ForeignStays /\ Explained
PROOF
  <1> SUFFICES ASSUME Inv, Recover(goal) PROVE Inv' /\ ForeignStays /\ Explained
    OBVIOUS
  <1>1. /\ pc = "idle" /\ admission.status = "recovery_required" /\ Recovered(goal)
        /\ UNCHANGED <<record, pending, pc, todo, answer, last, retained, intents>>
    BY DEF Recover, operation
  <1>2. disk' = Rewritten(admission.transaction)
    BY <1>1 DEF Recovered
  <1> QED BY <1>1, <1>2, RecovererStep

LEMMA RecoverInterruptedStep == Inv /\ RecoverInterrupted => Inv' /\ ForeignStays /\ Explained
PROOF
  <1> SUFFICES ASSUME Inv, RecoverInterrupted PROVE Inv' /\ ForeignStays /\ Explained
    OBVIOUS
  <1> QED BY RecovererStep DEF RecoverInterrupted, operation, history

-----------------------------------------------------------------------------
(* Taking back.                                                            *)

\* The output to be taken back next.
LEMMA CleanHead ==
  ASSUME Inv, pc = "clean", todo # <<>>
  PROVE  LET n == Len(todo)
             o == Head(todo).output
         IN  /\ n \in 1..Len(record.claims) /\ record.claims[n].output = o
             /\ o \in Claimed /\ o \in Outputs /\ Head(todo) \in TakenClaims
             /\ \/ Head(todo).phase = record.claims[n].phase
                \/ Head(todo).phase = "removing" /\ At(o) = "partial"
             /\ record # NoRecord /\ record.transaction = last /\ last \in Transactions
             /\ last \notin intents \ undone /\ At(o) \in Contents
PROOF
  <1> DEFINE n == Len(todo)
  <1>1. CleanSound
    BY DEF Inv, PlaceSound
  <1>2. /\ todo \in Seq(TakenClaims) /\ n <= Len(record.claims)
        /\ record.claims \in Seq(Claims)
    BY <1>1, ClaimsAre DEF CleanSound, Inv, Kept
  <1>3. /\ n \in 1..Len(record.claims) /\ 1 \in 1..n /\ Head(todo) = todo[1]
        /\ n + 1 - 1 = n /\ todo[1] \in TakenClaims
    BY <1>2
  <1>4. /\ todo[1].output = record.claims[n].output
        /\ \/ todo[1].phase = record.claims[n].phase
           \/ todo[1].phase = "removing" /\ At(record.claims[n].output) = "partial"
    BY <1>1, <1>3 DEF CleanSound
  <1>5. record.claims[n].output \in Claimed /\ record.claims[n].output \in Outputs
    BY <1>3, ClaimsAre DEF Inv, Kept
  <1>6. record # NoRecord /\ last \notin intents \ undone
    BY <1>1 DEF CleanSound
  <1>7. record.transaction = last /\ last \in Transactions
    BY <1>6, RecordOwned DEF Inv
  <1>8. At(record.claims[n].output) \in Contents
    BY <1>5, <1>7 DEF Inv, StateType, Disks, At
  <1> QED BY <1>3, <1>4, <1>5, <1>6, <1>7, <1>8

\* One output more is gone.
LEMMA CleanAdvances ==
  ASSUME Inv, pc = "clean", todo # <<>>, todo' = Tail(todo),
         ~Exists(disk'[last][Head(todo).output]),
         \A p \in Outputs : p # Head(todo).output => disk'[last][p] = disk[last][p],
         UNCHANGED <<record, admission, last, intents, undone>>
  PROVE  CleanSound' /\ todo' \in Seq(Todos)
PROOF
  <1> DEFINE n == Len(todo)
             claims == record.claims
             o == Head(todo).output
  <1>1. /\ CleanSound /\ todo \in Seq(Todos)
        /\ record.transaction = last /\ n \in 1..Len(claims) /\ claims[n].output = o
        /\ Len(claims) \in Nat
    BY CleanHead, ClaimsAre DEF Inv, PlaceSound, OperationType, Kept
  <1>2. /\ todo \in Seq(TakenClaims) /\ n \in Nat /\ n >= 1
        /\ todo' \in Seq(TakenClaims) /\ todo' \in Seq(Todos) /\ Len(todo') = n - 1
        /\ \A i \in 1..Len(todo') : todo'[i] = todo[i + 1]
    BY <1>1 DEF CleanSound
  <1>a. /\ \A i \in 1..n :
             /\ todo[i].output = claims[n + 1 - i].output
             /\ \/ todo[i].phase = claims[n + 1 - i].phase
                \/ i = 1
        /\ \A i \in (n + 1)..Len(claims) : ~Exists(disk[last][claims[i].output])
    BY <1>1 DEF CleanSound, At
  <1>b. \A i \in 1..Len(claims) : claims[i].output \in Outputs
    BY ClaimsAre DEF Inv, Kept
  <1> HIDE DEF n, claims, o
  <1>3. ASSUME NEW i \in 1..Len(todo')
        PROVE  /\ todo'[i].output = claims[Len(todo') + 1 - i].output
               /\ todo'[i].phase = claims[Len(todo') + 1 - i].phase
    <2>1. i + 1 \in 1..n /\ i + 1 # 1 /\ n + 1 - (i + 1) = Len(todo') + 1 - i
      BY <1>2, <1>3
    <2>2. /\ todo[i + 1].output = claims[n + 1 - (i + 1)].output
          /\ todo[i + 1].phase = claims[n + 1 - (i + 1)].phase
      BY <1>a, <2>1
    <2> QED BY <1>2, <1>3, <2>1, <2>2
  <1>4. ASSUME NEW i \in (Len(todo') + 1)..Len(claims)
        PROVE  ~Exists(disk'[last][claims[i].output])
    <2>1. i \in 1..Len(claims) /\ (i = n \/ i \in (n + 1)..Len(claims))
      BY <1>1, <1>2, <1>4
    <2>2. claims[i].output \in Outputs
      BY <1>b, <2>1
    <2>3. CASE i = n
      BY <1>1, <2>3 DEF o
    <2>4. CASE i \in (n + 1)..Len(claims)
      <3>1. ~Exists(disk[last][claims[i].output])
        BY <1>a, <2>4
      <3> QED BY <2>2, <3>1 DEF o
    <2> QED BY <2>1, <2>3, <2>4
  <1>5. Len(todo') <= Len(claims)
    BY <1>1, <1>2
  <1> QED BY <1>1, <1>2, <1>3, <1>4, <1>5 DEF CleanSound, At, claims

LEMMA PassOverStep == Inv /\ PassOver => Inv' /\ ForeignStays /\ Explained
PROOF
  <1> SUFFICES ASSUME Inv, PassOver PROVE Inv' /\ ForeignStays /\ Explained
    OBVIOUS
  <1>1. /\ pc = "clean" /\ todo # <<>> /\ ~Exists(At(Head(todo).output)) /\ todo' = Tail(todo)
        /\ UNCHANGED <<disk, record, pending, admission, pc, last, retained, intents, undone,
                       answer>>
    BY DEF PassOver, history
  <1>2. RecordStays /\ record.transaction = last
    BY <1>1, CleanHead DEF RecordStays
  <1>3. CleanSound' /\ todo' \in Seq(Todos)
    BY <1>1, <1>2, CleanAdvances DEF At
  <1>4. OperationType' /\ PlaceSound' /\ Explained
    BY <1>1, <1>3 DEF Inv, OperationType, PlaceSound, Explained
  <1> QED BY <1>1, <1>2, <1>4, QuietStep

LEMMA TakeBackStep == Inv /\ TakeBack => Inv' /\ ForeignStays /\ Explained
PROOF
  <1> SUFFICES ASSUME Inv, TakeBack PROVE Inv' /\ ForeignStays /\ Explained
    OBVIOUS
  <1> DEFINE claim == Head(todo)
             o == claim.output
             n == Len(todo)
             claims == record.claims
  <1>1. /\ pc = "clean" /\ todo # <<>> /\ Exists(At(o)) /\ Removable(claim)
        /\ UNCHANGED <<record, pending, admission, pc, last, retained, intents, undone, answer>>
    BY DEF TakeBack, history
  <1>2. /\ n \in 1..Len(claims) /\ claims[n].output = o
        /\ o \in Claimed /\ o \in Outputs /\ claim \in TakenClaims
        /\ \/ claim.phase = claims[n].phase
           \/ claim.phase = "removing" /\ At(o) = "partial"
        /\ record # NoRecord /\ record.transaction = last /\ last \in Transactions
        /\ last \notin intents \ undone /\ At(o) \in Contents
    BY <1>1, CleanHead
  <1>3. /\ StateType /\ Kept /\ OperationType /\ CleanSound /\ Different(claims)
        /\ answer # "refused" /\ (answer = "none" => pending = "none")
    BY <1>1, ClaimsAre DEF Inv, Kept, PlaceSound
  <1>4. disk[last][o] \in Others => Indistinct(last, o)
    <2>1. claim.phase \in {"reserved", "incomplete", "complete", "removing"}
      BY <1>2 DEF TakenClaims
    <2>2. CASE claim.phase = "removing"
      <3>1. claims[n] \in Claims
        BY <1>2, ClaimsAre DEF Inv, Kept
      <3> QED BY <1>2, <2>2, <3>1 DEF At, Claims, Others
    <2>3. CASE claim.phase # "removing"
      <3>1. n \in DOMAIN claims /\ claims[n].output = o /\ claims[n].phase = claim.phase
        BY <1>2, <2>3, ClaimsAre DEF Inv, Kept
      <3>2. disk[last][o] \in Others =>
              \/ claim.phase = "reserved" /\ disk[last][o] = "vacant"
              \/ claim.phase = "incomplete" /\ disk[last][o] = "edited"
        BY <1>1, <1>2, <2>1, <2>3 DEF Removable, At, Others
      <3> QED BY <1>2, <3>1, <3>2 DEF Indistinct
    <2> QED BY <2>2, <2>3
  <1>5. Claimed' = Claimed
    BY <1>1 DEF Claimed
  <1> HIDE DEF claim
  <1>6. CASE /\ o \in Trees /\ claim.phase \notin {"reserved", "removing"}
             /\ Put(o, "partial")
             /\ todo' = [todo EXCEPT ![1].phase = "removing"]
    <2>1. claims[n].phase # "reserved" /\ "partial" \in Contents \ {"moved"}
      BY <1>2, <1>6 DEF Contents
    <2>2. ASSUME NEW i \in 1..Len(claims), claims[i].output = o
          PROVE  claims[i].phase # "reserved"
      BY <1>2, <1>3, <2>1, <2>2 DEF Different
    <2>3. /\ StateType' /\ Kept' /\ disk'[last][o] = "partial"
          /\ \A t \in Transactions, p \in Outputs : t # last \/ p # o => disk'[t][p] = disk[t][p]
      BY <1>1, <1>2, <1>3, <1>6, <2>1, <2>2, OutputChanges
    <2>4. todo \in Seq(TakenClaims) /\ n \in Nat /\ n >= 1 /\ n <= Len(claims)
      BY <1>1, <1>3 DEF CleanSound
    <2> DEFINE taken == [todo[1] EXCEPT !.phase = "removing"]
    <2>5. /\ taken \in TakenClaims /\ taken.output = todo[1].output /\ taken.phase = "removing"
          /\ todo' = [todo EXCEPT ![1] = taken] /\ claim = todo[1]
      <3>1. todo[1] \in TakenClaims
        BY <2>4
      <3> QED BY <1>6, <2>4, <3>1 DEF TakenClaims, claim
    <2> HIDE DEF taken
    <2>6. /\ todo' \in Seq(TakenClaims) /\ Len(todo') = n
          /\ todo'[1] = taken /\ \A i \in 1..n : i # 1 => todo'[i] = todo[i]
      BY <2>4, <2>5
    <2>7. ASSUME NEW i \in 1..n
          PROVE  /\ todo'[i].output = claims[n + 1 - i].output
                 /\ \/ todo'[i].phase = claims[n + 1 - i].phase
                    \/ /\ i = 1 /\ todo'[i].phase = "removing"
                       /\ disk'[last][claims[n + 1 - i].output] = "partial"
      <3>1. CASE i = 1
        <4>1. n + 1 - i = n
          BY <2>4, <3>1
        <4> QED BY <1>2, <2>3, <2>5, <2>6, <3>1, <4>1
      <3>2. CASE i # 1
        BY <1>3, <2>4, <2>6, <2>7, <3>2 DEF CleanSound
      <3> QED BY <3>1, <3>2
    <2>8. ASSUME NEW i \in (n + 1)..Len(claims)
          PROVE  ~Exists(disk'[last][claims[i].output])
      <3>1. i \in 1..Len(claims) /\ i # n
        BY <1>2, <2>4, <2>8
      <3>2. claims[i].output # o /\ claims[i].output \in Outputs
        BY <1>2, <1>3, <3>1, ClaimsAre DEF Different, Kept
      <3>3. ~Exists(disk[last][claims[i].output])
        BY <1>2, <1>3, <2>8 DEF CleanSound, At
      <3> QED BY <1>2, <2>3, <3>2, <3>3
    <2>9. CleanSound'
      BY <1>1, <1>2, <1>3, <2>4, <2>6, <2>7, <2>8 DEF CleanSound, At
    <2>10. todo' \in Seq(Todos)
      <3>1. TakenClaims \subseteq Todos
        BY DEF TakenClaims, Todos
      <3> QED BY <2>6, <3>1
    <2>11. OperationType' /\ PlaceSound' /\ Explained
      BY <1>1, <1>3, <2>9, <2>10 DEF OperationType, PlaceSound, Explained
    <2>12. ForeignStays
      BY <1>4, <2>3 DEF ForeignStays
    <2> QED BY <2>3, <2>11, <2>12 DEF Inv
  <1>7. CASE Put(o, "absent") /\ todo' = Tail(todo)
    <2>1. "absent" \in Contents \ {"moved"}
      BY DEF Contents
    <2>2. /\ StateType' /\ Kept' /\ disk'[last][o] = "absent"
          /\ \A t \in Transactions, p \in Outputs : t # last \/ p # o => disk'[t][p] = disk[t][p]
      BY <1>1, <1>2, <1>3, <1>7, <2>1, OutputChanges
    <2>3. CleanSound' /\ todo' \in Seq(Todos)
      BY <1>1, <1>2, <1>7, <2>2, CleanAdvances DEF Exists, claim
    <2>4. OperationType' /\ PlaceSound' /\ Explained
      BY <1>1, <1>3, <2>3 DEF OperationType, PlaceSound, Explained
    <2>5. ForeignStays
      BY <1>4, <2>2 DEF ForeignStays
    <2> QED BY <2>2, <2>4, <2>5 DEF Inv
  <1> QED BY <1>6, <1>7 DEF TakeBack, claim

\* An output that may not be taken back is one that its claim does not describe.
LEMMA RefuseToTakeBackStep == Inv /\ RefuseToTakeBack => Inv' /\ ForeignStays /\ Explained
PROOF
  <1> SUFFICES ASSUME Inv, RefuseToTakeBack PROVE Inv' /\ ForeignStays /\ Explained
    OBVIOUS
  <1> DEFINE claim == Head(todo)
             o == claim.output
             n == Len(todo)
             claims == record.claims
  <1>1. /\ pc = "clean" /\ todo # <<>> /\ Exists(At(o)) /\ ~Removable(claim)
        /\ pc' = "idle" /\ todo' = <<>> /\ answer' = "refused"
        /\ UNCHANGED <<disk, record, pending, admission, last, retained, intents, undone>>
    BY DEF RefuseToTakeBack, history, End
  <1>2. /\ n \in 1..Len(claims) /\ claims[n].output = o
        /\ o \in Claimed /\ o \in Outputs /\ claim \in TakenClaims
        /\ \/ claim.phase = claims[n].phase
           \/ claim.phase = "removing" /\ At(o) = "partial"
        /\ record # NoRecord /\ record.transaction = last /\ last \in Transactions
        /\ At(o) \in Contents
    BY <1>1, CleanHead
  <1>3. /\ Kept /\ CleanSound /\ Different(claims) /\ claims[n] \in Claims
        /\ DOMAIN claims = 1..Len(claims) /\ Len(claims) \in Nat
    BY <1>1, <1>2, ClaimsAre DEF Inv, Kept, PlaceSound
  <1> HIDE DEF claim
  <1>4. claim.phase = claims[n].phase /\ claim.phase \in {"reserved", "incomplete", "complete"}
    BY <1>1, <1>2, <1>3 DEF Removable, Claims
  <1>5. Unrecognisable
    <2>1. CASE claim.phase = "reserved"
      <3>1. At(o) \notin {"empty", "partial", "full"}
        BY <1>1, <1>2, <1>3, <1>4, <2>1 DEF Removable, Kept, ClaimsSound
      <3>2. At(o) \in {"foreign", "misfit", "rewritten", "edited"}
        BY <1>1, <1>2, <2>1, <3>1 DEF Contents, Others, Exists, Removable
      <3> QED BY <1>2, <1>3, <1>4, <2>1, <3>2 DEF Unrecognisable
    <2>2. CASE claim.phase = "incomplete" /\ At(o) \notin {"empty", "partial", "full", "edited"}
      <3>1. At(o) \in {"foreign", "misfit", "rewritten", "vacant"}
        BY <1>1, <1>2, <2>2 DEF Contents, Others, Exists
      <3> QED BY <1>2, <1>3, <1>4, <2>2, <3>1 DEF Unrecognisable
    <2>3. CASE claim.phase = "incomplete" /\ At(o) \in {"empty", "partial", "full", "edited"}
      <3>1. /\ o = "control"
            /\ \E p \in Control \ {"control"} : Exists(At(p))
        BY <1>1, <2>3 DEF Removable, ControlEmpty, InControl, Control
      <3>2. n = 1
        <4>1. claims # <<>> /\ 1 \in 1..Len(claims)
          BY <1>2, <1>3
        <4>2. claims[1].output = "control"
          BY <1>3, <4>1 DEF Kept, RecordSound
        <4> QED BY <1>2, <1>3, <3>1, <4>1, <4>2 DEF Different
      <3>3. ASSUME NEW p \in Control \ {"control"} PROVE ~Exists(At(p))
        <4>1. p \in Outputs /\ p # o
          BY <3>1 DEF Outputs
        <4>2. CASE p \notin Claimed
          BY <1>2, <1>3, <4>1, <4>2 DEF Kept, ClaimsSound
        <4>3. CASE p \in Claimed
          <5>1. PICK i \in 1..Len(claims) : claims[i].output = p
            BY <1>3, <4>3, ClaimsAre DEF Kept
          <5>2. i \in (n + 1)..Len(claims)
            BY <1>2, <1>3, <3>2, <4>1, <5>1
          <5> QED BY <1>3, <5>1, <5>2 DEF CleanSound
        <4> QED BY <4>2, <4>3
      <3> QED BY <3>1, <3>3
    <2>4. CASE claim.phase = "complete"
      <3>1. At(o) # "full"
        BY <1>1, <2>4 DEF Removable
      <3> QED BY <1>1, <1>2, <1>3, <1>4, <2>4, <3>1 DEF Unrecognisable
    <2> QED BY <1>4, <2>1, <2>2, <2>3, <2>4
  <1>6. RecordStays /\ pending' = pending
    BY <1>1 DEF RecordStays
  <1>7. OperationType' /\ PlaceSound' /\ Explained
    BY <1>1, <1>5 DEF OperationType, PlaceSound, Explained
  <1> QED BY <1>6, <1>7, QuietStep

LEMMA RetireStep == Inv /\ Retire => Inv' /\ ForeignStays /\ Explained
PROOF
  <1> SUFFICES ASSUME Inv, Retire PROVE Inv' /\ ForeignStays /\ Explained
    OBVIOUS
  <1>1. /\ pc = "clean" /\ todo = <<>> /\ record' = NoRecord
        /\ UNCHANGED <<disk, pending, admission, last, retained, intents, undone>>
        /\ pc' \in {"admit", "idle"} /\ todo' = <<>> /\ answer' = answer
        /\ pc' = "admit" => answer = "none"
    BY DEF Retire, history, End
  <1>2. answer # "refused" /\ CleanSound
    BY <1>1 DEF Inv, PlaceSound
  <1>3. ASSUME NEW o \in Outputs PROVE ~Exists(At(o))
    <2>1. CASE o \notin Claimed
      BY <1>2, <1>3, <2>1 DEF Inv, Kept, ClaimsSound, CleanSound
    <2>2. CASE o \in Claimed
      <3>1. PICK i \in 1..Len(record.claims) : record.claims[i].output = o
        BY <2>2, ClaimsAre DEF Inv, Kept
      <3>2. i \in (Len(todo) + 1)..Len(record.claims)
        BY <1>1, <3>1
      <3> QED BY <1>2, <3>1, <3>2 DEF CleanSound
    <2> QED BY <2>1, <2>2
  <1>4. StateType' /\ Kept'
    BY <1>1, <1>3, RecordRetired DEF Inv
  <1>5. OperationType'
    BY <1>1 DEF Inv, OperationType
  <1>6. pc' = "admit" => pending = "none"
    BY <1>1 DEF Inv, PlaceSound
  <1>7. PlaceSound' /\ Explained
    BY <1>1, <1>2, <1>6 DEF PlaceSound, Explained
  <1> QED BY <1>1, <1>4, <1>5, <1>7 DEF Inv, ForeignStays

-----------------------------------------------------------------------------
(* Failures, crashes and intruders.                                        *)

\* A half written version stays beside the record.
LEMMA VersionLeft ==
  ASSUME StateType, Kept, RecordStays, pending' \in {"torn", "next"}, last # 0, last \notin intents
  PROVE  StateType' /\ Kept'
PROOF
  <1> USE DEF RecordStays
  <1>1. StateType'
    BY DEF StateType, Claimed
  <1>2. RecordSound'
    BY DEF Kept, RecordSound, Claimed
  <1>3. ClaimsSound'
    BY DEF Kept, ClaimsSound, Claimed, At
  <1>4. IntentSound'
    BY DEF Kept, IntentSound
  <1>5. Accounted' /\ PublishedIntact' /\ MovedSound'
    BY DEF Kept, Accounted, PublishedIntact, Claimed, Intact, MovedSound
  <1> QED BY <1>1, <1>2, <1>3, <1>4, <1>5 DEF Kept

\* An output that is being made may be replaced by anything but what a reserved
\* claim excludes.
LEMMA OutputSpoilt ==
  ASSUME Inv, pc = "prepare", todo # <<>>, Head(todo).do # "claim",
         NEW content \in {"absent", "misfit"}, Put(Head(todo).output, content),
         pending' \in {pending, "torn"},
         UNCHANGED <<record, admission, last, retained, intents, undone>>
  PROVE  StateType' /\ Kept' /\ ForeignStays
PROOF
  <1> DEFINE o == Head(todo).output
  <1>1. /\ o \in Claimed /\ At(o) = Made(Left(todo, o), o)
        /\ record # NoRecord /\ last \notin intents /\ StateType /\ Kept
    BY HeadSound DEF Inv, PlaceSound, PrepareSound
  <1>2. content \in Contents \ {"moved"} /\ content \notin {"partial", "full"}
    BY DEF Contents
  <1>3. pending' = pending \/ (pending' \in {"none", "torn", "next"} /\ last \notin intents)
    BY <1>1
  <1>4. /\ StateType' /\ Kept' /\ record.transaction = last
        /\ \A t \in Transactions, p \in Outputs : t # last \/ p # o => disk'[t][p] = disk[t][p]
    BY <1>1, <1>2, <1>3, OutputChanges
  <1>5. Made(Left(todo, o), o) \notin Others
    BY DEF Made, Others
  <1>6. disk[last][o] \notin Others
    BY <1>1, <1>4, <1>5 DEF At
  <1> QED BY <1>4, <1>6 DEF ForeignStays

LEMMA FailPreparingStep == Inv /\ FailPreparing => Inv' /\ ForeignStays /\ Explained
PROOF
  <1> SUFFICES ASSUME Inv, FailPreparing PROVE Inv' /\ ForeignStays /\ Explained
    OBVIOUS
  <1> DEFINE step == Head(todo)
             o == step.output
  <1>1. /\ pc = "prepare" /\ todo # <<>> /\ Withdrawn(step)
        /\ pc' = "clean" /\ todo' = TakenBack' /\ answer' = "failed"
        /\ UNCHANGED <<admission, last, retained, intents, undone>>
    BY DEF FailPreparing, history
  <1>2. \/ record' = record /\ pending' \in {pending, "torn"}
        \/ step.do \in Publishing /\ record' = RecordAfter(step) /\ pending' = pending
    BY DEF FailPreparing
  <1>3. /\ step \in Steps /\ o \in Outputs
        /\ step.do = "claim" => o \notin Claimed
        /\ step.do # "claim" => o \in Claimed /\ record.claims # <<>>
        /\ record.claims = <<>> => o = "control" /\ step.do = "claim"
    BY <1>1, HeadSound
  <1>4. /\ PrepareSound /\ StateType /\ Kept /\ record # NoRecord /\ last \notin intents
        /\ admission.status # "recovery_required"
    BY <1>1 DEF Inv, PlaceSound, PrepareSound
  <1>5. disk' = disk \/ (step.do \in {"bind", "write", "finish"} /\ Put(o, "absent"))
    BY <1>1 DEF Withdrawn
  <1>6. last # 0
    BY <1>4 DEF Kept, RecordSound
  <1>7. /\ StateType' /\ Kept' /\ record' # NoRecord /\ ForeignStays
    <2>1. CASE record' = record /\ pending' \in {pending, "torn"}
      <3>1. CASE disk' = disk
        <4>1. RecordStays
          BY <1>1, <2>1, <3>1 DEF RecordStays
        <4>2. StateType' /\ Kept'
          <5>1. CASE pending' = pending
            BY <1>4, <4>1, <5>1, KeptStays, StateTypeStays DEF StateType
          <5>2. CASE pending' = "torn"
            BY <1>4, <1>6, <4>1, <5>2, VersionLeft
          <5> QED BY <2>1, <5>1, <5>2
        <4> QED BY <1>4, <2>1, <3>1, <4>2 DEF ForeignStays
      <3>2. CASE step.do \in {"bind", "write", "finish"} /\ Put(o, "absent")
        <4>1. StateType' /\ Kept' /\ ForeignStays
          BY <1>1, <2>1, <3>2, OutputSpoilt
        <4> QED BY <1>4, <2>1, <4>1
      <3> QED BY <1>5, <3>1, <3>2
    <2>2. CASE step.do \in Publishing /\ record' = RecordAfter(step) /\ pending' = pending
      <3>1. \/ disk' = disk
            \/ step.do # "claim" /\ o \in Claimed /\ Put(o, "absent")
        BY <1>3, <1>5
      <3>2. /\ StateType' /\ Kept' /\ record' # NoRecord
        BY <1>1, <1>3, <1>4, <2>2, <3>1, VersionPublished
      <3>3. ForeignStays
        <4>1. CASE disk' = disk
          BY <4>1 DEF ForeignStays
        <4>2. CASE step.do \in {"bind", "write", "finish"} /\ Put(o, "absent")
          <5>1. At(o) = Made(Left(todo, o), o)
            BY <1>1, <4>2, HeadSound
          <5>2. At(o) \notin Others
            BY <5>1 DEF Made, Others
          <5>3. record.transaction \in Transactions /\ "absent" \in Contents
            BY <1>4, RecordOwned DEF Contents
          <5> QED BY <1>3, <1>4, <4>2, <5>2, <5>3, PutSound DEF ForeignStays, StateType, At
        <4> QED BY <1>5, <4>1, <4>2
      <3> QED BY <3>2, <3>3
    <2> QED BY <1>2, <2>1, <2>2
  <1>8. todo' = Reverse(record'.claims)
    BY <1>1 DEF TakenBack
  <1>9. CleanSound' /\ todo' \in Seq(Todos)
    BY <1>1, <1>4, <1>7, <1>8, CleanStarts DEF Kept
  <1>10. OperationType' /\ PlaceSound' /\ Explained
    BY <1>1, <1>9 DEF OperationType, PlaceSound, Explained
  <1> QED BY <1>7, <1>10 DEF Inv

LEMMA FailPublishingStep == Inv /\ FailPublishing => Inv' /\ ForeignStays /\ Explained
PROOF
  <1> SUFFICES ASSUME Inv, FailPublishing PROVE Inv' /\ ForeignStays /\ Explained
    OBVIOUS
  <1>1. /\ (pc = "prepare" /\ todo = <<>>) \/ pc = "preserve"
        /\ answer' = "failed" /\ RecordStays /\ pending' = pending
    BY DEF FailPublishing, history, RecordStays
  <1>2. CASE admission.status = "recovery_required"
    <2>1. pc = "preserve" /\ pc' = "preserve" /\ todo' = todo
      BY <1>1, <1>2 DEF FailPublishing, Inv, PlaceSound, PrepareSound
    <2>2. OperationType' /\ PlaceSound' /\ Explained
      BY <1>1, <2>1 DEF Inv, OperationType, PlaceSound, Explained, RecordStays
    <2> QED BY <1>1, <2>2, QuietStep
  <1>3. CASE admission.status # "recovery_required"
    <2>1. /\ pc = "prepare" /\ pc' = "clean" /\ todo' = Reverse(record'.claims)
      BY <1>1, <1>3 DEF FailPublishing, Inv, PlaceSound, TakenBack, RecordStays
    <2>2. record # NoRecord /\ last \notin intents
      BY <2>1 DEF Inv, PlaceSound, PrepareSound
    <2>3. RecordSound'
      BY <1>1, KeptStays DEF Inv, Kept
    <2>4. CleanSound' /\ todo' \in Seq(Todos)
      BY <1>1, <1>3, <2>1, <2>2, <2>3, CleanStarts DEF RecordStays
    <2>5. OperationType' /\ PlaceSound' /\ Explained
      BY <1>1, <2>1, <2>4 DEF OperationType, PlaceSound, Explained
    <2> QED BY <1>1, <2>5, QuietStep
  <1> QED BY <1>2, <1>3

LEMMA CrashStep == Inv /\ Crash => Inv' /\ ForeignStays /\ Explained
PROOF
  <1> SUFFICES ASSUME Inv, Crash PROVE Inv' /\ ForeignStays /\ Explained
    OBVIOUS
  <1>1. /\ pc # "idle" /\ pc' = "idle" /\ todo' = <<>> /\ answer' = "crashed"
        /\ UNCHANGED <<record, admission, last, retained, intents, undone>>
    BY DEF Crash, End, history
  <1>2. OperationType' /\ PlaceSound' /\ Explained
    BY <1>1 DEF OperationType, PlaceSound, Explained
  <1>3. CASE disk' = disk /\ pending' = pending
    <2>1. RecordStays
      BY <1>1, <1>3 DEF RecordStays
    <2> QED BY <1>2, <1>3, <2>1, QuietStep
  <1>4. CASE PublishesNext /\ pending' \in {"torn", "next"} /\ disk' = disk
    <2>1. RecordStays
      BY <1>1, <1>4 DEF RecordStays
    <2>2. last # 0 /\ last \notin intents
      BY <1>4 DEF PublishesNext, Inv, PlaceSound, OpenSound, PrepareSound, Kept, RecordSound
    <2>3. StateType' /\ Kept'
      BY <1>4, <2>1, <2>2, VersionLeft DEF Inv
    <2> QED BY <1>2, <1>4, <2>3 DEF Inv, ForeignStays
  <1>5. CASE /\ pc = "prepare" /\ todo # <<>>
             /\ Head(todo).output \in Trees /\ Head(todo).do \in {"write", "finish"}
             /\ Put(Head(todo).output, "misfit")
             /\ pending' = pending
    <2>1. StateType' /\ Kept' /\ ForeignStays
      BY <1>1, <1>5, OutputSpoilt
    <2> QED BY <1>2, <2>1 DEF Inv
  <1> QED BY <1>3, <1>4, <1>5 DEF Crash

LEMMA IntrudeStep ==
  ASSUME NEW o \in Outputs, NEW content \in Others
  PROVE  Inv /\ Intrude(o, content) => Inv' /\ ForeignStays /\ Explained
PROOF
  <1> SUFFICES ASSUME Inv, Intrude(o, content) PROVE Inv' /\ ForeignStays /\ Explained
    OBVIOUS
  <1>1. /\ pc = "idle" /\ record # NoRecord /\ record.transaction \notin intents
        /\ o \in Claimed /\ Put(o, content)
        /\ UNCHANGED <<record, pending, admission, pc, todo, answer, last, retained,
                       intents, undone>>
    BY DEF Intrude, operation, history, Claimed
  <1>2. StateType /\ Kept /\ last \notin intents \ undone
    BY <1>1 DEF Inv, Kept, RecordSound
  <1>3. content \in Contents \ {"moved"} /\ content \notin {"partial", "full"}
    BY DEF Contents, Others
  <1>4. /\ StateType' /\ Kept' /\ disk'[last][o] = content
        /\ \A t \in Transactions, p \in Outputs : t # last \/ p # o => disk'[t][p] = disk[t][p]
    BY <1>1, <1>2, <1>3, OutputChanges
  <1>5. ForeignStays
    BY <1>4 DEF ForeignStays
  <1>6. OperationType' /\ PlaceSound' /\ Explained
    BY <1>1 DEF Inv, OperationType, PlaceSound, Explained
  <1> QED BY <1>4, <1>5, <1>6 DEF Inv

-----------------------------------------------------------------------------
(* The theorems.                                                           *)

LEMMA InitSound == Init => Inv
PROOF
  <1> SUFFICES ASSUME Init PROVE Inv
    OBVIOUS
  <1>1. /\ disk = [t \in Transactions |-> [o \in Outputs |-> "absent"]]
        /\ record = NoRecord /\ pending = "none" /\ last = 0
        /\ admission.status \in {"absent", "terminal"} /\ admission.transaction = 0
        /\ admission.certified = 0
        /\ admission \in [status : {"absent", "recovery_required", "terminal"},
                          transaction : 0..last, certified : 0..last]
        /\ pc = "idle" /\ todo = <<>> /\ answer = "none"
        /\ intents = {} /\ undone = {}
    BY DEF Init
  <1>2. /\ Claimed = {} /\ record.claims = <<>> /\ Len(record.claims) = 0
        /\ IsFiniteSet({}) /\ Cardinality({}) = 0
    BY <1>1, NoRecordSound, FS_EmptySet
  <1>3. \A t \in Transactions, o \in Outputs : disk[t][o] = "absent" /\ ~Exists(disk[t][o])
    BY <1>1 DEF Exists
  <1>4. OperationType
    BY <1>1 DEF OperationType
  <1>5. StateType
    <2>1. disk \in Disks
      BY <1>1 DEF Disks, Contents
    <2>2. 0 \in 0..MaxTransactions
      BY BoundsAssumption
    <2> QED BY <1>1, <1>2, <2>1, <2>2 DEF StateType
  <1>6. RecordSound
    <2>1. NoRecord \in [transaction : 0..0, bootstrap : BOOLEAN, claims : Seq(Claims)]
      BY DEF NoRecord
    <2> QED BY <1>1, <1>2, <2>1 DEF RecordSound
  <1>7. ClaimsSound /\ IntentSound
    BY <1>1 DEF ClaimsSound, IntentSound
  <1>8. MovedSound /\ Accounted /\ PublishedIntact
    BY <1>1, <1>3 DEF MovedSound, Accounted, PublishedIntact
  <1>9. PlaceSound
    BY <1>1 DEF PlaceSound
  <1> QED BY <1>4, <1>5, <1>6, <1>7, <1>8, <1>9 DEF Inv, Kept

LEMMA PreparationStep == Inv /\ [Next]_vars => Inv' /\ ForeignStays /\ Explained
PROOF
  <1> SUFFICES ASSUME Inv, [Next]_vars PROVE Inv' /\ ForeignStays /\ Explained
    OBVIOUS
  <1>1. CASE UNCHANGED vars
    <2>1. RecordStays /\ UNCHANGED <<pending, pc, todo, answer>>
      BY <1>1 DEF vars, operation, history, RecordStays
    <2>2. OperationType'
      BY <2>1 DEF Inv, OperationType
    <2>3. Claimed' = Claimed
      BY <2>1 DEF RecordStays, Claimed
    <2>4. PlaceSound'
      BY <2>1, <2>3 DEF Inv, PlaceSound, OpenSound, PrepareSound, CleanSound, RecordStays,
                        ControlNext, Untouched, OutputSound, At
    <2>5. Explained
      BY <2>1 DEF Explained
    <2> QED BY <2>1, <2>2, <2>4, <2>5, QuietStep
  <1>2. CASE Operation
    BY <1>2, ReconcilePendingStep, ReconcileRecordStep, RefuseStep, AdmitStep, OpenRecordStep,
       PrepareStep, PublishIntentStep, PreserveStep, ExecuteStep, PassOverStep, TakeBackStep,
       RefuseToTakeBackStep, RetireStep DEF Operation
  <1>3. CASE Start \/ RecoverInterrupted \/ FailPreparing \/ FailPublishing \/ Crash
    BY <1>3, StartStep, RecoverInterruptedStep, FailPreparingStep, FailPublishingStep, CrashStep
  <1>4. CASE \E goal \in {"target", "prior"} : Recover(goal)
    BY <1>4, RecoverStep
  <1>5. CASE \E o \in Outputs, content \in Others : Intrude(o, content)
    BY <1>5, IntrudeStep
  <1> QED BY <1>1, <1>2, <1>3, <1>4, <1>5 DEF Next

\* In every reachable state record, disk, intents and admission account for one
\* another, and the operation under way is where its record says: the inductive
\* invariant of the preparation.
THEOREM PreparationInvariant == Spec => []PreparationInv
PROOF
  <1>1. Inv /\ [Next]_vars => Inv'
    BY PreparationStep
  <1>2. Inv => PreparationInv
    BY InvIs
  <1> QED BY <1>1, <1>2, InitSound, PTL DEF Spec

\* Whatever fails, crashes or is put in its way, an operation leaves nothing
\* behind that neither the record nor a published intent accounts for, and an
\* intent that was published has all it needs.
THEOREM NeverAstray == Spec => []NothingAstray
PROOF
  <1>1. PreparationInv => NothingAstray
    BY DEF PreparationInv, Kept, NothingAstray
  <1> QED BY <1>1, PreparationInvariant, PTL

\* An operation refuses an interrupted preparation only for what Unrecognisable names:
\* what somebody else left and the record can tell, a torn version of the record, an
\* entry without its mode, or an output that was complete and is no longer.  The last
\* three may be a crash's own work; an operation interrupted anywhere else is never
\* refused.
THEOREM RefusalsAlwaysExplained == Spec => RefusalExplained
PROOF
  <1>1. Inv /\ [Next]_vars => Inv'
    BY PreparationStep
  <1>2. Inv /\ [Next]_vars => [Explained]_vars
    BY PreparationStep
  <1> QED BY <1>1, <1>2, InitSound, PTL DEF Spec, RefusalExplained, Explained

\* No cleanup, reconciliation or recovery removes or overwrites what somebody else
\* put in the place of an output or into it, except an empty object where the output
\* was not bound yet and his bytes in one that was not complete (Indistinct).
THEOREM ForeignAlwaysKept == Spec => ForeignKept
PROOF
  <1>1. Inv /\ [Next]_vars => Inv'
    BY PreparationStep
  <1>2. Inv /\ [Next]_vars => [ForeignStays]_vars
    BY PreparationStep
  <1> QED BY <1>1, <1>2, InitSound, PTL DEF Spec, ForeignKept, ForeignStays
===============================================================================
