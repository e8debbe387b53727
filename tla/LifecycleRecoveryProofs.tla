------------------------ MODULE LifecycleRecoveryProofs ------------------------
(***************************************************************************)
(* Proofs about LifecycleRecovery for any units and contents, every plan   *)
(* and any number of crashes, aborts and edits of the configuration.       *)
(*                                                                         *)
(* A run believes the paths of a unit, not the journal.  So the inductive  *)
(* invariant is first of all about these paths: which combinations of      *)
(* destination, backup, displaced artifact, stage and partial copy the     *)
(* runs before can have left (PathsSound), a set that selecting the prior  *)
(* goal does not leave and in which every check of EnterUnit succeeds.     *)
(* What a run has found out or done since it entered a unit, and at which  *)
(* place the configuration is as its goal wants it, is said per place.     *)
(***************************************************************************)
EXTENDS LifecycleRecovery, Integers, TLAPS

Stuff == UNION {Items(u) \cup {PartialOf(i) : i \in Items(u)} : u \in UnitIds}
Artifact == [exists : BOOLEAN, items : SUBSET Stuff]
Paths == [dest : Artifact, backup : Artifact, displaced : Artifact, stage : Artifact,
          partial : BOOLEAN]

\* A stage of unit u is a copy of a state, or for a directory an unfinished one.
Copied(u, stage, state) ==
  /\ state.exists
  /\ stage = state \/ (u \in Directories /\ PartialTreeKnown(stage, state))

\* What the runs before can have left in the paths of unit u, which is planned as w.
PathsSound(u, o, w, goal) ==
  /\ o.backup \in {Absent, w.initial}
  /\ o.dest \in {w.initial, w.target, Absent}
     \/ (goal = "prior" /\ o.dest = w.prior)
  /\ w.initial.exists /\ ~o.backup.exists => o.dest = w.initial
  /\ o.backup.exists => goal = "prior" \/ w.target # w.initial
  /\ o.backup.exists /\ o.dest = w.initial => goal = "prior" /\ o.dest = w.prior
  /\ \/ o.displaced = Absent
     \/ /\ o.displaced \in {w.prior, w.target}
        /\ goal = "prior" /\ o.dest \in {Absent, w.prior}
  /\ \/ o.stage = Absent
     \/ /\ o.stage.exists /\ ~o.dest.exists
        /\ Copied(u, o.stage, w.target) \/ (goal = "prior" /\ Copied(u, o.stage, w.prior))
  /\ o.partial => u \notin Directories

UnitPlaces == {"unit", "discard", "dismantle", "place", "stage", "fill", "activate", "check",
               "journal unit"}

\* What a run knows of the unit it works on, by its place.
Position(u, pc, o, w, goal) ==
  /\ pc \in {"discard", "dismantle", "place", "stage"} => ~o.partial
  /\ pc = "dismantle" => goal = "prior" /\ o.stage.exists /\ Copied(u, o.stage, w.target)
  /\ pc \in {"place", "stage"} /\ o.stage.exists => Copied(u, o.stage, w[goal])
  /\ pc \in {"stage", "fill", "activate"} => o.dest = Absent
  /\ pc \in {"fill", "activate"} => w[goal].exists
  /\ pc = "fill" => IF u \in Directories
                    THEN o.stage.exists /\ PartialTreeKnown(o.stage, w[goal])
                    ELSE ~o.stage.exists
  /\ pc = "activate" => o.stage = w[goal]
  /\ pc \in {"check", "journal unit"} => o.dest = w[goal]

-----------------------------------------------------------------------------
(* The inductive invariant.                                                *)

Shape ==
  /\ plan \in Plans
  /\ objects \in [UnitIds -> Paths]
  /\ config \in {"prior", "target", "edited"}
  /\ journal \in [goal : Goals, started : BOOLEAN,
                  units : [UnitIds -> Phases], registration : Phases]
  /\ admission \in Goals \cup {"recovery_required"}
  /\ published \in [Goals -> 0..3]
  /\ run \in [pc : PcOfRun, goal : Goals, index : 1..Len(Units)]
  /\ answer \in Answers \ {"blocked", "blocked by unit"}
  /\ crashes \in 0..MaxCrashes /\ edits \in 0..MaxEdits

UnitsSound == \A u \in UnitIds : PathsSound(u, objects[u], plan.units[u], journal.goal)

Reached(u, goal) == objects[u].dest = Desired(u, goal)
AllReached(goal) == \A u \in UnitIds : Reached(u, goal)

Beyond == PcOfRun \ {"idle", "select", "before"}

RunSound ==
  /\ run.pc # "idle" => admission = "recovery_required"
  /\ run.pc = "select" => run.goal = "prior"
  /\ run.pc \in {"select", "before", "journal before"} => run.index = 1
  /\ run.pc \notin {"idle", "select"} => run.goal = journal.goal
  /\ run.pc \in UnitPlaces =>
       /\ Position(Unit, run.pc, objects[Unit], plan.units[Unit], run.goal)
       /\ \A k \in 1..(run.index - 1) : Reached(UnitAt(run.goal, k), run.goal)
  /\ run.pc \in {"after", "journal after", "verify", "publish"} => AllReached(run.goal)

\* The configuration is changed before the units, or after them, and by nobody else
\* while a run is under way.
ConfigSound ==
  /\ config = "edited" => edits # 0
  /\ plan.registration = "none" => config = "prior"
  /\ run.pc \in Beyond /\ plan.registration # "none" /\ ~EntryUnder(run.goal) =>
       config = Bytes(run.goal)
  /\ run.pc \in {"journal before", "journal after", "verify", "publish"}
     /\ plan.registration # "none" =>
       config = Bytes(run.goal)

EntrySound ==
  edits = 0 =>
    /\ plan.registration = "add" /\ config = "target" => AllReached("target")
    /\ plan.registration = "remove" /\ ~CachesToClean /\ config = "prior" => AllReached("prior")

AdmissionSound ==
  admission # "recovery_required" =>
    /\ admission = journal.goal /\ AllReached(admission)
    /\ published[admission] = RecordsOf(admission)
    /\ config = Bytes(admission)

IInv == /\ Shape /\ UnitsSound /\ RunSound /\ ConfigSound /\ EntrySound
        /\ JournalHonest /\ AdmissionSound

-----------------------------------------------------------------------------
(* Plans and artifacts.                                                    *)

LEMMA AbsentIs ==
  /\ Absent \in Artifact /\ ~Absent.exists /\ Absent.items = {}
PROOF
  BY DEF Absent, Artifact

LEMMA AbsentUnique ==
  ASSUME NEW state \in Artifact, NEW u \in UnitIds, NEW w,
         state \in {Absent, Present(Old[u]), Present(New[u]), Present(Old[u] \cup Cache)},
         ~state.exists
  PROVE  state = Absent
PROOF
  BY DEF Present

\* The states a unit can be planned to be in.
Contents(u) == {Old[u], New[u], Old[u] \cup Cache}

LEMMA ContentsAreStuff ==
  ASSUME NEW u \in UnitIds, NEW items, items \in Contents(u)
  PROVE  /\ items \subseteq Items(u) /\ items \subseteq Stuff
         /\ Present(items) \in Artifact /\ Present(items).exists
         /\ Present(items).items = items
         /\ Clean(Present(items)) = Present(items \ Cache)
         /\ Present(items \ Cache) \in Artifact
PROOF
  <1>1. items \subseteq Items(u)
    BY DEF Contents, Items
  <1>2. Items(u) \subseteq Stuff
    BY DEF Stuff
  <1>3. Present(items) \in Artifact /\ Present(items \ Cache) \in Artifact
    BY <1>1, <1>2 DEF Present, Artifact
  <1>4. Clean(Present(items)) = Present(items \ Cache)
    <2> DEFINE state == Present(items)
               cleaned == [state EXCEPT !.items = items \ Cache]
    <2>1. state \in Artifact /\ state.exists = TRUE /\ state.items = items
      BY <1>3 DEF Present
    <2>2. cleaned \in Artifact /\ cleaned.exists = TRUE /\ cleaned.items = items \ Cache
      <3> HIDE DEF state
      <3> QED BY <2>1 DEF Artifact
    <2>3. cleaned = Present(items \ Cache)
      <3> HIDE DEF cleaned
      <3> QED BY <2>2 DEF Artifact, Present
    <2> QED BY <2>1, <2>3 DEF Clean
  <1>5. Present(items).exists /\ Present(items).items = items
    BY DEF Present
  <1> QED BY <1>1, <1>2, <1>3, <1>4, <1>5

\* A state as it is planned: nothing, or items of the unit with one content for each path.
Plannable(u, state) ==
  /\ state \in Artifact
  /\ state.exists \/ state = Absent
  /\ state.items \subseteq Items(u)

Single(state) == \A i, j \in state.items : i[1] = j[1] => i = j

LEMMA PlanOfUnit ==
  ASSUME plan \in Plans, NEW u \in UnitIds
  PROVE  LET w == plan.units[u] IN
         /\ w \in [initial : Artifact, prior : Artifact, target : Artifact]
         /\ Plannable(u, w.initial) /\ Plannable(u, w.prior) /\ Plannable(u, w.target)
         /\ Single(w.prior) /\ Single(w.target)
         /\ w.prior = Clean(w.initial)
         /\ w.initial.exists <=> w.prior.exists
PROOF
  <1> DEFINE w == plan.units[u]
             whole == {Absent, Present(Old[u]), Present(New[u])}
  <1>1. PICK kind \in Kinds : plan \in PlansOf(kind)
    BY DEF Plans, Kinds
  <1>2. w \in UnitPlans(kind, u)
    BY <1>1 DEF PlansOf
  <1>3. \E i \in whole \cup {Present(Old[u] \cup Cache)}, t \in whole : w = UnitPlan(i, t)
    <2>1. CASE kind = "install"
      BY <1>2, <2>1 DEF UnitPlans
    <2>2. CASE kind = "upgrade"
      BY <1>2, <2>2 DEF UnitPlans, Installed
    <2>3. CASE kind = "uninstall"
      BY <1>2, <2>3 DEF UnitPlans, Installed
    <2>4. CASE kind = "registration"
      BY <1>2, <2>4 DEF UnitPlans, Installed
    <2> QED BY <2>1, <2>2, <2>3, <2>4 DEF Kinds
  <1>4. PICK i \in whole \cup {Present(Old[u] \cup Cache)}, t \in whole : w = UnitPlan(i, t)
    BY <1>3
  <1>5. w.initial = i /\ w.prior = Clean(i) /\ w.target = t
        /\ w = [initial |-> i, prior |-> Clean(i), target |-> t]
    BY <1>4 DEF UnitPlan
  <1>6. Plannable(u, t) /\ Single(t)
    <2>1. CASE t = Absent
      BY <2>1, AbsentIs DEF Plannable, Single
    <2>2. ASSUME NEW items, items \in {Old[u], New[u]}, t = Present(items)
          PROVE  Plannable(u, t) /\ Single(t)
      <3>1. items \in Contents(u)
        BY <2>2 DEF Contents
      <3>2. Plannable(u, t) /\ t.items = items
        BY <2>2, <3>1, ContentsAreStuff DEF Plannable
      <3> QED BY <2>2, <3>2, ContentsAssumption DEF Single
    <2> QED BY <2>1, <2>2
  <1>7. Plannable(u, i) /\ Plannable(u, Clean(i)) /\ Single(Clean(i)) /\ (i.exists <=> Clean(i).exists)
    <2>1. CASE i = Absent
      <3> DEFINE nothing == Absent
                 cleaned == [nothing EXCEPT !.items = nothing.items \ Cache]
      <3>1. nothing \in Artifact /\ ~nothing.exists /\ nothing.items = {}
        BY AbsentIs
      <3> HIDE DEF nothing
      <3>2. /\ cleaned \in Artifact /\ cleaned.exists = nothing.exists
            /\ cleaned.items = nothing.items
        BY <3>1 DEF Artifact
      <3> HIDE DEF cleaned
      <3>3. cleaned = nothing
        BY <3>1, <3>2 DEF Artifact
      <3>4. Clean(Absent) = Absent
        BY <3>3 DEF Clean, cleaned, nothing
      <3> QED BY <2>1, <3>4, AbsentIs DEF Plannable, Single
    <2>2. ASSUME NEW items, items \in Contents(u), i = Present(items)
          PROVE  Plannable(u, i) /\ Plannable(u, Clean(i)) /\ Single(Clean(i))
                 /\ i.exists /\ Clean(i).exists
      <3>1. /\ Clean(Present(items)) = Present(items \ Cache)
            /\ Present(items \ Cache) \in Artifact
            /\ items \subseteq Items(u) /\ Present(items) \in Artifact
            /\ Present(items).exists /\ Present(items).items = items
        <4>1. items \in Contents(u)
          BY <2>2
        <4> QED BY ONLY <4>1, ContentsAreStuff, u \in UnitIds
      <3>2. Clean(i) = Present(items \ Cache) /\ Clean(i) \in Artifact
            /\ Clean(i).exists /\ Clean(i).items = items \ Cache
        <4>1. Clean(i) = Present(items \ Cache)
          BY <2>2, <3>1, Zenon
        <4> QED BY <3>1, <4>1 DEF Present
      <3>3. items \subseteq Items(u) /\ i \in Artifact /\ i.exists /\ i.items = items
        BY <2>2, <3>1, Zenon
      <3>4. items \ Cache \subseteq Old[u] \/ items \ Cache \subseteq New[u]
        BY <2>2 DEF Contents
      <3>5. Single(Clean(i))
        BY <3>2, <3>4, ContentsAssumption DEF Single
      <3>6. (items \ Cache) \subseteq Items(u)
        BY <3>3
      <3> QED BY <3>2, <3>3, <3>5, <3>6 DEF Plannable
    <2> QED BY <2>1, <2>2 DEF Contents
  <1>8. w \in [initial : Artifact, prior : Artifact, target : Artifact]
    BY <1>5, <1>6, <1>7 DEF Plannable
  <1> QED BY <1>5, <1>6, <1>7, <1>8

-----------------------------------------------------------------------------
(* Where a run is.                                                         *)

LEMMA UnitsCovered ==
  ASSUME NEW goal
  PROVE  /\ Len(Units) \in Nat /\ 1 <= Len(Units)
         /\ \A k \in 1..Len(Units) : UnitAt(goal, k) \in UnitIds
         /\ \A u \in UnitIds : \E k \in 1..Len(Units) : u = UnitAt(goal, k)
PROOF
  <1>1. Len(Units) \in Nat /\ 1 <= Len(Units)
    BY UnitsAssumption
  <1>2. \A k \in 1..Len(Units) : Len(Units) + 1 - k \in 1..Len(Units)
    BY <1>1
  <1>3. \A k \in 1..Len(Units) : UnitAt(goal, k) \in UnitIds
    BY <1>2 DEF UnitAt, UnitIds
  <1>4. ASSUME NEW u \in UnitIds PROVE \E k \in 1..Len(Units) : u = UnitAt(goal, k)
    <2>1. PICK k \in 1..Len(Units) : u = Units[k]
      BY DEF UnitIds
    <2>2. CASE goal = "target"
      BY <2>1, <2>2 DEF UnitAt
    <2>3. CASE goal # "target"
      <3>1. Len(Units) + 1 - (Len(Units) + 1 - k) = k
        BY <1>1
      <3>2. u = UnitAt(goal, Len(Units) + 1 - k)
        BY <2>1, <2>3, <3>1 DEF UnitAt
      <3> QED BY <1>2, <3>2
    <2> QED BY <2>2, <2>3
  <1> QED BY <1>1, <1>3, <1>4

LEMMA UnitIsPlanned ==
  ASSUME Shape
  PROVE  /\ Unit \in UnitIds /\ Now \in Paths /\ run.goal \in Goals
         /\ Goal = plan.units[Unit][run.goal]
         /\ Planned("initial") = plan.units[Unit].initial
         /\ Planned("prior") = plan.units[Unit].prior
         /\ Planned("target") = plan.units[Unit].target
         /\ plan.units[Unit] \in [initial : Artifact, prior : Artifact, target : Artifact]
         /\ Plannable(Unit, plan.units[Unit].initial)
         /\ Plannable(Unit, plan.units[Unit].prior)
         /\ Plannable(Unit, plan.units[Unit].target)
         /\ Single(plan.units[Unit].prior) /\ Single(plan.units[Unit].target)
PROOF
  <1>1. run.goal \in Goals /\ run.index \in 1..Len(Units)
    BY DEF Shape
  <1>2. Unit \in UnitIds
    BY <1>1, UnitsCovered DEF Unit
  <1>3. Now \in Paths
    BY <1>2 DEF Shape, Now
  <1>4. plan \in Plans
    BY DEF Shape
  <1> QED BY <1>1, <1>2, <1>3, <1>4, PlanOfUnit DEF Goal, Desired, Planned

\* A step on the unit the run has come to keeps the invariant if it leaves paths the next
\* run knows, and finds out or does what the next place takes for granted.
LEMMA UnitStepKeeps ==
  ASSUME IInv, run.pc \in UnitPlaces, NEW o \in Paths, NEW pc \in UnitPlaces,
         UnitStep(o, pc),
         PathsSound(Unit, o, plan.units[Unit], run.goal),
         Position(Unit, pc, o, plan.units[Unit], run.goal),
         Now.dest = Goal => o.dest = Goal
  PROVE  IInv'
PROOF
  <1>1. /\ objects' = [objects EXCEPT ![Unit] = o]
        /\ run' = [run EXCEPT !.pc = pc]
        /\ UNCHANGED <<plan, config, journal, admission, published, answer, crashes, edits>>
    BY DEF UnitStep, SetUnit, Continue, bounds
  <1>2. Shape
    BY DEF IInv
  <1>3. Unit \in UnitIds /\ pc \in PcOfRun /\ pc \notin {"idle", "select", "before"}
    BY <1>2, UnitIsPlanned DEF UnitPlaces, PcOfRun
  <1>4. /\ run' \in [pc : PcOfRun, goal : Goals, index : 1..Len(Units)]
        /\ run'.pc = pc /\ run'.goal = run.goal /\ run'.index = run.index
    BY <1>1, <1>2, <1>3 DEF Shape
  <1>5. Unit' = Unit
    BY <1>4 DEF Unit
  <1>6. objects'[Unit] = o /\ \A u \in UnitIds : u # Unit => objects'[u] = objects[u]
    BY <1>1, <1>2, <1>3 DEF Shape
  <1>7. Shape'
    BY <1>1, <1>2, <1>3, <1>4 DEF Shape
  <1>8. run.pc \notin {"idle", "select", "before"} /\ run.pc \in Beyond
    BY <1>2 DEF UnitPlaces, Beyond, Shape
  <1>9. run.goal = journal.goal /\ admission = "recovery_required"
    BY <1>8 DEF IInv, RunSound
  <1>10. UnitsSound'
    BY <1>1, <1>6, <1>9 DEF IInv, UnitsSound
  <1>11. ASSUME NEW u \in UnitIds, NEW g \in Goals, g = run.goal, Reached(u, g)
         PROVE  Reached(u, g)'
    BY <1>1, <1>6, <1>11 DEF Reached, Desired, Now, Goal
  <1>12. RunSound'
    <2>1. \A k \in 1..(run.index - 1) : Reached(UnitAt(run.goal, k), run.goal)
      BY DEF IInv, RunSound
    <2>2. \A k \in 1..(run.index - 1) : UnitAt(run.goal, k) \in UnitIds
      <3>1. run.index \in 1..Len(Units) /\ Len(Units) \in Nat
        BY <1>2, UnitsCovered DEF Shape
      <3>2. \A k \in 1..(run.index - 1) : k \in 1..Len(Units)
        BY <3>1
      <3> QED BY <3>2, UnitsCovered
    <2>3. PICK g \in Goals : g = run.goal
      BY <1>2, UnitIsPlanned
    <2>4. \A k \in 1..(run'.index - 1) : Reached(UnitAt(g, k), g)'
      BY <2>1, <2>2, <2>3, <1>4, <1>11
    <2>5. Position(Unit, pc, objects'[Unit], plan'.units[Unit], run.goal)
      BY <1>1, <1>6
    <2> QED BY <2>3, <2>4, <2>5, <1>1, <1>3, <1>4, <1>5, <1>9 DEF RunSound, UnitPlaces, Reached, Desired
  <1>13. ConfigSound'
    BY <1>1, <1>4, <1>8 DEF IInv, ConfigSound, UnitPlaces, Bytes, EntryUnder
  <1>14. EntrySound'
    <2>1. ASSUME edits = 0, plan.registration = "add", config = "target"
          PROVE  AllReached("target")'
      <3>1. run.goal = "target"
        BY <1>2, <1>8, <2>1
           DEF IInv, ConfigSound, EntryUnder, Bytes, BytesOf, Shape, Goals
      <3>2. \A u \in UnitIds : Reached(u, "target")
        BY <2>1 DEF IInv, EntrySound, AllReached
      <3> QED BY <3>1, <3>2, <1>11 DEF Goals, AllReached
    <2>2. ASSUME edits = 0, plan.registration = "remove", ~CachesToClean, config = "prior"
          PROVE  AllReached("prior")'
      <3>1. run.goal = "prior"
        BY <1>2, <1>8, <2>2
           DEF IInv, ConfigSound, EntryUnder, Bytes, BytesOf, Shape, Goals
      <3>2. \A u \in UnitIds : Reached(u, "prior")
        BY <2>2 DEF IInv, EntrySound, AllReached
      <3> QED BY <3>1, <3>2, <1>11 DEF Goals, AllReached
    <2>3. CachesToClean' = CachesToClean
      BY <1>1 DEF CachesToClean
    <2> QED BY <1>1, <2>1, <2>2, <2>3 DEF EntrySound
  <1>15. JournalHonest'
    <2>1. ASSUME NEW u \in UnitIds, journal.units[u] = "complete"
          PROVE  (objects[u].dest = Desired(u, journal.goal))'
      BY <2>1, <1>1, <1>2, <1>9, <1>11 DEF IInv, JournalHonest, Reached, Desired, Shape
    <2> QED BY <1>1, <2>1 DEF IInv, JournalHonest, Bytes
  <1>16. AdmissionSound'
    BY <1>1, <1>9 DEF AdmissionSound
  <1> QED BY <1>7, <1>10, <1>12, <1>13, <1>14, <1>15, <1>16 DEF IInv

-----------------------------------------------------------------------------
(* The steps on one unit.                                                  *)

LEMMA UnitFacts ==
  ASSUME IInv, run.pc \in UnitPlaces
  PROVE  /\ Shape
         /\ PathsSound(Unit, Now, plan.units[Unit], run.goal)
         /\ Position(Unit, run.pc, Now, plan.units[Unit], run.goal)
         /\ run.goal \in {"target", "prior"}
PROOF
  <1>1. Shape /\ Unit \in UnitIds /\ run.goal \in Goals
    BY UnitIsPlanned DEF IInv
  <1>2. run.goal = journal.goal
    BY DEF IInv, RunSound, UnitPlaces
  <1> QED BY <1>1, <1>2 DEF IInv, UnitsSound, RunSound, Now, Goals

LEMMA PartialOfPaths ==
  ASSUME NEW o \in Paths
  PROVE  LET s == [o EXCEPT !.partial = FALSE] IN
         /\ s \in Paths /\ s.dest = o.dest /\ s.backup = o.backup
         /\ s.displaced = o.displaced /\ s.stage = o.stage /\ ~s.partial
PROOF
  BY DEF Paths

LEMMA EnterUnitKeeps == ASSUME IInv, EnterUnit PROVE IInv'
PROOF
  <1> DEFINE w == plan.units[Unit]
  <1>1. run.pc = "unit" /\ run.pc \in UnitPlaces
    BY DEF EnterUnit, UnitPlaces
  <1>2. /\ Shape /\ PathsSound(Unit, Now, w, run.goal) /\ run.goal \in {"target", "prior"}
    BY <1>1, UnitFacts
  <1>3. /\ Now \in Paths /\ Goal = w[run.goal]
        /\ w \in [initial : Artifact, prior : Artifact, target : Artifact]
        /\ Planned("initial") = w.initial /\ Planned("prior") = w.prior
        /\ Planned("target") = w.target
    BY <1>2, UnitIsPlanned
  <1> DEFINE o == [Now EXCEPT !.partial = FALSE]
  <1>4. /\ o \in Paths /\ o.dest = Now.dest /\ o.backup = Now.backup
        /\ o.displaced = Now.displaced /\ o.stage = Now.stage /\ ~o.partial
    BY <1>3, PartialOfPaths
  <1>5. AuxiliariesKnown
    <2>1. BackupSound
      BY <1>2, <1>3, AbsentIs DEF BackupSound, PathsSound
    <2>2. DisplacedKnown
      BY <1>2, <1>3, AbsentIs DEF DisplacedKnown, PathsSound
    <2>3. StageKnown
      BY <1>2, <1>3, AbsentIs DEF StageKnown, PathsSound, CopyOf, Copied
    <2>4. PartialKnown
      BY <1>2 DEF PartialKnown, PathsSound
    <2> QED BY <2>1, <2>2, <2>3, <2>4 DEF AuxiliariesKnown
  <1>6. UnitStep(o, "discard")
    BY <1>5 DEF EnterUnit, WithoutPartial
  <1>7. PathsSound(Unit, o, w, run.goal)
    <2> HIDE DEF o
    <2> QED BY <1>2, <1>4 DEF PathsSound
  <1>8. Position(Unit, "discard", o, w, run.goal)
    BY <1>4 DEF Position
  <1>9. Now.dest = Goal => o.dest = Goal
    BY <1>4
  <1>10. "discard" \in UnitPlaces
    BY DEF UnitPlaces
  <1> HIDE DEF o
  <1> QED BY <1>1, <1>4, <1>6, <1>7, <1>8, <1>9, <1>10, UnitStepKeeps

LEMMA DiscardStageKeeps == ASSUME IInv, DiscardStage PROVE IInv'
PROOF
  <1> DEFINE w == plan.units[Unit]
  <1>1. run.pc = "discard" /\ run.pc \in UnitPlaces
    BY DEF DiscardStage, UnitPlaces
  <1>2. /\ Shape /\ PathsSound(Unit, Now, w, run.goal) /\ run.goal \in {"target", "prior"}
        /\ Position(Unit, "discard", Now, w, run.goal)
    BY <1>1, UnitFacts
  <1>3. /\ Now \in Paths /\ Goal = w[run.goal]
        /\ Planned("target") = w.target
    BY <1>2, UnitIsPlanned
  <1>4. {"dismantle", "place"} \subseteq UnitPlaces
    BY DEF UnitPlaces
  <1>5. CASE run.goal = "prior" /\ Now.stage.exists /\ ~CopyOf(Goal)
    <2>1. CopyOf(Planned("target")) /\ Copied(Unit, Now.stage, w.target)
      BY <1>2, <1>3, <1>5, AbsentIs DEF PathsSound, CopyOf, Copied
    <2>2. UnitStep(Now, "dismantle")
      BY <1>5, <2>1 DEF DiscardStage
    <2>3. Position(Unit, "dismantle", Now, w, run.goal)
      BY <1>2, <1>5, <2>1 DEF Position
    <2> QED BY <1>1, <1>2, <1>3, <1>4, <2>2, <2>3, UnitStepKeeps
  <1>6. CASE ~(run.goal = "prior" /\ Now.stage.exists /\ ~CopyOf(Goal))
    <2>1. UnitStep(Now, "place")
      BY <1>6 DEF DiscardStage
    <2>2. Now.stage.exists => Copied(Unit, Now.stage, w[run.goal])
      BY <1>2, <1>3, <1>6, AbsentIs DEF PathsSound, CopyOf, Copied
    <2>3. Position(Unit, "place", Now, w, run.goal)
      BY <1>2, <2>2 DEF Position
    <2> QED BY <1>1, <1>2, <1>3, <1>4, <2>1, <2>3, UnitStepKeeps
  <1> QED BY <1>5, <1>6

LEMMA DismantleStageKeeps == ASSUME IInv, DismantleStage PROVE IInv'
PROOF
  <1> DEFINE w == plan.units[Unit]
  <1>1. run.pc = "dismantle" /\ run.pc \in UnitPlaces
    BY DEF DismantleStage, UnitPlaces
  <1>2. /\ Shape /\ PathsSound(Unit, Now, w, run.goal) /\ run.goal \in {"target", "prior"}
        /\ Position(Unit, "dismantle", Now, w, run.goal)
    BY <1>1, UnitFacts
  <1>3. /\ Now \in Paths /\ Goal = w[run.goal]
    BY <1>2, UnitIsPlanned
  <1>4. {"dismantle", "place"} \subseteq UnitPlaces
    BY DEF UnitPlaces
  <1>5. ASSUME NEW item \in Now.stage.items, Unit \in Directories,
               UnitStep([Now EXCEPT !.stage.items = @ \ {item}], "dismantle")
        PROVE  IInv'
    <2> DEFINE left == [Now.stage EXCEPT !.items = @ \ {item}]
               o == [Now EXCEPT !.stage = left]
    <2>1. Now.stage \in Artifact
      BY <1>3 DEF Paths
    <2>2. left \in Artifact /\ left.exists = Now.stage.exists
          /\ left.items = Now.stage.items \ {item}
      <3> DEFINE t == Now.stage
      <3> HIDE DEF t
      <3>1. t \in Artifact
        BY <2>1 DEF t
      <3>2. LET l == [t EXCEPT !.items = t.items \ {item}] IN
            l \in Artifact /\ l.exists = t.exists /\ l.items = t.items \ {item}
        BY <3>1 DEF Artifact
      <3> QED BY <3>2 DEF t
    <2> HIDE DEF left
    <2>3. /\ o \in Paths /\ o.dest = Now.dest /\ o.backup = Now.backup
          /\ o.displaced = Now.displaced /\ o.stage = left /\ o.partial = Now.partial
      BY <1>3, <2>2 DEF Paths
    <2>4. UnitStep(o, "dismantle")
      BY <1>5 DEF left
    <2> HIDE DEF o
    <2>5. Copied(Unit, left, w.target) /\ left.exists
      BY <1>2, <1>5, <2>2 DEF Position, Copied, PartialTreeKnown
    <2>6. PathsSound(Unit, o, w, run.goal)
      BY <1>2, <2>2, <2>3, <2>5, AbsentIs DEF PathsSound, Position
    <2>7. Position(Unit, "dismantle", o, w, run.goal)
      BY <1>2, <2>3, <2>5 DEF Position
    <2> QED BY <1>1, <1>4, <2>3, <2>4, <2>6, <2>7, UnitStepKeeps
  <1>6. ASSUME UnitStep([Now EXCEPT !.stage = Absent], "place")
        PROVE  IInv'
    <2> DEFINE o == [Now EXCEPT !.stage = Absent]
    <2>1. /\ o \in Paths /\ o.dest = Now.dest /\ o.backup = Now.backup
          /\ o.displaced = Now.displaced /\ o.stage = Absent /\ o.partial = Now.partial
      BY <1>3, AbsentIs DEF Paths
    <2>2. UnitStep(o, "place")
      BY <1>6
    <2> HIDE DEF o
    <2>3. PathsSound(Unit, o, w, run.goal)
      BY <1>2, <2>1 DEF PathsSound
    <2>4. Position(Unit, "place", o, w, run.goal)
      BY <1>2, <2>1, AbsentIs DEF Position
    <2> QED BY <1>1, <1>4, <2>1, <2>2, <2>3, <2>4, UnitStepKeeps
  <1> QED BY <1>5, <1>6 DEF DismantleStage

LEMMA PlaceUnitKeeps == ASSUME IInv, PlaceUnit PROVE IInv'
PROOF
  <1> DEFINE w == plan.units[Unit]
  <1>1. run.pc = "place" /\ run.pc \in UnitPlaces
    BY DEF PlaceUnit, UnitPlaces
  <1>2. /\ Shape /\ PathsSound(Unit, Now, w, run.goal) /\ run.goal \in {"target", "prior"}
        /\ Position(Unit, "place", Now, w, run.goal)
    BY <1>1, UnitFacts
  <1>3. /\ Now \in Paths /\ Goal = w[run.goal]
        /\ w \in [initial : Artifact, prior : Artifact, target : Artifact]
        /\ Plannable(Unit, w.initial) /\ Plannable(Unit, w.prior) /\ Plannable(Unit, w.target)
        /\ Planned("initial") = w.initial /\ Planned("prior") = w.prior
        /\ Planned("target") = w.target
    BY <1>2, UnitIsPlanned
  <1>4. {"journal unit", "stage"} \subseteq UnitPlaces
    BY DEF UnitPlaces
  <1>5. /\ "initial" \in Labels <=> Now.dest = w.initial
        /\ Labels = {} => Now.dest \notin {w.initial, w.prior, w.target}
    BY <1>3 DEF Labels
  <1>6. ~Now.dest.exists <=> Now.dest = Absent
    BY <1>2, <1>3, AbsentIs DEF PathsSound, Plannable
  <1>7. CASE Now.dest = Goal
    <2>1. ~Now.stage.exists
      BY <1>2, <1>3, <1>7, AbsentIs DEF PathsSound, Position, Copied
    <2>2. UnitStep(Now, "journal unit")
      BY <1>7, <2>1 DEF PlaceUnit
    <2>3. Position(Unit, "journal unit", Now, w, run.goal)
      BY <1>3, <1>7 DEF Position
    <2> QED BY <1>1, <1>2, <1>3, <1>4, <2>2, <2>3, UnitStepKeeps
  <1>8. CASE Now.dest # Goal /\ w.initial.exists /\ Now.dest = w.initial
    <2> DEFINE o == [Now EXCEPT !.backup = Now.dest, !.dest = Absent]
    <2>1. /\ o \in Paths /\ o.dest = Absent /\ o.backup = w.initial
          /\ o.displaced = Now.displaced /\ o.stage = Now.stage /\ o.partial = Now.partial
      BY <1>3, <1>8, AbsentIs DEF Paths
    <2>2. ~Now.backup.exists
      BY <1>2, <1>3, <1>8 DEF PathsSound
    <2>3. UnitStep(o, "stage")
      BY <1>3, <1>5, <1>8, <2>2 DEF PlaceUnit, Preserved
    <2> HIDE DEF o
    <2>4. PathsSound(Unit, o, w, run.goal)
      BY <1>2, <1>3, <1>8, <2>1, AbsentIs DEF PathsSound
    <2>5. Position(Unit, "stage", o, w, run.goal)
      BY <1>2, <2>1 DEF Position
    <2> QED BY <1>1, <1>4, <1>8, <2>1, <2>3, <2>4, <2>5, UnitStepKeeps
  <1>9. CASE Now.dest # Goal /\ Now.dest.exists /\ Now.dest # w.initial
    <2> DEFINE o == [Now EXCEPT !.displaced = Now.dest, !.dest = Absent]
    <2>1. /\ o \in Paths /\ o.dest = Absent /\ o.backup = Now.backup
          /\ o.displaced = Now.dest /\ o.stage = Now.stage /\ o.partial = Now.partial
      BY <1>3, AbsentIs DEF Paths
    <2>2. run.goal = "prior" /\ Now.dest = w.target /\ Now.dest # w.prior
      BY <1>2, <1>3, <1>6, <1>9 DEF PathsSound
    <2>3. Now.displaced = Absent /\ ~Now.displaced.exists
      BY <1>2, <1>6, <1>9, <2>2, AbsentIs DEF PathsSound
    <2>4. UnitStep(o, "stage")
      BY <1>3, <1>5, <1>9, <2>2, <2>3 DEF PlaceUnit, Displaced
    <2> HIDE DEF o
    <2>5. PathsSound(Unit, o, w, run.goal)
      BY <1>2, <1>3, <1>9, <2>1, <2>2, AbsentIs DEF PathsSound
    <2>6. Position(Unit, "stage", o, w, run.goal)
      BY <1>2, <2>1 DEF Position
    <2> QED BY <1>1, <1>4, <1>9, <2>1, <2>4, <2>5, <2>6, UnitStepKeeps
  <1>10. CASE Now.dest # Goal /\ ~Now.dest.exists
    <2>1. ~(w.initial.exists /\ Now.dest = w.initial)
      BY <1>10
    <2>2. Now.dest = w.initial => ~Now.backup.exists
      BY <1>2, <1>3, <1>10 DEF PathsSound
    <2>3. UnitStep(Now, "stage")
      BY <1>3, <1>5, <1>10, <2>1, <2>2 DEF PlaceUnit
    <2>4. Position(Unit, "stage", Now, w, run.goal)
      BY <1>2, <1>6, <1>10 DEF Position
    <2> QED BY <1>1, <1>2, <1>3, <1>4, <2>3, <2>4, UnitStepKeeps
  <1> QED BY <1>7, <1>8, <1>9, <1>10

LEMMA StageUnitKeeps == ASSUME IInv, StageUnit PROVE IInv'
PROOF
  <1> DEFINE w == plan.units[Unit]
  <1>1. run.pc = "stage" /\ run.pc \in UnitPlaces
    BY DEF StageUnit, UnitPlaces
  <1>2. /\ Shape /\ PathsSound(Unit, Now, w, run.goal) /\ run.goal \in {"target", "prior"}
        /\ Position(Unit, "stage", Now, w, run.goal)
    BY <1>1, UnitFacts
  <1>3. /\ Now \in Paths /\ Goal = w[run.goal]
        /\ w \in [initial : Artifact, prior : Artifact, target : Artifact]
        /\ Plannable(Unit, w.prior) /\ Plannable(Unit, w.target)
    BY <1>2, UnitIsPlanned
  <1>4. {"check", "activate", "fill"} \subseteq UnitPlaces
    BY DEF UnitPlaces
  <1>5. Now.dest = Absent /\ ~Now.partial /\ (Now.stage.exists => Copied(Unit, Now.stage, Goal))
    BY <1>2, <1>3 DEF Position
  <1>6. Goal.exists \/ Goal = Absent
    BY <1>2, <1>3 DEF Plannable
  <1>7. CASE ~Goal.exists
    <2>1. UnitStep(Now, "check")
      BY <1>7 DEF StageUnit
    <2>2. Position(Unit, "check", Now, w, run.goal)
      BY <1>3, <1>5, <1>6, <1>7 DEF Position
    <2> QED BY <1>1, <1>2, <1>3, <1>4, <2>1, <2>2, UnitStepKeeps
  <1>8. CASE Goal.exists /\ Now.stage = Goal
    <2>1. UnitStep(Now, "activate")
      BY <1>8 DEF StageUnit
    <2>2. Position(Unit, "activate", Now, w, run.goal)
      BY <1>3, <1>5, <1>8 DEF Position
    <2> QED BY <1>1, <1>2, <1>3, <1>4, <2>1, <2>2, UnitStepKeeps
  <1>9. CASE Goal.exists /\ Now.stage # Goal /\ Unit \notin Directories
    <2> DEFINE o == [Now EXCEPT !.partial = TRUE]
    <2>1. /\ o \in Paths /\ o.dest = Now.dest /\ o.backup = Now.backup
          /\ o.displaced = Now.displaced /\ o.stage = Now.stage /\ o.partial
      BY <1>3 DEF Paths
    <2>2. ~Now.stage.exists
      BY <1>5, <1>9 DEF Copied
    <2>3. UnitStep(o, "fill")
      BY <1>5, <1>9, <2>2 DEF StageUnit
    <2> HIDE DEF o
    <2>4. PathsSound(Unit, o, w, run.goal)
      BY <1>2, <1>9, <2>1 DEF PathsSound
    <2>5. Position(Unit, "fill", o, w, run.goal)
      BY <1>3, <1>5, <1>9, <2>1, <2>2 DEF Position
    <2> QED BY <1>1, <1>4, <2>1, <2>3, <2>4, <2>5, UnitStepKeeps
  <1>10. ASSUME Goal.exists, Unit \in Directories, Now.stage # Goal,
                NEW stage \in Artifact, PartialTreeKnown(stage, Goal),
                UnitStep([Now EXCEPT !.stage = stage], "fill")
         PROVE  IInv'
    <2> DEFINE o == [Now EXCEPT !.stage = stage]
    <2>1. /\ o \in Paths /\ o.dest = Now.dest /\ o.backup = Now.backup
          /\ o.displaced = Now.displaced /\ o.stage = stage /\ o.partial = Now.partial
      BY <1>3, <1>10 DEF Paths
    <2>2. UnitStep(o, "fill")
      BY <1>10
    <2> HIDE DEF o
    <2>3. stage.exists /\ Copied(Unit, stage, Goal)
      BY <1>10 DEF Copied, PartialTreeKnown
    <2>4. PathsSound(Unit, o, w, run.goal)
      BY <1>2, <1>3, <1>5, <2>1, <2>3, AbsentIs DEF PathsSound
    <2>5. Position(Unit, "fill", o, w, run.goal)
      BY <1>3, <1>5, <1>10, <2>1, <2>3 DEF Position
    <2> QED BY <1>1, <1>4, <2>1, <2>2, <2>4, <2>5, UnitStepKeeps
  <1>11. CASE Goal.exists /\ Now.stage # Goal /\ Unit \in Directories /\ ~Now.stage.exists
    <2>1. UnitStep([Now EXCEPT !.stage = Present({})], "fill")
      BY <1>11 DEF StageUnit
    <2>2. Present({}) \in Artifact /\ PartialTreeKnown(Present({}), Goal)
      BY DEF Present, Artifact, PartialTreeKnown
    <2> QED BY <1>10, <1>11, <2>1, <2>2
  <1>12. CASE Goal.exists /\ Now.stage # Goal /\ Unit \in Directories /\ Now.stage.exists
    <2> DEFINE stage == WithoutPartials(Now.stage)
    <2>1. Now.stage \in Artifact /\ PartialTreeKnown(Now.stage, Goal)
      BY <1>3, <1>5, <1>12 DEF Paths, Copied
    <2>2. stage \in Artifact /\ stage.exists /\ stage.items \subseteq Now.stage.items
      <3> DEFINE t == Now.stage
                 gone == PartialItems(Goal)
      <3> HIDE DEF t, gone
      <3>1. t \in Artifact /\ t.exists
        BY <2>1, <1>12 DEF t
      <3>2. LET l == [t EXCEPT !.items = @ \ gone] IN
            l \in Artifact /\ l.exists /\ l.items \subseteq t.items
        BY <3>1 DEF Artifact
      <3> QED BY <3>2 DEF t, gone, WithoutPartials
    <2>3. PartialTreeKnown(stage, Goal)
      BY <2>1, <2>2 DEF PartialTreeKnown
    <2>4. UnitStep([Now EXCEPT !.stage = stage], "fill")
      BY <1>12, <2>3 DEF StageUnit
    <2> HIDE DEF stage
    <2> QED BY <1>10, <1>12, <2>2, <2>3, <2>4
  <1> QED BY <1>7, <1>8, <1>9, <1>11, <1>12

LEMMA FillFileKeeps == ASSUME IInv, run.pc = "fill", FillFile PROVE IInv'
PROOF
  <1> DEFINE w == plan.units[Unit]
             o == [Now EXCEPT !.partial = FALSE, !.stage = Goal]
  <1>1. run.pc = "fill" /\ run.pc \in UnitPlaces /\ "activate" \in UnitPlaces
    BY DEF UnitPlaces
  <1>2. /\ Shape /\ PathsSound(Unit, Now, w, run.goal) /\ run.goal \in {"target", "prior"}
        /\ Position(Unit, "fill", Now, w, run.goal)
    BY <1>1, UnitFacts
  <1>3. Now \in Paths /\ Goal = w[run.goal] /\ Goal \in Artifact
    BY <1>2, UnitIsPlanned DEF Plannable
  <1>4. /\ o \in Paths /\ o.dest = Now.dest /\ o.backup = Now.backup
        /\ o.displaced = Now.displaced /\ o.stage = Goal /\ ~o.partial
    BY <1>3 DEF Paths
  <1>5. UnitStep(o, "activate")
    BY DEF FillFile
  <1> HIDE DEF o
  <1>6. Now.dest = Absent /\ Goal.exists
    BY <1>2, <1>3 DEF Position
  <1>7. PathsSound(Unit, o, w, run.goal)
    BY <1>2, <1>3, <1>4, <1>6, AbsentIs DEF PathsSound, Copied
  <1>8. Position(Unit, "activate", o, w, run.goal)
    BY <1>3, <1>4, <1>6 DEF Position
  <1> QED BY <1>1, <1>4, <1>5, <1>7, <1>8, UnitStepKeeps

\* A directory whose stage has nothing missing and nothing unfinished is a copy of the goal:
\* the copier never gives a complete tree up.
LEMMA FilledIsGoal ==
  ASSUME Shape, NEW stage \in Artifact, PartialTreeKnown(stage, Goal),
         Goal \in Artifact, Goal.exists, Single(Goal),
         stage.items \cap PartialItems(Goal) = {},
         {i \in Goal.items : i[1] \notin Leaves(stage.items)} = {}
  PROVE  stage = Goal
PROOF
  <1>1. stage.items \subseteq Goal.items
    BY DEF PartialTreeKnown
  <1>2. ASSUME NEW i \in Goal.items PROVE i \in stage.items
    <2>1. i[1] \in Leaves(stage.items)
      BY <1>2
    <2>2. PICK j \in stage.items : j[1] = i[1]
      BY <2>1 DEF Leaves
    <2> QED BY <1>1, <1>2, <2>2 DEF Single
  <1>3. stage.items = Goal.items
    BY <1>1, <1>2
  <1>4. stage.exists = TRUE /\ Goal.exists = TRUE
    BY DEF PartialTreeKnown, Artifact
  <1> DEFINE g == Goal
  <1>5. stage \in Artifact /\ g \in Artifact /\ stage.items = g.items /\ stage.exists = g.exists
    BY <1>3, <1>4
  <1> HIDE DEF g
  <1>6. stage = g
    BY <1>5 DEF Artifact
  <1> QED BY <1>6 DEF g

LEMMA FillDirectoryKeeps == ASSUME IInv, run.pc = "fill", FillDirectory PROVE IInv'
PROOF
  <1> DEFINE w == plan.units[Unit]
  <1>1. run.pc = "fill" /\ run.pc \in UnitPlaces /\ {"fill", "activate"} \subseteq UnitPlaces
    BY DEF UnitPlaces
  <1>2. /\ Shape /\ PathsSound(Unit, Now, w, run.goal) /\ run.goal \in {"target", "prior"}
        /\ Position(Unit, "fill", Now, w, run.goal)
    BY <1>1, UnitFacts
  <1>3. /\ Unit \in UnitIds /\ Now \in Paths /\ Goal = w[run.goal] /\ Goal \in Artifact
        /\ Goal.items \subseteq Items(Unit) /\ Single(Goal)
    BY <1>2, UnitIsPlanned DEF Plannable
  <1>4. Unit \in Directories
    BY DEF FillDirectory
  <1>5. /\ Now.dest = Absent /\ Goal.exists
        /\ Now.stage.exists /\ PartialTreeKnown(Now.stage, Goal) /\ Now.stage \in Artifact
    BY <1>2, <1>3, <1>4 DEF Position, Paths
  <1>6. \A i \in Goal.items : PartialOf(i) \in Stuff /\ i \in Stuff
                              /\ PartialOf(i) \in PartialItems(Goal)
    BY <1>3 DEF Stuff, PartialItems
  <1>7. ASSUME NEW items, items \subseteq Goal.items \cup PartialItems(Goal), items \subseteq Stuff,
               UnitStep([Now EXCEPT !.stage.items = items], "fill")
        PROVE  IInv'
    <2> DEFINE stage == [Now.stage EXCEPT !.items = items]
               o == [Now EXCEPT !.stage = stage]
    <2>1. stage \in Artifact /\ stage.exists = Now.stage.exists /\ stage.items = items
      <3> DEFINE t == Now.stage
      <3>1. t \in Artifact
        BY <1>5
      <3> HIDE DEF t
      <3>2. LET l == [t EXCEPT !.items = items] IN
            l \in Artifact /\ l.exists = t.exists /\ l.items = items
        BY <1>7, <3>1 DEF Artifact
      <3> QED BY <3>2 DEF t
    <2>2. UnitStep(o, "fill")
      BY <1>7
    <2> HIDE DEF stage
    <2>3. /\ o \in Paths /\ o.dest = Now.dest /\ o.backup = Now.backup
          /\ o.displaced = Now.displaced /\ o.stage = stage /\ o.partial = Now.partial
      BY <1>3, <2>1 DEF Paths
    <2> HIDE DEF o
    <2>4. stage.exists /\ PartialTreeKnown(stage, Goal) /\ Copied(Unit, stage, Goal)
      BY <1>4, <1>5, <1>7, <2>1 DEF PartialTreeKnown, Copied
    <2>5. PathsSound(Unit, o, w, run.goal)
      BY <1>2, <1>3, <1>5, <2>3, <2>4, AbsentIs DEF PathsSound
    <2>6. Position(Unit, "fill", o, w, run.goal)
      BY <1>3, <1>4, <1>5, <2>3, <2>4 DEF Position
    <2> QED BY <1>1, <2>2, <2>3, <2>5, <2>6, UnitStepKeeps
  <1>8. Now.stage.items \subseteq Goal.items \cup PartialItems(Goal) /\ Now.stage.items \subseteq Stuff
    BY <1>5 DEF PartialTreeKnown, Artifact
  <1>9. ASSUME NEW i \in Missing,
               UnitStep([Now EXCEPT !.stage.items = @ \cup {PartialOf(i)}], "fill")
        PROVE  IInv'
    <2>1. i \in Goal.items
      BY <1>9 DEF Missing
    <2> QED BY <1>6, <1>7, <1>8, <1>9, <2>1
  <1>10. ASSUME NEW i \in Goal.items,
                UnitStep([Now EXCEPT !.stage.items = (@ \ {PartialOf(i)}) \cup {i}], "fill")
         PROVE  IInv'
    BY <1>6, <1>7, <1>8, <1>10
  <1>11. ASSUME Missing = {}, Unfinished = {}
         PROVE  Now.stage = Goal
    BY <1>2, <1>3, <1>5, <1>11, FilledIsGoal DEF Missing, Unfinished
  <1>12. ASSUME Now.stage = Goal, UnitStep(Now, "activate") PROVE IInv'
    <2>1. Position(Unit, "activate", Now, w, run.goal)
      BY <1>3, <1>5, <1>12 DEF Position
    <2> QED BY <1>1, <1>2, <1>3, <1>12, <2>1, UnitStepKeeps
  <1> QED BY <1>9, <1>10, <1>11, <1>12 DEF FillDirectory

LEMMA ActivateStageKeeps == ASSUME IInv, ActivateStage PROVE IInv'
PROOF
  <1> DEFINE w == plan.units[Unit]
             o == [Now EXCEPT !.dest = Now.stage, !.stage = Absent]
  <1>1. run.pc = "activate" /\ run.pc \in UnitPlaces /\ "check" \in UnitPlaces
    BY DEF ActivateStage, UnitPlaces
  <1>2. /\ Shape /\ PathsSound(Unit, Now, w, run.goal) /\ run.goal \in {"target", "prior"}
        /\ Position(Unit, "activate", Now, w, run.goal)
    BY <1>1, UnitFacts
  <1>3. /\ Now \in Paths /\ Goal = w[run.goal]
        /\ w \in [initial : Artifact, prior : Artifact, target : Artifact]
    BY <1>2, UnitIsPlanned
  <1>4. Now.dest = Absent /\ Now.stage = Goal /\ Goal.exists
    BY <1>2, <1>3 DEF Position
  <1>5. /\ o \in Paths /\ o.dest = Goal /\ o.backup = Now.backup
        /\ o.displaced = Now.displaced /\ o.stage = Absent /\ o.partial = Now.partial
    BY <1>3, <1>4, AbsentIs DEF Paths
  <1>6. UnitStep(o, "check")
    BY <1>4, AbsentIs DEF ActivateStage
  <1> HIDE DEF o
  <1>7. PathsSound(Unit, o, w, run.goal)
    BY <1>2, <1>3, <1>4, <1>5, AbsentIs DEF PathsSound
  <1>8. Position(Unit, "check", o, w, run.goal)
    BY <1>3, <1>5 DEF Position
  <1> QED BY <1>1, <1>5, <1>6, <1>7, <1>8, UnitStepKeeps

LEMMA CheckUnitKeeps == ASSUME IInv, CheckUnit PROVE IInv'
PROOF
  <1> DEFINE w == plan.units[Unit]
  <1>1. run.pc = "check" /\ run.pc \in UnitPlaces /\ "journal unit" \in UnitPlaces
    BY DEF CheckUnit, UnitPlaces
  <1>2. /\ Shape /\ PathsSound(Unit, Now, w, run.goal)
        /\ Position(Unit, "check", Now, w, run.goal)
    BY <1>1, UnitFacts
  <1>3. Now \in Paths /\ Goal = w[run.goal]
    BY <1>2, UnitIsPlanned
  <1>4. UnitStep(Now, "journal unit")
    BY <1>2, <1>3 DEF CheckUnit, Position
  <1>5. Position(Unit, "journal unit", Now, w, run.goal)
    BY <1>2 DEF Position
  <1> QED BY <1>1, <1>2, <1>3, <1>4, <1>5, UnitStepKeeps

-----------------------------------------------------------------------------
(* The steps that leave the units alone.                                   *)

LEMMA UnitsStay ==
  ASSUME UNCHANGED <<plan, objects>>
  PROVE  /\ \A u, goal : Reached(u, goal)' = Reached(u, goal)
         /\ \A goal : AllReached(goal)' = AllReached(goal)
         /\ CachesToClean' = CachesToClean
         /\ \A goal : EntryUnder(goal)' = EntryUnder(goal)
         /\ \A goal : Bytes(goal)' = Bytes(goal)
         /\ \A goal : RecordsOf(goal)' = RecordsOf(goal)
PROOF
  BY DEF Reached, AllReached, Desired, CachesToClean, EntryUnder, Bytes, BytesOf, RecordsOf

\* A run at the head of a unit knows nothing of it yet.
LEMMA NothingKnown ==
  ASSUME NEW u, NEW o, NEW w, NEW goal
  PROVE  Position(u, "unit", o, w, goal)
PROOF
  BY DEF Position

LEMMA JournalUnitKeeps == ASSUME IInv, JournalUnit PROVE IInv'
PROOF
  <1> DEFINE w == plan.units[Unit]
             marked == [journal.units EXCEPT ![Unit] = "complete"]
  <1>1. run.pc = "journal unit" /\ run.pc \in UnitPlaces /\ run.pc \in Beyond
    BY DEF JournalUnit, UnitPlaces, Beyond, PcOfRun
  <1>2. /\ Shape /\ Position(Unit, "journal unit", Now, w, run.goal)
    BY <1>1, UnitFacts
  <1>3. /\ Unit \in UnitIds /\ Goal = w[run.goal] /\ run.goal \in Goals
    BY <1>2, UnitIsPlanned
  <1>4. UNCHANGED <<plan, objects, config, admission, published, answer, crashes, edits>>
    BY DEF JournalUnit, bounds
  <1>5. Reached(Unit, run.goal) /\ run.goal = journal.goal /\ admission = "recovery_required"
    BY <1>1, <1>2, <1>3 DEF Position, Now, Goal, Reached, IInv, RunSound
  <1>6. journal' = [journal EXCEPT !.started = TRUE, !.units = marked]
    BY DEF JournalUnit
  <1>7. marked \in [UnitIds -> Phases]
        /\ \A u \in UnitIds : marked[u] = IF u = Unit THEN "complete" ELSE journal.units[u]
    BY <1>2, <1>3 DEF Shape, Phases
  <1> HIDE DEF marked
  <1>8. /\ journal' \in [goal : Goals, started : BOOLEAN,
                         units : [UnitIds -> Phases], registration : Phases]
        /\ journal'.goal = journal.goal /\ journal'.units = marked
        /\ journal'.registration = journal.registration
    BY <1>2, <1>6, <1>7 DEF Shape
  <1>9. run.index \in 1..Len(Units) /\ Len(Units) \in Nat
    BY <1>2, UnitsCovered DEF Shape
  <1>10. /\ run' \in [pc : PcOfRun, goal : Goals, index : 1..Len(Units)]
         /\ run'.goal = run.goal
         /\ \/ run.index < Len(Units) /\ run'.pc = "unit" /\ run'.index = run.index + 1
            \/ run.index = Len(Units) /\ run'.pc = "after"
    <2>1. CASE run.index < Len(Units)
      <3>1. run' = [run EXCEPT !.pc = "unit", !.index = run.index + 1]
        BY <2>1 DEF JournalUnit
      <3>2. run.index + 1 \in 1..Len(Units) /\ "unit" \in PcOfRun
        BY <1>9, <2>1 DEF PcOfRun
      <3> QED BY <1>2, <2>1, <3>1, <3>2 DEF Shape
    <2>2. CASE ~(run.index < Len(Units))
      <3>1. run' = [run EXCEPT !.pc = "after"]
        BY <2>2 DEF JournalUnit
      <3>2. run.index = Len(Units) /\ "after" \in PcOfRun
        BY <1>9, <2>2 DEF PcOfRun
      <3> QED BY <1>2, <2>2, <3>1, <3>2 DEF Shape
    <2> QED BY <2>1, <2>2
  <1>11. \A k \in 1..run.index : Reached(UnitAt(run.goal, k), run.goal)
    <2>1. \A k \in 1..(run.index - 1) : Reached(UnitAt(run.goal, k), run.goal)
      BY <1>1 DEF IInv, RunSound
    <2>2. Reached(UnitAt(run.goal, run.index), run.goal)
      BY <1>5 DEF Unit
    <2> QED BY <1>9, <2>1, <2>2
  <1>12. Shape'
    BY <1>2, <1>4, <1>8, <1>10 DEF Shape
  <1>13. UnitsSound'
    BY <1>4, <1>8 DEF IInv, UnitsSound
  <1>14. RunSound'
    <2>1. CASE run.index < Len(Units) /\ run'.pc = "unit" /\ run'.index = run.index + 1
      <3>1. Position(Unit, run.pc, objects[Unit], plan.units[Unit], run.goal)'
        BY <2>1, NothingKnown
      <3>2. (\A k \in 1..(run.index - 1) : Reached(UnitAt(run.goal, k), run.goal))'
        <4>1. run'.index - 1 = run.index
          BY <1>9, <2>1
        <4>2. PICK g : g = run.goal /\ g = run'.goal
          BY <1>10
        <4>3. \A k \in 1..(run'.index - 1) : Reached(UnitAt(g, k), g)'
          BY <1>4, <1>11, <4>1, <4>2, UnitsStay
        <4> QED BY <4>2, <4>3 DEF Reached, Desired, UnitAt
      <3> QED BY <1>4, <1>5, <1>8, <1>10, <2>1, <3>1, <3>2 DEF RunSound
    <2>2. CASE run.index = Len(Units) /\ run'.pc = "after"
      <3>1. AllReached(run.goal)
        BY <1>11, <2>2, UnitsCovered DEF AllReached
      <3>2. PICK g : g = run.goal /\ g = run'.goal
        BY <1>10
      <3>3. AllReached(g)'
        BY <1>4, <3>1, <3>2, UnitsStay
      <3>4. AllReached(run.goal)'
        BY <3>2, <3>3 DEF AllReached, Reached, Desired
      <3> QED BY <1>4, <1>5, <1>8, <1>10, <2>2, <3>4 DEF RunSound, UnitPlaces
    <2> QED BY <1>10, <2>1, <2>2
  <1>15. ConfigSound'
    BY <1>1, <1>4, <1>10, UnitsStay DEF IInv, ConfigSound, EntryUnder, Bytes, BytesOf
  <1>16. EntrySound'
    BY <1>4, UnitsStay DEF IInv, EntrySound
  <1>17. JournalHonest'
    <2>1. ASSUME NEW u \in UnitIds, marked[u] = "complete"
          PROVE  objects[u].dest = Desired(u, journal.goal)
      BY <1>5, <1>7, <2>1 DEF IInv, JournalHonest, Reached
    <2> QED BY <1>4, <1>8, <2>1 DEF IInv, JournalHonest, Desired, Bytes
  <1>18. AdmissionSound'
    BY <1>4, <1>5 DEF AdmissionSound
  <1> QED BY <1>12, <1>13, <1>14, <1>15, <1>16, <1>17, <1>18 DEF IInv

LEMMA NoRunIs ==
  ASSUME run' = NoRun
  PROVE  /\ run' \in [pc : PcOfRun, goal : Goals, index : 1..Len(Units)]
         /\ run'.pc = "idle" /\ "idle" \notin UnitPlaces /\ "idle" \notin Beyond
PROOF
  <1>1. 1 \in 1..Len(Units)
    BY UnitsCovered
  <1> QED BY <1>1 DEF NoRun, PcOfRun, Goals, UnitPlaces, Beyond

\* Wherever a run ends, the next one finds what the invariant says of the disk.
LEMMA StopKeeps ==
  ASSUME IInv, NEW why \in Answers \ {"blocked", "blocked by unit"}, Stop(why),
         UNCHANGED <<plan, disk, edits>>, crashes' \in 0..MaxCrashes
  PROVE  IInv'
PROOF
  <1>1. UNCHANGED <<plan, objects, config, journal, admission, published, edits>>
    BY DEF disk
  <1>2. run' = NoRun /\ answer' = why
    BY DEF Stop
  <1>3. Shape'
    BY <1>1, <1>2, NoRunIs DEF IInv, Shape
  <1>4. UnitsSound'
    BY <1>1 DEF IInv, UnitsSound
  <1>5. RunSound'
    BY <1>2, NoRunIs DEF RunSound
  <1>6. ConfigSound'
    BY <1>1, <1>2, NoRunIs DEF IInv, ConfigSound
  <1>7. EntrySound'
    BY <1>1, UnitsStay DEF IInv, EntrySound
  <1>8. JournalHonest'
    BY <1>1 DEF IInv, JournalHonest, Desired, Bytes
  <1>9. AdmissionSound'
    BY <1>1, UnitsStay DEF IInv, AdmissionSound
  <1> QED BY <1>3, <1>4, <1>5, <1>6, <1>7, <1>8, <1>9 DEF IInv

LEMMA CrashKeeps == ASSUME IInv, Crash PROVE IInv'
PROOF
  <1>1. crashes' \in 0..MaxCrashes
    <2>1. crashes \in 0..MaxCrashes /\ crashes < MaxCrashes /\ crashes' = crashes + 1
      BY DEF Crash, IInv, Shape
    <2> QED BY <2>1, BoundsAssumption
  <1>2. "crashed" \in Answers \ {"blocked", "blocked by unit"}
    BY DEF Answers
  <1> QED BY <1>1, <1>2, StopKeeps DEF Crash

LEMMA RefuseKeeps ==
  ASSUME IInv, NEW why \in Answers \ {"blocked", "blocked by unit"}, Refuse(why)
  PROVE  IInv'
PROOF
  <1>1. UNCHANGED <<plan, disk, edits>> /\ crashes' \in 0..MaxCrashes
    BY DEF Refuse, bounds, IInv, Shape
  <1> QED BY <1>1, StopKeeps DEF Refuse

\* A terminal admission is borne out by the disk.
LEMMA TerminalIs ==
  ASSUME Shape, NEW goal \in Goals, AllReached(goal), published[goal] = RecordsOf(goal),
         plan.registration # "none" => config = Bytes(goal)
  PROVE  TerminalVerified(goal)
PROOF
  BY DEF TerminalVerified, AllReached, Reached

LEMMA InvokeKeeps ==
  ASSUME IInv, NEW abort \in BOOLEAN, NEW decision \in Decisions, Invoke(abort, decision)
  PROVE  IInv'
PROOF
  <1> DEFINE goal == GoalOf(abort)
             selecting == goal # journal.goal
             begun == [pc |-> IF selecting THEN "select" ELSE "before",
                       goal |-> goal, index |-> 1]
  <1>1. CASE admission # "recovery_required"
    <2>1. admission \in Goals
      BY <1>1 DEF IInv, Shape
    <2>2. TerminalVerified(admission)
      BY <1>1, <2>1, TerminalIs DEF IInv, AdmissionSound
    <2>3. Refuse(IF abort THEN "refused" ELSE admission)
      BY <1>1, <2>2 DEF Invoke
    <2>4. (IF abort THEN "refused" ELSE admission) \in Answers \ {"blocked", "blocked by unit"}
      BY <2>1 DEF Answers, Goals
    <2> QED BY <2>3, <2>4, RefuseKeeps
  <1>2. CASE admission = "recovery_required" /\ ~QuiescentOK(decision, journal.started \/ selecting)
    <2>1. Refuse("refused")
      BY <1>2 DEF Invoke
    <2>2. "refused" \in Answers \ {"blocked", "blocked by unit"}
      BY DEF Answers
    <2> QED BY <2>1, <2>2, RefuseKeeps
  <1>3. CASE admission = "recovery_required" /\ QuiescentOK(decision, journal.started \/ selecting)
    <2>1. run' = begun /\ answer' = "none"
          /\ UNCHANGED <<plan, objects, config, journal, admission, published, crashes, edits>>
      BY <1>3 DEF Invoke, disk, bounds
    <2>2. goal \in Goals /\ (selecting => goal = "prior")
      BY DEF GoalOf, Goals, IInv, Shape
    <2>3. 1 \in 1..Len(Units)
      BY UnitsCovered
    <2>4. begun \in [pc : PcOfRun, goal : Goals, index : 1..Len(Units)]
      BY <2>2, <2>3 DEF PcOfRun
    <2>5. /\ run'.pc = (IF selecting THEN "select" ELSE "before") /\ run'.goal = goal
          /\ run'.index = 1 /\ run'.pc \notin UnitPlaces /\ run'.pc \notin Beyond
      BY <2>1 DEF UnitPlaces, Beyond
    <2>6. "none" \in Answers \ {"blocked", "blocked by unit"}
      BY DEF Answers
    <2>7. Shape'
      BY <2>1, <2>4, <2>6 DEF IInv, Shape
    <2>8. UnitsSound'
      BY <2>1 DEF IInv, UnitsSound
    <2>9. RunSound'
      <3> HIDE DEF goal
      <3> QED BY <1>3, <2>1, <2>2, <2>5 DEF RunSound
    <2>10. ConfigSound'
      BY <2>1, <2>5 DEF IInv, ConfigSound
    <2>11. EntrySound'
      BY <2>1, UnitsStay DEF IInv, EntrySound
    <2>12. JournalHonest'
      BY <2>1 DEF IInv, JournalHonest, Desired, Bytes
    <2>13. AdmissionSound'
      BY <2>1, UnitsStay DEF IInv, AdmissionSound
    <2> QED BY <2>7, <2>8, <2>9, <2>10, <2>11, <2>12, <2>13 DEF IInv
  <1> QED BY <1>1, <1>2, <1>3

LEMMA SelectPriorKeeps == ASSUME IInv, SelectPrior PROVE IInv'
PROOF
  <1>1. UNCHANGED <<plan, objects, config, admission, published, answer, crashes, edits>>
    BY DEF SelectPrior, bounds
  <1>2. run.pc = "select" /\ run' = [run EXCEPT !.pc = "before"] /\ journal' = PriorSelected
    BY DEF SelectPrior, Continue
  <1>3. /\ run' \in [pc : PcOfRun, goal : Goals, index : 1..Len(Units)]
        /\ run'.pc = "before" /\ run'.goal = "prior" /\ run'.index = 1
    BY <1>2 DEF IInv, Shape, RunSound, PcOfRun
  <1>4. /\ PriorSelected \in [goal : Goals, started : BOOLEAN,
                              units : [UnitIds -> Phases], registration : Phases]
        /\ PriorSelected.goal = "prior" /\ PriorSelected.registration = "pending"
        /\ \A u \in UnitIds : PriorSelected.units[u] = "pending"
    BY DEF PriorSelected, Goals, Phases
  <1>5. admission = "recovery_required"
    BY <1>2 DEF IInv, RunSound
  <1>6. Shape'
    BY <1>1, <1>2, <1>3, <1>4 DEF IInv, Shape
  <1>7. UnitsSound'
    <2>1. ASSUME NEW u \in UnitIds PROVE PathsSound(u, objects[u], plan.units[u], "prior")
      <3>1. PathsSound(u, objects[u], plan.units[u], journal.goal)
        BY DEF IInv, UnitsSound
      <3>2. journal.goal \in {"target", "prior"}
        BY DEF IInv, Shape, Goals
      <3> QED BY <3>1, <3>2 DEF PathsSound
    <2> QED BY <1>1, <1>2, <1>4, <2>1 DEF UnitsSound
  <1>8. RunSound'
    BY <1>1, <1>2, <1>3, <1>4, <1>5 DEF RunSound, UnitPlaces
  <1>9. ConfigSound'
    BY <1>1, <1>3 DEF IInv, ConfigSound, Beyond
  <1>10. EntrySound'
    BY <1>1, UnitsStay DEF IInv, EntrySound
  <1>11. JournalHonest'
    BY <1>2, <1>4 DEF JournalHonest
  <1>12. AdmissionSound'
    BY <1>1, <1>5 DEF AdmissionSound
  <1> QED BY <1>6, <1>7, <1>8, <1>9, <1>10, <1>11, <1>12 DEF IInv

LEMMA RegistrationGoal ==
  ASSUME Shape, plan.registration # "none"
  PROVE  /\ plan.registration \in {"add", "remove", "keep"}
         /\ \A goal \in Goals : Bytes(goal) \in Goals
PROOF
  <1>1. PICK kind \in Kinds : plan \in PlansOf(kind)
    BY DEF Shape, Plans, Kinds
  <1>2. plan.registration \in RegistrationsOf(kind)
    BY <1>1 DEF PlansOf
  <1>3. plan.registration \in {"add", "remove", "keep"}
    BY <1>2 DEF RegistrationsOf, Kinds
  <1> QED BY <1>3 DEF Bytes, BytesOf, Goals

LEMMA EnsureRegistrationKeeps ==
  ASSUME IInv, NEW pc \in {"before", "after"}, EnsureRegistration(pc)
  PROVE  IInv'
PROOF
  <1>1. Shape /\ run.pc = pc /\ run.goal \in Goals
    BY DEF EnsureRegistration, IInv, Shape
  <1>2. run.goal = journal.goal /\ admission = "recovery_required"
    BY <1>1 DEF IInv, RunSound
  <1>3. ASSUME config = "edited", Stop("blocked by config"), UNCHANGED <<plan, disk, bounds>>
        PROVE  IInv'
    <2>1. Refuse("blocked by config")
      BY <1>3 DEF Refuse
    <2>2. "blocked by config" \in Answers \ {"blocked", "blocked by unit"}
      BY DEF Answers
    <2> QED BY <2>1, <2>2, RefuseKeeps
  <1>4. ASSUME NEW next \in {Following(pc), JournalOf(pc)}, Continue(next),
               UNCHANGED <<plan, objects, journal, admission, published, answer, crashes, edits>>,
               IF RegistrationDue(pc)
               THEN next = JournalOf(pc) /\ config' = Bytes(run.goal)
               ELSE next = Following(pc) /\ config' = config
        PROVE  IInv'
    <2>1. next \in {"unit", "verify", "journal before", "journal after"} /\ next \in PcOfRun
          /\ next \in Beyond
      BY <1>4 DEF Following, JournalOf, PcOfRun, Beyond
    <2>2. /\ run' \in [pc : PcOfRun, goal : Goals, index : 1..Len(Units)]
          /\ run'.pc = next /\ run'.goal = run.goal /\ run'.index = run.index
      BY <1>1, <1>4, <2>1 DEF Shape, Continue
    <2>3. config' \in {"prior", "target", "edited"}
      BY <1>1, <1>4, RegistrationGoal DEF RegistrationDue, Shape, Goals
    <2>4. Shape'
      BY <1>1, <1>4, <2>2, <2>3 DEF Shape
    <2>5. UnitsSound'
      BY <1>4 DEF IInv, UnitsSound
    <2>6. RunSound'
      <3>1. CASE pc = "before"
        <4>1. next \in {"unit", "journal before"}
          BY <1>4, <3>1 DEF Following, JournalOf
        <4>2. (run.pc = "unit" =>
                 Position(Unit, run.pc, objects[Unit], plan.units[Unit], run.goal))'
          BY NothingKnown
        <4>3. run'.index = 1
          BY <1>1, <3>1, <2>2 DEF IInv, RunSound
        <4>4. (\A k \in 1..(run.index - 1) : Reached(UnitAt(run.goal, k), run.goal))'
          BY <4>3
        <4> QED BY <1>2, <1>4, <2>2, <4>1, <4>2, <4>3, <4>4 DEF RunSound, UnitPlaces
      <3>2. CASE pc = "after"
        <4>1. next \in {"verify", "journal after"}
          BY <1>4, <3>2 DEF Following, JournalOf
        <4>2. AllReached(run.goal)
          BY <1>1, <3>2 DEF IInv, RunSound
        <4>3. AllReached(run.goal)'
          BY <1>4, <2>2, <4>2 DEF AllReached, Reached, Desired
        <4> QED BY <1>2, <1>4, <2>2, <4>1, <4>3 DEF RunSound, UnitPlaces
      <3> QED BY <3>1, <3>2
    <2>7. ConfigSound'
      <3>1. config' = "edited" => edits' # 0
        BY <1>1, <1>4, RegistrationGoal DEF RegistrationDue, IInv, ConfigSound, Goals
      <3>2. plan'.registration = "none" => config' = "prior"
        BY <1>4 DEF RegistrationDue, IInv, ConfigSound
      <3>3. plan.registration # "none" /\ ~EntryUnder(run.goal) => config' = Bytes(run.goal)
        BY <1>1, <1>4 DEF RegistrationDue, IInv, ConfigSound, Beyond, PcOfRun
      <3>4. plan.registration # "none" /\ (pc = "after" \/ RegistrationDue(pc)) =>
              config' = Bytes(run.goal)
        BY <1>4, <3>3 DEF RegistrationDue
      <3>5. next \in {"journal before", "journal after", "verify", "publish"} =>
              pc = "after" \/ RegistrationDue(pc)
        BY <1>4 DEF Following, JournalOf
      <3> QED BY <1>4, <2>2, <3>1, <3>2, <3>3, <3>4, <3>5
            DEF ConfigSound, EntryUnder, Bytes, BytesOf
    <2>8. EntrySound'
      <3>1. ASSUME edits = 0, plan.registration = "add", config' = "target"
            PROVE  AllReached("target")
        <4>1. CASE RegistrationDue(pc)
          BY <1>1, <1>4, <3>1, <4>1
             DEF IInv, RunSound, RegistrationDue, Bytes, BytesOf, EntryUnder
        <4>2. CASE ~RegistrationDue(pc)
          BY <1>4, <3>1, <4>2 DEF IInv, EntrySound
        <4> QED BY <4>1, <4>2
      <3>2. ASSUME edits = 0, plan.registration = "remove", ~CachesToClean, config' = "prior"
            PROVE  AllReached("prior")
        <4>1. CASE RegistrationDue(pc)
          BY <1>1, <1>4, <3>2, <4>1
             DEF IInv, RunSound, RegistrationDue, Bytes, BytesOf, EntryUnder
        <4>2. CASE ~RegistrationDue(pc)
          BY <1>4, <3>2, <4>2 DEF IInv, EntrySound
        <4> QED BY <4>1, <4>2
      <3> QED BY <1>4, <3>1, <3>2, UnitsStay DEF EntrySound
    <2>9. JournalHonest'
      <3>1. journal.registration = "complete" /\ edits = 0 => config' = Bytes(journal.goal)
        BY <1>2, <1>4 DEF IInv, JournalHonest
      <3> QED BY <1>4, <3>1 DEF IInv, JournalHonest, Desired, Bytes
    <2>10. AdmissionSound'
      BY <1>2, <1>4 DEF AdmissionSound
    <2> QED BY <2>4, <2>5, <2>6, <2>7, <2>8, <2>9, <2>10 DEF IInv
  <1> QED BY <1>3, <1>4 DEF EnsureRegistration, disk, bounds

LEMMA JournalRegistrationKeeps ==
  ASSUME IInv, NEW pc \in {"before", "after"}, JournalRegistration(pc)
  PROVE  IInv'
PROOF
  <1>1. UNCHANGED <<plan, objects, config, admission, published, answer, crashes, edits>>
    BY DEF JournalRegistration, bounds
  <1>2. /\ run.pc = JournalOf(pc) /\ run.pc \in {"journal before", "journal after"}
        /\ run' = [run EXCEPT !.pc = Following(pc)]
        /\ journal' = [journal EXCEPT !.started = TRUE, !.registration = "complete"]
    BY DEF JournalRegistration, JournalOf, Continue
  <1>3. Following(pc) \in PcOfRun
        /\ \/ run.pc = "journal before" /\ Following(pc) = "unit"
           \/ run.pc = "journal after" /\ Following(pc) = "verify"
    BY <1>2 DEF Following, JournalOf, PcOfRun
  <1>4. /\ run' \in [pc : PcOfRun, goal : Goals, index : 1..Len(Units)]
        /\ run'.pc = Following(pc) /\ run'.goal = run.goal /\ run'.index = run.index
    BY <1>2, <1>3 DEF IInv, Shape
  <1>5. /\ journal' \in [goal : Goals, started : BOOLEAN,
                         units : [UnitIds -> Phases], registration : Phases]
        /\ journal'.goal = journal.goal /\ journal'.units = journal.units
    BY <1>2 DEF IInv, Shape, Phases
  <1>6. run.goal = journal.goal /\ admission = "recovery_required"
    BY <1>2 DEF IInv, RunSound
  <1>7. Shape'
    BY <1>1, <1>4, <1>5 DEF IInv, Shape
  <1>8. UnitsSound'
    BY <1>1, <1>5 DEF IInv, UnitsSound
  <1>9. RunSound'
    <2>1. CASE run.pc = "journal before" /\ Following(pc) = "unit"
      <3>1. Position(Unit, run.pc, objects[Unit], plan.units[Unit], run.goal)'
        BY <1>4, <2>1, NothingKnown
      <3>2. run'.index = 1
        BY <1>4, <2>1 DEF IInv, RunSound
      <3>3. (\A k \in 1..(run.index - 1) : Reached(UnitAt(run.goal, k), run.goal))'
        BY <3>2
      <3> QED BY <1>1, <1>4, <1>5, <1>6, <2>1, <3>1, <3>2, <3>3 DEF RunSound, UnitPlaces
    <2>2. CASE run.pc = "journal after" /\ Following(pc) = "verify"
      <3>1. AllReached(run.goal)
        BY <2>2 DEF IInv, RunSound
      <3>2. AllReached(run.goal)'
        BY <1>1, <1>4, <3>1 DEF AllReached, Reached, Desired
      <3> QED BY <1>1, <1>4, <1>5, <1>6, <2>2, <3>2 DEF RunSound, UnitPlaces
    <2> QED BY <1>3, <2>1, <2>2
  <1>10. plan.registration # "none" => config = Bytes(run.goal)
    BY <1>2 DEF IInv, ConfigSound
  <1>11. ConfigSound'
    BY <1>1, <1>4, <1>10 DEF IInv, ConfigSound, EntryUnder, Bytes, BytesOf
  <1>12. EntrySound'
    BY <1>1, UnitsStay DEF IInv, EntrySound
  <1>13. config = Bytes(run.goal)
    BY <1>10 DEF IInv, ConfigSound, Bytes, BytesOf
  <1>14. JournalHonest'
    BY <1>1, <1>5, <1>6, <1>13 DEF IInv, JournalHonest, Desired, Bytes
  <1>15. AdmissionSound'
    BY <1>1, <1>6 DEF AdmissionSound
  <1> QED BY <1>7, <1>8, <1>9, <1>11, <1>12, <1>14, <1>15 DEF IInv

\* What a run finds when it verifies its outcome.
LEMMA RunIsDone ==
  ASSUME IInv, run.pc \in {"verify", "publish"}
  PROVE  /\ AllReached(run.goal) /\ config = Bytes(run.goal)
         /\ run.goal = journal.goal /\ run.goal \in Goals /\ admission = "recovery_required"
PROOF
  <1>1. plan.registration # "none" => config = Bytes(run.goal)
    BY DEF IInv, ConfigSound
  <1>2. config = Bytes(run.goal)
    BY <1>1 DEF IInv, ConfigSound, Bytes, BytesOf
  <1> QED BY <1>2 DEF IInv, RunSound, Shape

LEMMA VerifyKeeps == ASSUME IInv, Verify PROVE IInv'
PROOF
  <1>1. ReachedGoal
    BY RunIsDone DEF Verify, ReachedGoal, AllReached, Reached
  <1>2. UNCHANGED <<plan, objects, config, journal, admission, published, answer, crashes, edits>>
        /\ run' = [run EXCEPT !.pc = "publish"] /\ run.pc = "verify"
    BY <1>1 DEF Verify, Continue, disk, bounds
  <1>3. /\ run' \in [pc : PcOfRun, goal : Goals, index : 1..Len(Units)]
        /\ run'.pc = "publish" /\ run'.goal = run.goal
    BY <1>2 DEF IInv, Shape, PcOfRun
  <1>4. Shape'
    BY <1>2, <1>3 DEF IInv, Shape
  <1>5. UnitsSound'
    BY <1>2 DEF IInv, UnitsSound
  <1>6. RunSound'
    <2>1. AllReached(run.goal)
      BY <1>2, RunIsDone
    <2>2. AllReached(run.goal)'
      BY <1>2, <1>3, <2>1 DEF AllReached, Reached, Desired
    <2> QED BY <1>2, <1>3, <2>2 DEF IInv, RunSound, UnitPlaces
  <1>7. ConfigSound'
    BY <1>2, <1>3, RunIsDone DEF IInv, ConfigSound, EntryUnder, Bytes, BytesOf
  <1>8. EntrySound' /\ AdmissionSound'
    BY <1>2, UnitsStay DEF IInv, EntrySound, AdmissionSound
  <1>9. JournalHonest'
    BY <1>2 DEF IInv, JournalHonest, Desired, Bytes
  <1> QED BY <1>4, <1>5, <1>6, <1>7, <1>8, <1>9 DEF IInv

LEMMA RecordsAtMostThree ==
  ASSUME NEW goal
  PROVE  RecordsOf(goal) \in {0, 3}
PROOF
  BY DEF RecordsOf

LEMMA PublishRecordKeeps == ASSUME IInv, PublishRecord PROVE IInv'
PROOF
  <1>1. UNCHANGED <<plan, objects, config, journal, admission, run, answer, crashes, edits>>
    BY DEF PublishRecord, bounds
  <1>2. run.goal \in Goals /\ admission = "recovery_required"
    BY RunIsDone DEF PublishRecord
  <1>3. published' \in [Goals -> 0..3]
    <2>1. published \in [Goals -> 0..3] /\ published[run.goal] < RecordsOf(run.goal)
          /\ published' = [published EXCEPT ![run.goal] = published[run.goal] + 1]
      BY DEF PublishRecord, IInv, Shape
    <2>2. published[run.goal] + 1 \in 0..3
      BY <1>2, <2>1, RecordsAtMostThree
    <2> QED BY <1>2, <2>1, <2>2
  <1>4. Shape'
    BY <1>1, <1>3 DEF IInv, Shape
  <1>5. UnitsSound' /\ JournalHonest'
    BY <1>1 DEF IInv, UnitsSound, JournalHonest, Desired, Bytes
  <1>6. RunSound'
    BY <1>1 DEF IInv, RunSound, Reached, AllReached, Desired, Unit, UnitAt
  <1>7. ConfigSound'
    BY <1>1 DEF IInv, ConfigSound, EntryUnder, Bytes, BytesOf
  <1>8. EntrySound'
    BY <1>1, UnitsStay DEF IInv, EntrySound
  <1>9. AdmissionSound'
    BY <1>1, <1>2 DEF AdmissionSound
  <1> QED BY <1>4, <1>5, <1>6, <1>7, <1>8, <1>9 DEF IInv

LEMMA AdmitKeeps == ASSUME IInv, Admit PROVE IInv'
PROOF
  <1>1. /\ AllReached(run.goal) /\ config = Bytes(run.goal)
        /\ run.goal = journal.goal /\ run.goal \in Goals /\ admission = "recovery_required"
        /\ published[run.goal] = RecordsOf(run.goal)
    BY RunIsDone DEF Admit
  <1>2. TerminalVerified(run.goal)
    BY <1>1, TerminalIs DEF IInv
  <1>3. /\ admission' = run.goal /\ run' = NoRun /\ answer' = run.goal
        /\ UNCHANGED <<plan, objects, config, journal, published, crashes, edits>>
    BY <1>2 DEF Admit, Stop, bounds
  <1>4. run.goal \in Answers \ {"blocked", "blocked by unit"}
    BY <1>1 DEF Answers, Goals
  <1>5. Shape'
    BY <1>1, <1>3, <1>4, NoRunIs DEF IInv, Shape
  <1>6. UnitsSound' /\ JournalHonest'
    BY <1>3 DEF IInv, UnitsSound, JournalHonest, Desired, Bytes
  <1>7. RunSound'
    BY <1>3, NoRunIs DEF RunSound
  <1>8. ConfigSound'
    BY <1>3, NoRunIs DEF IInv, ConfigSound
  <1>9. EntrySound'
    BY <1>3, UnitsStay DEF IInv, EntrySound
  <1>10. AdmissionSound'
    <2>1. PICK g : g = run.goal
      OBVIOUS
    <2>2. AllReached(g)' /\ Bytes(g)' = Bytes(g) /\ RecordsOf(g)' = RecordsOf(g)
      BY <1>1, <1>3, <2>1, UnitsStay
    <2>3. admission' = g /\ journal'.goal = g /\ published'[g] = RecordsOf(g) /\ config' = Bytes(g)
      BY <1>1, <1>3, <2>1
    <2>4. AllReached(admission)' /\ (config = Bytes(admission))'
          /\ (published[admission] = RecordsOf(admission))'
      BY <2>2, <2>3 DEF AllReached, Reached, Desired, Bytes, RecordsOf
    <2> QED BY <2>3, <2>4 DEF AdmissionSound
  <1> QED BY <1>5, <1>6, <1>7, <1>8, <1>9, <1>10 DEF IInv

LEMMA EditConfigKeeps == ASSUME IInv, EditConfig PROVE IInv'
PROOF
  <1>1. /\ UNCHANGED <<plan, objects, journal, admission, published, run, answer, crashes>>
        /\ config' = "edited" /\ edits' = edits + 1 /\ edits < MaxEdits
        /\ run.pc = "idle" /\ admission = "recovery_required" /\ plan.registration # "none"
    BY DEF EditConfig
  <1>2. edits \in 0..MaxEdits /\ MaxEdits \in Nat
    BY BoundsAssumption DEF IInv, Shape
  <1>3. edits' \in 0..MaxEdits /\ edits' # 0
    BY <1>1, <1>2
  <1>4. Shape'
    BY <1>1, <1>3 DEF IInv, Shape
  <1>5. UnitsSound' /\ JournalHonest'
    BY <1>1, <1>3 DEF IInv, UnitsSound, JournalHonest, Desired
  <1>6. RunSound'
    BY <1>1 DEF RunSound, UnitPlaces
  <1>7. ConfigSound'
    BY <1>1, <1>3 DEF ConfigSound, Beyond
  <1>8. EntrySound' /\ AdmissionSound'
    BY <1>1, <1>3 DEF EntrySound, AdmissionSound
  <1> QED BY <1>4, <1>5, <1>6, <1>7, <1>8 DEF IInv

\* A certified transaction's configuration has nothing to restore.
LEMMA EditedIsPending ==
  ASSUME IInv, config = "edited"
  PROVE  edits # 0 /\ plan.registration # "none" /\ admission = "recovery_required"
PROOF
  <1>1. edits # 0 /\ plan.registration # "none"
    BY DEF IInv, ConfigSound
  <1>2. ASSUME admission # "recovery_required" PROVE FALSE
    <2>1. admission \in Goals /\ config = Bytes(admission)
      BY <1>2 DEF IInv, AdmissionSound, Shape
    <2> QED BY <1>1, <2>1, RegistrationGoal DEF IInv, Goals
  <1> QED BY <1>1, <1>2

LEMMA RestoreConfigKeeps == ASSUME IInv, RestoreConfig PROVE IInv'
PROOF
  <1>1. /\ UNCHANGED <<plan, objects, journal, admission, published, run, answer, crashes, edits>>
        /\ run.pc = "idle" /\ config = "edited" /\ config' \in {Bytes(g) : g \in Goals}
    BY DEF RestoreConfig, bounds
  <1>2. edits # 0 /\ plan.registration # "none" /\ admission = "recovery_required"
    BY <1>1, EditedIsPending
  <1>3. config' \in Goals
    BY <1>1, <1>2, RegistrationGoal DEF IInv
  <1>4. Shape'
    BY <1>1, <1>3 DEF IInv, Shape, Goals
  <1>5. UnitsSound' /\ JournalHonest'
    BY <1>1, <1>2 DEF IInv, UnitsSound, JournalHonest, Desired
  <1>6. RunSound'
    BY <1>1 DEF RunSound, UnitPlaces
  <1>7. ConfigSound'
    BY <1>1, <1>2 DEF ConfigSound, Beyond
  <1>8. EntrySound' /\ AdmissionSound'
    BY <1>1, <1>2 DEF EntrySound, AdmissionSound
  <1> QED BY <1>4, <1>5, <1>6, <1>7, <1>8 DEF IInv

LEMMA InitIsSound == Init => IInv
PROOF
  <1> SUFFICES ASSUME Init PROVE IInv
    OBVIOUS
  <1>1. plan \in Plans
    BY DEF Init
  <1>2. ASSUME NEW u \in UnitIds
        PROVE  /\ objects[u] \in Paths
               /\ PathsSound(u, objects[u], plan.units[u], "target")
               /\ objects[u].dest = plan.units[u].initial
    <2> DEFINE w == plan.units[u]
    <2>1. w.initial \in Artifact
      BY <1>1, PlanOfUnit DEF Plannable
    <2> HIDE DEF w
    <2>2. objects[u] = [dest |-> w.initial, backup |-> Absent, displaced |-> Absent,
                        stage |-> Absent, partial |-> FALSE]
      BY DEF Init, w
    <2>3. PathsSound(u, objects[u], w, "target")
      BY <2>2, AbsentIs DEF PathsSound
    <2> QED BY <2>1, <2>2, <2>3, AbsentIs DEF Paths, w
  <1>3. objects \in [UnitIds -> Paths]
    BY <1>2 DEF Init
  <1>4. /\ journal \in [goal : Goals, started : BOOLEAN,
                        units : [UnitIds -> Phases], registration : Phases]
        /\ journal.goal = "target" /\ journal.registration = "pending"
        /\ \A u \in UnitIds : journal.units[u] = "pending"
    BY DEF Init, Pristine, Goals, Phases
  <1>5. 1 \in 1..Len(Units)
    BY UnitsCovered
  <1>6. Shape
    <2>1. run \in [pc : PcOfRun, goal : Goals, index : 1..Len(Units)] /\ published \in [Goals -> 0..3]
      BY <1>5 DEF Init, NoRun, PcOfRun, Goals
    <2>2. answer \in Answers \ {"blocked", "blocked by unit"}
          /\ crashes \in 0..MaxCrashes /\ edits \in 0..MaxEdits
      BY BoundsAssumption DEF Init, Answers
    <2> QED BY <1>1, <1>3, <1>4, <2>1, <2>2 DEF Shape, Init
  <1>7. UnitsSound /\ JournalHonest /\ AdmissionSound
    BY <1>2, <1>4 DEF Init, UnitsSound, JournalHonest, AdmissionSound
  <1>8. RunSound /\ ConfigSound
    BY DEF Init, NoRun, RunSound, ConfigSound, UnitPlaces, Beyond
  <1>9. EntrySound
    <2>1. ASSUME ~CachesToClean PROVE AllReached("prior")
      BY <1>2, <2>1 DEF CachesToClean, AllReached, Reached, Desired
    <2> QED BY <2>1 DEF Init, EntrySound
  <1> QED BY <1>6, <1>7, <1>8, <1>9 DEF IInv

LEMMA StepKeeps == IInv /\ [Next]_vars => IInv'
PROOF
  <1> SUFFICES ASSUME IInv, [Next]_vars PROVE IInv'
    OBVIOUS
  <1>1. ASSUME NEW abort \in BOOLEAN, NEW decision \in Decisions, Invoke(abort, decision)
        PROVE  IInv'
    BY <1>1, InvokeKeeps
  <1>2. CASE RunStep
    <2>1. ASSUME NEW pc \in {"before", "after"}, EnsureRegistration(pc) \/ JournalRegistration(pc)
          PROVE  IInv'
      BY <2>1, EnsureRegistrationKeeps, JournalRegistrationKeeps
    <2>2. CASE EnterUnit \/ DiscardStage \/ DismantleStage \/ PlaceUnit \/ StageUnit
      BY <2>2, EnterUnitKeeps, DiscardStageKeeps, DismantleStageKeeps, PlaceUnitKeeps, StageUnitKeeps
    <2>3. CASE FillStage
      BY <2>3, FillFileKeeps, FillDirectoryKeeps DEF FillStage
    <2>4. CASE ActivateStage \/ CheckUnit \/ JournalUnit
      BY <2>4, ActivateStageKeeps, CheckUnitKeeps, JournalUnitKeeps
    <2>5. CASE SelectPrior \/ Verify \/ PublishRecord \/ Admit
      BY <2>5, SelectPriorKeeps, VerifyKeeps, PublishRecordKeeps, AdmitKeeps
    <2> QED BY <1>2, <2>1, <2>2, <2>3, <2>4, <2>5 DEF RunStep
  <1>3. CASE Crash \/ EditConfig \/ RestoreConfig
    BY <1>3, CrashKeeps, EditConfigKeeps, RestoreConfigKeeps
  <1>4. CASE UNCHANGED vars
    <2>1. UNCHANGED <<plan, objects, config, journal, admission, published, run, answer,
                      crashes, edits>>
      BY <1>4 DEF vars
    <2>2. Shape' /\ UnitsSound' /\ JournalHonest'
      BY <2>1 DEF IInv, Shape, UnitsSound, JournalHonest, Desired, Bytes
    <2>3. RunSound'
      BY <2>1 DEF IInv, RunSound, Reached, AllReached, Desired, Unit, UnitAt
    <2>4. ConfigSound'
      BY <2>1 DEF IInv, ConfigSound, EntryUnder, Bytes, BytesOf
    <2>5. EntrySound' /\ AdmissionSound'
      BY <2>1, UnitsStay DEF IInv, EntrySound, AdmissionSound
    <2> QED BY <2>2, <2>3, <2>4, <2>5 DEF IInv
  <1> QED BY <1>1, <1>2, <1>3, <1>4 DEF Next

-----------------------------------------------------------------------------
(* The theorems.                                                           *)

\* In every reachable state the paths of each unit are such as the next run recognises,
\* and a run knows what its place takes for granted: the inductive invariant.
THEOREM RecoveryInvariant == Spec => []IInv
PROOF
  BY InitIsSound, StepKeeps, PTL DEF Spec

\* Recovery never refuses what an earlier recovery of the same transaction left on the
\* disk, whatever it was interrupted in and in whichever direction it is continued.
THEOREM RecoveryNeverSelfBlocked == Spec => []NeverSelfBlocked
PROOF
  <1>1. IInv => NeverSelfBlocked
    BY DEF IInv, Shape, NeverSelfBlocked
  <1> QED BY <1>1, RecoveryInvariant, PTL

LEMMA ItemsAreTheUnits ==
  ASSUME IInv, NEW u \in UnitIds, NEW f \in {"dest", "backup", "displaced", "stage"}
  PROVE  /\ objects[u][f].exists \in BOOLEAN
         /\ objects[u][f].items \subseteq Items(u) \cup {PartialOf(i) : i \in Items(u)}
PROOF
  <1> DEFINE w == plan.units[u]
             o == objects[u]
             all == Items(u) \cup {PartialOf(i) : i \in Items(u)}
  <1>1. /\ Plannable(u, w.initial) /\ Plannable(u, w.prior) /\ Plannable(u, w.target)
    BY PlanOfUnit DEF IInv, Shape
  <1>2. o \in Paths /\ PathsSound(u, o, w, journal.goal)
    BY DEF IInv, Shape, UnitsSound
  <1>3. \A state : Plannable(u, state) => state.items \subseteq all
    BY DEF Plannable
  <1>4. ASSUME NEW state, NEW stage, Plannable(u, state), Copied(u, stage, state)
        PROVE  stage.items \subseteq all
    <2>1. PartialItems(state) \subseteq all
      BY <1>4 DEF Plannable, PartialItems
    <2>2. state.items \subseteq all
      BY <1>3, <1>4
    <2> QED BY <1>4, <2>1, <2>2 DEF Copied, PartialTreeKnown
  <1> HIDE DEF all
  <1>5. Absent.items \subseteq all
    BY AbsentIs
  <1>6. o.dest.items \subseteq all /\ o.backup.items \subseteq all /\ o.displaced.items \subseteq all
    BY <1>1, <1>2, <1>3, <1>5 DEF PathsSound
  <1>7. o.stage.items \subseteq all
    BY <1>1, <1>2, <1>4, <1>5 DEF PathsSound
  <1>8. o[f].exists \in BOOLEAN
    BY <1>2 DEF Paths, Artifact
  <1>9. o[f].items \subseteq all
    BY <1>6, <1>7
  <1> QED BY <1>8, <1>9 DEF all

LEMMA TypesAreSound == IInv => TypeOK
PROOF
  <1> SUFFICES ASSUME IInv PROVE TypeOK
    OBVIOUS
  <1>1. ASSUME NEW u \in UnitIds
        PROVE  /\ DOMAIN objects[u] = {"dest", "backup", "displaced", "stage", "partial"}
               /\ objects[u].partial \in BOOLEAN
    <2>1. objects[u] \in Paths
      BY DEF IInv, Shape
    <2> QED BY <2>1 DEF Paths
  <1> QED BY <1>1, ItemsAreTheUnits DEF IInv, Shape, TypeOK

\* The entry names artifacts that form one set, as the units are moved only while it is
\* not there or where it does not matter.
LEMMA EntryIsCoherent == IInv => EntryNeverDangles
PROOF
  <1> SUFFICES ASSUME IInv, EntryPresent, edits = 0,
                      plan.registration = "add"
                      \/ (plan.registration = "remove" /\ ~CachesToClean)
               PROVE  \E name \in {"initial", "prior", "target"} :
                         \A u \in UnitIds : objects[u].dest = plan.units[u][name]
    BY DEF EntryNeverDangles
  <1>1. PICK g \in Goals : config = Bytes(g) /\ EntryUnder(g)
    BY DEF EntryPresent
  <1>2. CASE plan.registration = "add"
    <2>1. config = "target"
      BY <1>1, <1>2 DEF EntryUnder, Bytes, BytesOf
    <2> QED BY <1>2, <2>1 DEF IInv, EntrySound, AllReached, Reached, Desired
  <1>3. CASE plan.registration = "remove" /\ ~CachesToClean
    <2>1. config = "prior"
      BY <1>1, <1>3 DEF EntryUnder, Bytes, BytesOf
    <2> QED BY <1>3, <2>1 DEF IInv, EntrySound, AllReached, Reached, Desired
  <1> QED BY <1>2, <1>3

\* At every moment of every run what the user had is at its place or whole in the backup,
\* and the Council entry does not name artifacts that are half replaced.
THEOREM DiskAlwaysSound == Spec => []DiskSound
PROOF
  <1>1. IInv => InitialPreserved
    <2> SUFFICES ASSUME IInv, NEW u \in UnitIds, plan.units[u].initial.exists
                 PROVE  plan.units[u].initial \in {objects[u].dest, objects[u].backup}
      BY DEF InitialPreserved
    <2>1. PathsSound(u, objects[u], plan.units[u], journal.goal)
      BY DEF IInv, UnitsSound
    <2> QED BY <2>1, AbsentIs DEF PathsSound
  <1>2. IInv => DiskSound
    BY <1>1, TypesAreSound, EntryIsCoherent DEF DiskSound
  <1> QED BY <1>2, RecoveryInvariant, PTL

\* What the journal calls complete is so, and a terminal admission can be verified again
\* from the disk alone.
THEOREM RecordsAlwaysSound == Spec => []RecordsSound
PROOF
  <1>1. ASSUME IInv, admission # "recovery_required" PROVE TerminalVerified(admission)
    <2>1. admission \in Goals
      BY <1>1 DEF IInv, Shape
    <2> QED BY <1>1, <2>1, TerminalIs DEF IInv, AdmissionSound
  <1>2. IInv => RecordsSound
    BY <1>1 DEF IInv, RecordsSound, TerminalReaffirmed
  <1> QED BY <1>2, RecoveryInvariant, PTL

-----------------------------------------------------------------------------
(* The refinement of LifecycleContract.                                    *)

LEMMA InitRefines == Init => Contract!Init
PROOF
  BY DEF Init, Contract!Init, Pristine

\* Most steps are not visible to the operator: the plan, the goal of the journal and the
\* admission stay, and nothing is certified yet or what is certified stays.
LEMMA HiddenSteps ==
  ASSUME UNCHANGED <<plan, admission>>, journal'.goal = journal.goal,
         admission = "recovery_required" \/ UNCHANGED <<objects, config>>
  PROVE  UNCHANGED Contract!vars
PROOF
  <1>1. WantedBy(plan)' = WantedBy(plan)
    BY DEF WantedBy, BytesOf
  <1>2. (IF admission = "recovery_required" THEN "pending" ELSE admission)'
        = IF admission = "recovery_required" THEN "pending" ELSE admission
    OBVIOUS
  <1>3. (IF admission = "recovery_required" THEN {} ELSE Live)'
        = IF admission = "recovery_required" THEN {} ELSE Live
    BY DEF Live
  <1> QED BY <1>1, <1>2, <1>3 DEF Contract!vars

LEMMA SelectionRefines == ASSUME IInv, SelectPrior PROVE Contract!SelectPrior
PROOF
  <1>1. admission = "recovery_required" /\ admission' = admission /\ plan' = plan
    BY DEF IInv, RunSound, SelectPrior
  <1>2. journal'.goal = "prior"
    BY DEF SelectPrior, PriorSelected
  <1>3. WantedBy(plan)' = WantedBy(plan)
    BY <1>1 DEF WantedBy, BytesOf
  <1> QED BY <1>1, <1>2, <1>3 DEF Contract!SelectPrior

\* At the moment a transaction is certified every artifact is as its outcome plans it.
LEMMA AdmissionRefines == ASSUME IInv, Admit PROVE Contract!Settle
PROOF
  <1>1. /\ AllReached(run.goal) /\ config = Bytes(run.goal)
        /\ run.goal = journal.goal /\ run.goal \in Goals /\ admission = "recovery_required"
    BY RunIsDone DEF Admit
  <1>2. TerminalVerified(run.goal)
    BY <1>1, TerminalIs DEF IInv, Admit
  <1>3. admission' = run.goal /\ UNCHANGED <<plan, objects, config, journal>>
    BY <1>2 DEF Admit
  <1>4. run.goal # "recovery_required"
    BY <1>1 DEF Goals
  <1>5. WantedBy(plan)' = WantedBy(plan)
    BY <1>3 DEF WantedBy, BytesOf
  <1>6. Live' = WantedBy(plan)[journal.goal]
    <2>1. WantedBy(plan)[journal.goal]
          = {<<u, Clean(plan.units[u][journal.goal])>> : u \in UnitIds}
            \cup {<<"config", BytesOf(plan.registration, journal.goal)>>}
      BY <1>1 DEF WantedBy
    <2>2. \A u \in UnitIds : objects[u].dest = plan.units[u][journal.goal]
      BY <1>1 DEF AllReached, Reached, Desired
    <2>3. config = BytesOf(plan.registration, journal.goal)
      BY <1>1 DEF Bytes
    <2>4. Live' = {<<u, Clean(objects[u].dest)>> : u \in UnitIds} \cup {<<"config", config>>}
      BY <1>3 DEF Live
    <2>5. {<<u, Clean(objects[u].dest)>> : u \in UnitIds}
          = {<<u, Clean(plan.units[u][journal.goal])>> : u \in UnitIds}
      BY <2>2
    <2> QED BY <2>1, <2>3, <2>4, <2>5
  <1> QED BY <1>1, <1>3, <1>4, <1>5, <1>6 DEF Contract!Settle

LEMMA StepRefines ==
  ASSUME IInv, [Next]_vars
  PROVE  [Contract!Next]_(Contract!vars)
PROOF
  <1>1. ASSUME NEW abort \in BOOLEAN, NEW decision \in Decisions, Invoke(abort, decision)
        PROVE  UNCHANGED Contract!vars
    <2>1. UNCHANGED <<plan, disk>>
      BY <1>1 DEF Invoke, Refuse
    <2> QED BY <2>1, HiddenSteps DEF disk
  <1>2. ASSUME NEW o, NEW pc, UnitStep(o, pc), run.pc \in UnitPlaces
        PROVE  UNCHANGED Contract!vars
    <2>1. UNCHANGED <<plan, journal, admission>> /\ admission = "recovery_required"
      BY <1>2 DEF UnitStep, IInv, RunSound, UnitPlaces
    <2> QED BY <2>1, HiddenSteps
  <1>3. ASSUME NEW why, Refuse(why) PROVE UNCHANGED Contract!vars
    <2>1. UNCHANGED <<plan, objects, config, journal, admission>>
      BY <1>3 DEF Refuse, disk
    <2> QED BY <2>1, HiddenSteps
  <1>4. CASE EnterUnit
    BY <1>2, <1>3, <1>4 DEF EnterUnit, UnitPlaces
  <1>5. CASE DiscardStage
    BY <1>2, <1>3, <1>5 DEF DiscardStage, UnitPlaces
  <1>6. CASE DismantleStage
    BY <1>2, <1>6 DEF DismantleStage, UnitPlaces
  <1>7. CASE PlaceUnit
    BY <1>2, <1>3, <1>7 DEF PlaceUnit, UnitPlaces
  <1>8. CASE StageUnit
    BY <1>2, <1>3, <1>8 DEF StageUnit, UnitPlaces
  <1>9. CASE FillStage
    BY <1>2, <1>3, <1>9 DEF FillStage, FillFile, FillDirectory, UnitPlaces
  <1>10. CASE ActivateStage \/ CheckUnit
    BY <1>2, <1>3, <1>10 DEF ActivateStage, CheckUnit, UnitPlaces
  <1>11. CASE JournalUnit
    <2>1. UNCHANGED <<plan, objects, config, admission>>
      BY <1>11 DEF JournalUnit
    <2>2. journal'.goal = journal.goal
      BY <1>11 DEF JournalUnit, IInv, Shape
    <2> QED BY <2>1, <2>2, HiddenSteps
  <1>12. ASSUME NEW pc \in {"before", "after"}, EnsureRegistration(pc)
         PROVE  UNCHANGED Contract!vars
    <2>1. admission = "recovery_required"
      BY <1>12 DEF EnsureRegistration, IInv, RunSound
    <2>2. UNCHANGED <<plan, journal, admission>>
      BY <1>12 DEF EnsureRegistration, disk
    <2> QED BY <2>1, <2>2, HiddenSteps
  <1>13. ASSUME NEW pc \in {"before", "after"}, JournalRegistration(pc)
         PROVE  UNCHANGED Contract!vars
    <2>1. UNCHANGED <<plan, objects, config, admission>>
      BY <1>13 DEF JournalRegistration
    <2>2. journal'.goal = journal.goal
      BY <1>13 DEF JournalRegistration, IInv, Shape
    <2> QED BY <2>1, <2>2, HiddenSteps
  <1>14. CASE Verify
    <2>1. UNCHANGED <<plan, objects, config, journal, admission>>
      BY <1>14 DEF Verify, Refuse, disk
    <2> QED BY <2>1, HiddenSteps
  <1>15. CASE PublishRecord \/ Crash
    <2>1. UNCHANGED <<plan, objects, config, journal, admission>>
      BY <1>15 DEF PublishRecord, Crash, disk
    <2> QED BY <2>1, HiddenSteps
  <1>16. CASE EditConfig
    <2>1. UNCHANGED <<plan, journal, admission>> /\ admission = "recovery_required"
      BY <1>16 DEF EditConfig
    <2> QED BY <2>1, HiddenSteps
  <1>17. CASE RestoreConfig
    <2>1. UNCHANGED <<plan, journal, admission>> /\ admission = "recovery_required"
      BY <1>17, EditedIsPending DEF RestoreConfig
    <2> QED BY <2>1, HiddenSteps
  <1>18. CASE UNCHANGED vars
    BY <1>18, HiddenSteps DEF vars
  <1>19. SelectPrior => Contract!Next
    BY SelectionRefines DEF Contract!Next
  <1>20. Admit => Contract!Next
    BY AdmissionRefines DEF Contract!Next
  <1> QED BY <1>1, <1>4, <1>5, <1>6, <1>7, <1>8, <1>9, <1>10, <1>11, <1>12, <1>13, <1>14, <1>15,
             <1>16, <1>17, <1>18, <1>19, <1>20 DEF Next, RunStep

\* The recoverer implements the contract: every crash, refusal and intermediate effect is
\* invisible to the operator, to whom the transaction settles once, on the selected
\* outcome, with every artifact as that outcome plans it.
THEOREM RecoveryImplementsContract == Spec => ImplementsContract
PROOF
  <1>1. Init => Contract!Init
    BY InitRefines
  <1>2. IInv /\ [Next]_vars => [Contract!Next]_(Contract!vars)
    BY StepRefines
  <1> QED BY <1>1, <1>2, RecoveryInvariant, PTL DEF Spec, ImplementsContract, Contract!Spec
=============================================================================
