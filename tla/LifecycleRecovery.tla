-------------------------- MODULE LifecycleRecovery --------------------------
(***************************************************************************)
(* The standalone recoverer (scripts/council_recover.py): from a published *)
(* intent to a terminal admission, one action per durable effect, with a   *)
(* crash or an exception between any two of them and any number of         *)
(* recoveries, with or without --abort, after it.                          *)
(*                                                                         *)
(* A transaction moves the managed units from their initial state to their *)
(* target state, or, once prior is selected, to their prior state.  For    *)
(* every unit it owns five more paths beside the destination: the two      *)
(* prepared objects (immutable, hence part of the plan), a backup of the   *)
(* initial artifact, a displaced artifact, a stage and, for files, a       *)
(* partial copy.  What has been done is not read from the journal but      *)
(* found out again from these paths by every run.                          *)
(*                                                                         *)
(* Simplifications.  The lease excludes other recoverers, so there is one. *)
(* Atomic replacement of metadata (_atomic_json, _atomic_bytes) is one     *)
(* step, as its leftovers are reclaimed unseen.  The identity checks of    *)
(* roots, lock and retained state (_guard) always succeed.  A transaction  *)
(* has at most one registration operation, as the planner builds them.     *)
(* The user edits the OpenCode configuration only while no run is under    *)
(* way, which is what the quiescent confirmation asserts.                  *)
(***************************************************************************)
EXTENDS Naturals, Sequences

CONSTANTS
    Units,        \* the unit ids in plan order
    Directories,  \* the units that are directories; the others are files
    Old, New,     \* [unit -> items]: the contents of two releases
    Cache,        \* items: compiled caches that a directory may hold besides
    MaxCrashes,   \* bound on crashes and exceptions
    MaxEdits      \* bound on the user's edits of the configuration

ASSUME UnitsAssumption == Units \in Seq(STRING) /\ Units # <<>>
ASSUME BoundsAssumption == MaxCrashes \in Nat /\ MaxEdits \in Nat

VARIABLES
    plan,         \* the prepared plan, never changed
    objects,      \* [unit -> its paths]
    config,       \* the OpenCode configuration: "prior", "target" or "edited"
    journal,      \* progress.json
    admission,    \* "recovery_required" or the goal whose outcome it states
    published,    \* [goal -> how many of its three immutable records exist]
    run,          \* the recoverer's memory; pc is "idle" when none runs
    answer,       \* what the last run reported
    crashes, edits

vars == <<plan, objects, config, journal, admission, published, run, answer, crashes, edits>>
disk == <<objects, config, journal, admission, published>>
bounds == <<crashes, edits>>

UnitIds == {Units[i] : i \in 1..Len(Units)}

(* A release has one content for each path.                                *)
ASSUME ContentsAssumption ==
    \A u \in UnitIds : \A items \in {Old[u], New[u]} :
        \A i, j \in items : i[1] = j[1] => i = j
Goals == {"target", "prior"}

-----------------------------------------------------------------------------
(* Artifacts: an item is a path with its contents; a file has one item.    *)

Absent == [exists |-> FALSE, items |-> {}]
Present(items) == [exists |-> TRUE, items |-> items]

PartialOf(item) == <<item[1], "partial">>
PartialItems(state) == {PartialOf(i) : i \in state.items}

Items(u) == Old[u] \union New[u] \union Cache
States(u) == {Absent} \union
             {Present(S) : S \in SUBSET (Items(u) \union {PartialOf(i) : i \in Items(u)})}

(* Whether a stage is an unfinished copy of a state: any part of it, and   *)
(* any of its partial files whatever they hold.                            *)
PartialTreeKnown(stage, state) ==
    stage.exists /\ stage.items \subseteq (state.items \union PartialItems(state))

Clean(state) == [state EXCEPT !.items = @ \ Cache]

-----------------------------------------------------------------------------
(* The plans the planner can build for the operations.                     *)

UnitPlan(initial, target) ==
    [initial |-> initial, prior |-> Clean(initial), target |-> target]

Installed(u) ==
    {Present(Old[u])} \union (IF u \in Directories THEN {Present(Old[u] \union Cache)} ELSE {})

(* A file that matches the release before it is managed is not claimed,    *)
(* and is left where it is.                                                *)
UnitPlans(kind, u) ==
    CASE kind = "install" ->
            {UnitPlan(Absent, Present(New[u]))} \union
            (IF u \in Directories THEN {} ELSE {UnitPlan(Present(New[u]), Present(New[u]))})
      [] kind = "upgrade" -> {UnitPlan(i, Present(New[u])) : i \in Installed(u)}
      [] kind = "uninstall" ->
            {UnitPlan(i, Absent) : i \in Installed(u)} \union
            (IF u \in Directories THEN {} ELSE {UnitPlan(Present(Old[u]), Present(Old[u]))})
      [] kind = "registration" -> {UnitPlan(i, Present(Old[u])) : i \in Installed(u)}

RegistrationsOf(kind) ==
    CASE kind = "uninstall" -> {"none", "remove"}
      [] kind = "registration" -> {"add", "remove", "keep"}
      [] OTHER -> {"none"}

Kinds == {"install", "upgrade", "uninstall", "registration"}

(* Only a first adoption has no receipt for its prior outcome and brings   *)
(* one along.                                                              *)
PlansOf(kind) ==
    [kind : {kind},
     units : {f \in [UnitIds -> UNION {UnitPlans(kind, u) : u \in UnitIds}] :
                 \A u \in UnitIds : f[u] \in UnitPlans(kind, u)},
     registration : RegistrationsOf(kind),
     priorReceipt : IF kind = "install" THEN BOOLEAN ELSE {FALSE}]

Plans == UNION {PlansOf(k) : k \in {"install", "upgrade", "uninstall", "registration"}}

(* Whether the configuration holds the Council entry under a goal, and     *)
(* which bytes it has: an operation on a matching entry changes nothing.   *)
EntryUnder(goal) == \/ plan.registration = "keep"
                    \/ plan.registration = "add" /\ goal = "target"
                    \/ plan.registration = "remove" /\ goal = "prior"
BytesOf(registration, goal) == IF registration \in {"none", "keep"} THEN "prior" ELSE goal
Bytes(goal) == BytesOf(plan.registration, goal)

Desired(u, goal) == plan.units[u][goal]
UnitAt(goal, i) == IF goal = "target" THEN Units[i] ELSE Units[Len(Units) + 1 - i]

-----------------------------------------------------------------------------
NoRun == [pc |-> "idle", goal |-> "target", index |-> 1]

Phases == {"pending", "complete"}
Pristine == [goal |-> "target", started |-> FALSE,
             units |-> [u \in UnitIds |-> "pending"], registration |-> "pending"]

(* The state just after the intent: nothing has been moved yet and the     *)
(* admission names the transaction.                                        *)
Init == /\ plan \in Plans
        /\ objects = [u \in UnitIds |->
                         [dest |-> plan.units[u].initial, backup |-> Absent,
                          displaced |-> Absent, stage |-> Absent, partial |-> FALSE]]
        /\ config = "prior"
        /\ journal = Pristine
        /\ admission = "recovery_required"
        /\ published = [g \in Goals |-> 0]
        /\ run = NoRun
        /\ answer = "none"
        /\ crashes = 0
        /\ edits = 0

Continue(pc) == run' = [run EXCEPT !.pc = pc]
Stop(why) == run' = NoRun /\ answer' = why

(* A check that fails ends the run and leaves the disk as it is.           *)
Refuse(why) == Stop(why) /\ UNCHANGED <<plan, disk, bounds>>

-----------------------------------------------------------------------------
(* Starting a run.                                                         *)

(* The immutable records a goal publishes: source manifest, reader support *)
(* and receipt.  A prior outcome that has a receipt publishes none.        *)
RecordsOf(goal) == IF goal = "target" \/ plan.priorReceipt THEN 3 ELSE 0

(* What a certifying receipt is verified against.                          *)
TerminalVerified(goal) ==
    /\ published[goal] = RecordsOf(goal)
    /\ \A u \in UnitIds : Clean(objects[u].dest) = Clean(Desired(u, goal))
    /\ plan.registration # "none" => config = Bytes(goal)

(* A plan that touches the configuration wants a fresh confirmation; the   *)
(* one it was prepared with is good until its journal has been written.    *)
QuiescentOK_PreparedOnly(decision, started) ==
    \/ plan.registration = "none"
    \/ decision # "none" /\ ~started

QuiescentOK(decision, started) ==
    \/ plan.registration = "none"
    \/ decision = "fresh"
    \/ decision = "admitted" /\ ~started

(* Abort selects the prior goal, in memory at first.                       *)
GoalOf(abort) == IF abort THEN "prior" ELSE journal.goal

Invoke_TerminalToo(abort, decision) ==
    LET goal == GoalOf(abort)
    IN /\ run.pc = "idle"
       /\ QuiescentOK(decision, journal.started \/ goal # journal.goal)
       /\ run' = [pc |-> IF goal # journal.goal THEN "select" ELSE "before",
                  goal |-> goal, index |-> 1]
       /\ answer' = "none"
       /\ UNCHANGED <<plan, disk, bounds>>

Invoke(abort, decision) ==
    LET goal == GoalOf(abort)
        selecting == goal # journal.goal
    IN /\ run.pc = "idle"
       /\ IF admission # "recovery_required"
          THEN Refuse(IF abort THEN "refused"
                      ELSE IF TerminalVerified(admission) THEN admission ELSE "blocked")
          ELSE IF ~QuiescentOK(decision, journal.started \/ selecting)
          THEN Refuse("refused")
          ELSE /\ run' = [pc |-> IF selecting THEN "select" ELSE "before",
                          goal |-> goal, index |-> 1]
               /\ answer' = "none"
               /\ UNCHANGED <<plan, disk, bounds>>

PriorSelected_PhasesKept == [journal EXCEPT !.goal = "prior", !.started = TRUE]
PriorSelected == [goal |-> "prior", started |-> TRUE,
                  units |-> [u \in UnitIds |-> "pending"], registration |-> "pending"]

SelectPrior ==
    /\ run.pc = "select"
    /\ journal' = PriorSelected
    /\ Continue("before")
    /\ UNCHANGED <<plan, objects, config, admission, published, answer, bounds>>

-----------------------------------------------------------------------------
(* The configuration: an entry is removed before the artifacts it names    *)
(* change, and added after.                                                *)

RegistrationDue(pc) ==
    /\ plan.registration # "none"
    /\ IF EntryUnder(run.goal) THEN pc = "after" ELSE pc = "before"

Following(pc) == IF pc = "before" THEN "unit" ELSE "verify"
JournalOf(pc) == IF pc = "before" THEN "journal before" ELSE "journal after"

EnsureRegistration(pc) ==
    /\ run.pc = pc
    /\ IF ~RegistrationDue(pc)
       THEN Continue(Following(pc)) /\ UNCHANGED <<disk, answer>>
       ELSE IF config = "edited"
       THEN Stop("blocked by config") /\ UNCHANGED disk
       ELSE /\ config' = Bytes(run.goal)
            /\ Continue(JournalOf(pc))
            /\ UNCHANGED <<objects, journal, admission, published, answer>>
    /\ UNCHANGED <<plan, bounds>>

JournalRegistration(pc) ==
    /\ run.pc = JournalOf(pc)
    /\ journal' = [journal EXCEPT !.started = TRUE, !.registration = "complete"]
    /\ Continue(Following(pc))
    /\ UNCHANGED <<plan, objects, config, admission, published, answer, bounds>>

-----------------------------------------------------------------------------
(* One unit: u is the unit the run has come to, o its paths.               *)

Unit == UnitAt(run.goal, run.index)
Now == objects[Unit]
Goal == Desired(Unit, run.goal)
Planned(name) == plan.units[Unit][name]

BackupSound == IF Now.backup.exists
               THEN Now.backup = Planned("initial")
               ELSE ~(Planned("initial").exists /\ Now.dest = Goal /\ Planned("initial") # Goal)
DisplacedKnown == Now.displaced.exists =>
                      Now.displaced \in {Planned("prior"), Planned("target")}

(* A stage is whole, or for a directory possibly unfinished.               *)
CopyOf(state) == /\ state.exists
                 /\ \/ Now.stage = state
                    \/ Unit \in Directories /\ PartialTreeKnown(Now.stage, state)
StageKnown == Now.stage.exists =>
                  \/ CopyOf(Goal)
                  \/ run.goal = "prior" /\ CopyOf(Planned("target"))
PartialKnown == Now.partial => Unit \notin Directories

AuxiliariesKnown == BackupSound /\ DisplacedKnown /\ StageKnown /\ PartialKnown

SetUnit(paths) == objects' = [objects EXCEPT ![Unit] = paths]
UnitStep(paths, pc) ==
    /\ SetUnit(paths)
    /\ Continue(pc)
    /\ UNCHANGED <<plan, config, journal, admission, published, answer, bounds>>

(* Look at the auxiliaries; drop a partial copy an earlier run left.       *)
WithoutPartial_Left(paths) == paths
WithoutPartial(paths) == [paths EXCEPT !.partial = FALSE]

EnterUnit ==
    /\ run.pc = "unit"
    /\ IF ~AuxiliariesKnown
       THEN Refuse("blocked by unit")
       ELSE UnitStep(WithoutPartial(Now), "discard")

(* A stage of the abandoned target is dismantled, entry by entry.          *)
DiscardStage ==
    /\ run.pc = "discard"
    /\ IF run.goal = "prior" /\ Now.stage.exists /\ ~CopyOf(Goal)
       THEN IF CopyOf(Planned("target"))
            THEN UnitStep(Now, "dismantle")
            ELSE Refuse("blocked by unit")
       ELSE UnitStep(Now, "place")

DismantleStage ==
    /\ run.pc = "dismantle"
    /\ \/ \E item \in Now.stage.items :
             /\ Unit \in Directories
             /\ UnitStep([Now EXCEPT !.stage.items = @ \ {item}], "dismantle")
       \/ /\ Unit \in Directories => Now.stage.items = {}
          /\ UnitStep([Now EXCEPT !.stage = Absent], "place")

(* Make room at the destination: the initial artifact becomes the backup,  *)
(* anything else the transaction put there is displaced.                   *)
Labels == {name \in {"initial", "prior", "target"} : Now.dest = Planned(name)}
Preserved(paths) == [paths EXCEPT !.backup = paths.dest, !.dest = Absent]
Displaced_IntoBackup(paths) == [paths EXCEPT !.backup = paths.dest, !.dest = Absent]
Displaced(paths) == [paths EXCEPT !.displaced = paths.dest, !.dest = Absent]

PlaceUnit ==
    /\ run.pc = "place"
    /\ IF Now.dest = Goal
       THEN IF Now.stage.exists
            THEN Refuse("blocked by unit")
            ELSE UnitStep(Now, "journal unit")
       ELSE IF \/ Labels = {} /\ Now.dest.exists
               \/ Now.backup.exists /\ "initial" \in Labels
       THEN Refuse("blocked by unit")
       ELSE IF Planned("initial").exists /\ "initial" \in Labels
       THEN UnitStep(Preserved(Now), "stage")
       ELSE IF Now.dest.exists
       THEN IF Now.displaced.exists
            THEN Refuse("blocked by unit")
            ELSE UnitStep(Displaced(Now), "stage")
       ELSE UnitStep(Now, "stage")

(* Copy the prepared object to the stage, resuming a known unfinished copy.*)
Leaves(items) == {i[1] : i \in items}
WithoutPartials(state) == [state EXCEPT !.items = @ \ PartialItems(Goal)]

StageUnit ==
    /\ run.pc = "stage"
    /\ IF ~Goal.exists
       THEN UnitStep(Now, "check")
       ELSE IF Now.stage = Goal
       THEN UnitStep(Now, "activate")
       ELSE IF Unit \notin Directories
       THEN IF Now.stage.exists \/ Now.partial
            THEN Refuse("blocked by unit")
            ELSE UnitStep([Now EXCEPT !.partial = TRUE], "fill")
       ELSE IF ~Now.stage.exists
       THEN UnitStep([Now EXCEPT !.stage = Present({})], "fill")
       ELSE IF PartialTreeKnown(WithoutPartials(Now.stage), Goal)
       THEN UnitStep([Now EXCEPT !.stage = WithoutPartials(@)], "fill")
       ELSE Refuse("blocked by unit")

(* A file is written beside its place and then renamed into it; a path     *)
(* that exists already is skipped.                                         *)
FillFile == /\ Unit \notin Directories
            /\ UnitStep([Now EXCEPT !.partial = FALSE, !.stage = Goal], "activate")

Unfinished == Now.stage.items \cap PartialItems(Goal)
Missing == {i \in Goal.items : i[1] \notin Leaves(Now.stage.items)}

FillDirectory ==
    /\ Unit \in Directories
    /\ \/ \E i \in Missing : /\ Unfinished = {}
                             /\ UnitStep([Now EXCEPT !.stage.items = @ \union {PartialOf(i)}], "fill")
       \/ \E i \in Goal.items :
             /\ PartialOf(i) \in Unfinished
             /\ UnitStep([Now EXCEPT !.stage.items = (@ \ {PartialOf(i)}) \union {i}], "fill")
       \/ /\ Missing = {} /\ Unfinished = {}
          /\ IF Now.stage = Goal THEN UnitStep(Now, "activate") ELSE Refuse("blocked by unit")

FillStage == run.pc = "fill" /\ (FillFile \/ FillDirectory)

ActivateStage ==
    /\ run.pc = "activate"
    /\ IF Now.dest.exists \/ Now.stage # Goal
       THEN Refuse("blocked by unit")
       ELSE UnitStep([Now EXCEPT !.dest = Now.stage, !.stage = Absent], "check")

CheckUnit ==
    /\ run.pc = "check"
    /\ IF Now.dest # Goal THEN Refuse("blocked by unit") ELSE UnitStep(Now, "journal unit")

JournalUnit ==
    /\ run.pc = "journal unit"
    /\ journal' = [journal EXCEPT !.started = TRUE, !.units[Unit] = "complete"]
    /\ run' = IF run.index < Len(Units)
              THEN [run EXCEPT !.pc = "unit", !.index = @ + 1]
              ELSE [run EXCEPT !.pc = "after"]
    /\ UNCHANGED <<plan, objects, config, admission, published, answer, bounds>>

-----------------------------------------------------------------------------
(* Certifying the outcome.                                                 *)

ReachedGoal == /\ \A u \in UnitIds : objects[u].dest = Desired(u, run.goal)
               /\ plan.registration # "none" => config = Bytes(run.goal)

Verify ==
    /\ run.pc = "verify"
    /\ IF ReachedGoal
       THEN Continue("publish") /\ UNCHANGED <<plan, disk, answer, bounds>>
       ELSE Refuse("blocked")

PublishRecord ==
    /\ run.pc = "publish"
    /\ published[run.goal] < RecordsOf(run.goal)
    /\ published' = [published EXCEPT ![run.goal] = @ + 1]
    /\ UNCHANGED <<plan, objects, config, journal, admission, run, answer, bounds>>

Admit ==
    /\ run.pc = "publish"
    /\ published[run.goal] = RecordsOf(run.goal)
    /\ IF TerminalVerified(run.goal)
       THEN /\ admission' = run.goal
            /\ Stop(run.goal)
            /\ UNCHANGED <<plan, objects, config, journal, published, bounds>>
       ELSE Refuse("blocked")

-----------------------------------------------------------------------------
(* The surroundings.                                                       *)

(* The program dies, or an exception leaves it, between two effects.       *)
Crash == /\ run.pc # "idle"
         /\ crashes < MaxCrashes
         /\ crashes' = crashes + 1
         /\ Stop("crashed")
         /\ UNCHANGED <<plan, disk, edits>>

EditConfig == /\ run.pc = "idle"
              /\ admission = "recovery_required"
              /\ plan.registration # "none"
              /\ config # "edited"
              /\ edits < MaxEdits
              /\ edits' = edits + 1
              /\ config' = "edited"
              /\ UNCHANGED <<plan, objects, journal, admission, published, run, answer, crashes>>

(* The refusal names both byte sequences that recovery accepts.            *)
RestoreConfig == /\ run.pc = "idle"
                 /\ config = "edited"
                 /\ config' \in {Bytes(g) : g \in Goals}
                 /\ UNCHANGED <<plan, objects, journal, admission, published, run, answer, bounds>>

Decisions == {"none", "admitted", "fresh"}

RunStep == \/ SelectPrior
           \/ \E pc \in {"before", "after"} : EnsureRegistration(pc) \/ JournalRegistration(pc)
           \/ EnterUnit \/ DiscardStage \/ DismantleStage \/ PlaceUnit \/ StageUnit
           \/ FillStage \/ ActivateStage \/ CheckUnit \/ JournalUnit
           \/ Verify \/ PublishRecord \/ Admit

Next == \/ \E abort \in BOOLEAN, decision \in Decisions : Invoke(abort, decision)
        \/ RunStep
        \/ Crash
        \/ EditConfig
        \/ RestoreConfig

Spec == Init /\ [][Next]_vars

(* A run goes on unless it dies; the operator runs recovery again with a   *)
(* fresh confirmation and undoes the edit that recovery names.             *)
FairSpec == /\ Spec
            /\ WF_vars(RunStep)
            /\ WF_vars(Invoke(FALSE, "fresh"))
            /\ SF_vars(RestoreConfig)

-----------------------------------------------------------------------------
(* Properties.                                                             *)

PcOfRun == {"idle", "select", "before", "journal before", "unit", "discard", "dismantle",
            "place", "stage", "fill", "activate", "check", "journal unit",
            "after", "journal after", "verify", "publish"}
Answers == Goals \union {"none", "refused", "crashed", "blocked", "blocked by unit",
                         "blocked by config"}

(* Every variable stays within the values the program can write to it.     *)
TypeOK ==
    /\ plan \in Plans
    /\ \A u \in UnitIds :
          /\ DOMAIN objects[u] = {"dest", "backup", "displaced", "stage", "partial"}
          /\ \A f \in {"dest", "backup", "displaced", "stage"} :
                /\ objects[u][f].exists \in BOOLEAN
                /\ objects[u][f].items \subseteq
                      (Items(u) \union {PartialOf(i) : i \in Items(u)})
          /\ objects[u].partial \in BOOLEAN
    /\ config \in {"prior", "target", "edited"}
    /\ journal \in [goal : Goals, started : BOOLEAN,
                    units : [UnitIds -> Phases], registration : Phases]
    /\ admission \in Goals \union {"recovery_required"}
    /\ published \in [Goals -> 0..3]
    /\ run \in [pc : PcOfRun, goal : Goals, index : 1..Len(Units)]
    /\ answer \in Answers
    /\ crashes \in 0..MaxCrashes /\ edits \in 0..MaxEdits

(* What the user had before the transaction is never lost: at every moment *)
(* of every run, aborted or not, the initial artifact is at its            *)
(* destination or, whole, in the backup.                                   *)
InitialPreserved ==
    \A u \in UnitIds :
        plan.units[u].initial.exists =>
            plan.units[u].initial \in {objects[u].dest, objects[u].backup}

(* A unit the journal calls complete is at the state its goal wants, and   *)
(* so is the configuration if nobody edited it: no crash and no change of  *)
(* goal leaves a phase behind that the disk does not bear out.             *)
JournalHonest ==
    /\ \A u \in UnitIds :
          journal.units[u] = "complete" => objects[u].dest = Desired(u, journal.goal)
    /\ journal.registration = "complete" /\ edits = 0 => config = Bytes(journal.goal)

(* Recovery never refuses what an earlier recovery of the same transaction *)
(* left on the disk: whatever it was interrupted in, and in whichever      *)
(* direction it is continued, the next run recognises every leftover.      *)
NeverSelfBlocked == answer \notin {"blocked", "blocked by unit"}

(* A terminal admission can be verified again from the disk alone: its     *)
(* records are complete and the artifacts are the ones they describe.      *)
TerminalReaffirmed == admission # "recovery_required" => TerminalVerified(admission)

(* While a transaction adds or removes the Council entry, the entry is     *)
(* there only when the artifacts it names form one coherent set.  An abort *)
(* that finds the entry not yet removed leaves it where it is while it     *)
(* cleans compiled caches out of the payload, and is the one exception.    *)
EntryPresent == \E g \in Goals : config = Bytes(g) /\ EntryUnder(g)
CachesToClean == \E u \in UnitIds : plan.units[u].initial # plan.units[u].prior
EntryNeverDangles ==
    /\ plan.registration = "add" \/ (plan.registration = "remove" /\ ~CachesToClean)
    /\ EntryPresent
    /\ edits = 0
    => \E name \in {"initial", "prior", "target"} :
          \A u \in UnitIds : objects[u].dest = plan.units[u][name]

(* On the disk: nothing of the user's is lost, and the entry never names   *)
(* artifacts that are not there.                                           *)
DiskSound == TypeOK /\ InitialPreserved /\ EntryNeverDangles

(* In the records: what the journal calls complete and what the admission  *)
(* calls terminal is so.                                                   *)
RecordsSound == JournalHonest /\ TerminalReaffirmed

(* To the operator the transaction is LifecycleContract: it settles once,  *)
(* on the selected outcome, with every artifact as that outcome plans it.  *)
WantedBy(p) ==
    [g \in Goals |-> {<<u, Clean(p.units[u][g])>> : u \in UnitIds} \union
                     {<<"config", BytesOf(p.registration, g)>>}]
Live == {<<u, Clean(objects[u].dest)>> : u \in UnitIds} \union {<<"config", config>>}

Contract == INSTANCE LifecycleContract
    WITH Wanted <- {WantedBy(p) : p \in Plans},
         wanted <- WantedBy(plan),
         goal <- journal.goal,
         outcome <- IF admission = "recovery_required" THEN "pending" ELSE admission,
         live <- IF admission = "recovery_required" THEN {} ELSE Live
ImplementsContract == Contract!Spec

(* However often it dies, recovery that is run again ends in one of the    *)
(* two outcomes, and the one that was selected.                            *)
EventuallyCertified == <>[](admission = journal.goal)
=============================================================================
