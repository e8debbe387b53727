---------------------------- MODULE NativeAttempt ----------------------------
(***************************************************************************)
(* The native registration transactions (plan format 3) of the recoverer,  *)
(* scripts/council_recover.py with run_admitted_attempt of                 *)
(* scripts/council_registration_qualification.py: a vendor's own program   *)
(* edits the configuration of a host, and the recoverer can neither roll   *)
(* it back nor run it again safely.                                        *)
(*                                                                         *)
(* A transaction has an attempt, sequence zero, and perhaps a second one.  *)
(* Before the vendor may run, the journal records that the attempt was     *)
(* issued, then which process group will run it (a supervisor that blocks  *)
(* on a gate), then that its release is authorized.  Only then is the gate *)
(* opened.  A recoverer that dies leaves the group to itself: the next one *)
(* reads the configuration and the journal, and looks for the group.       *)
(*                                                                         *)
(* There is one recoverer at a time (the lease), but the supervisors and   *)
(* vendors of earlier ones run beside it, and the host or its user may     *)
(* edit the configuration at any time.  Adding and removing the entry are  *)
(* alike here: each has a prior and a target state.                        *)
(***************************************************************************)
EXTENDS Naturals, Sequences

CONSTANTS
  Invocation,   \* the confirmations an operator may give
  MaxFaults,    \* bound on ends of recoverers and supervisors before their time
  MaxEdits      \* bound on edits of the configuration by others

ASSUME InvocationAssumption == Invocation # {}
ASSUME BoundsAssumption == {MaxFaults, MaxEdits} \subseteq Nat

VARIABLES
  config,    \* the stored configuration, compared with the plan
  attempts,  \* progress.json: the attempts, sequence zero first
  group,     \* the process group of each attempt
  run,       \* the recoverer that holds the lease
  admitted,  \* the terminal receipt and admission are published
  released,  \* history: the confirmation under which each gate was opened
  faults,    \* recoverers and supervisors that ended before their time
  edits      \* edits of the configuration by others

vars == <<config, attempts, group, run, admitted, released, faults, edits>>

-----------------------------------------------------------------------------
Config == {"prior", "target", "other"}

Observed == {"observed_prior", "observed_target", "unknown"}

AttemptState == {"prepared", "issued", "spawn_generation_recorded",
                 "release_authorized"} \cup Observed

\* journal, supervisor and result say whether the attempt has a
\* journal_sha256, a supervisor identity and a result.
Attempt == [invocation : Invocation, state : AttemptState, journal : BOOLEAN,
            supervisor : BOOLEAN, result : BOOLEAN]

Prepared(i) == [invocation |-> i, state |-> "prepared", journal |-> FALSE,
                supervisor |-> FALSE, result |-> FALSE]

\* A supervisor starts, blocks on its gate, waits for its vendor and reports;
\* or it exits, or is killed once blocked.  The vendor stands for all the other
\* processes of the group.
Group == [supervisor : {"none", "starting", "blocked", "waiting", "reported",
                        "exited", "killed"},
          vendor : {"none", "running", "gone"},
          gate : {"none", "held", "open", "closed"}]

NoGroup == [supervisor |-> "none", vendor |-> "none", gate |-> "none"]

Sequence == {0, 1}

\* What the classification of an observation says.
Classification(c) ==
  CASE c = "target" -> "observed_target"
    [] c = "prior"  -> "observed_prior"
    [] OTHER        -> "unknown"

NotRunning == [pc |-> "idle", invocation |-> CHOOSE i \in Invocation : TRUE,
               seen |-> "unknown"]

current == Len(attempts) - 1
attempt == attempts[Len(attempts)]
mine == group[current]

\* The evidence an attempt must and must not carry in each state.
EvidenceFits(a) ==
  /\ a.state = "prepared" <=> ~a.journal
  /\ a.state \in {"prepared", "issued"} => ~a.supervisor
  /\ a.state \in {"spawn_generation_recorded", "release_authorized"} => a.supervisor
  /\ a.state \in Observed <=> a.result

\* _validate_progress, which every recoverer and every supervisor begins with.
JournalValid == \A k \in DOMAIN attempts : EvidenceFits(attempts[k])

\* Mutant: the group is absent as soon as its supervisor is.
PositiveAbsence_Leader(s) ==
  group[s].supervisor \in {"reported", "exited", "killed"}

\* positive_absence: no process of the group, and nobody holds its lock.
PositiveAbsence(s) ==
  /\ group[s].supervisor \in {"reported", "exited", "killed"}
  /\ group[s].vendor # "running"

Init ==
  /\ config = "prior"
  /\ \E i \in Invocation : attempts = <<Prepared(i)>>
  /\ group = [s \in Sequence |-> NoGroup]
  /\ run = NotRunning
  /\ admitted = FALSE
  /\ released = <<>>
  /\ faults = 0 /\ edits = 0

-----------------------------------------------------------------------------
(* The recoverer, one durable write or one observation per action.         *)

Journal(a) == attempts' = [attempts EXCEPT ![Len(attempts)] = a]

\* The attempt with what was observed, which is a result.
Concluded(c) == [attempt EXCEPT !.state = Classification(c), !.result = TRUE]

GateClosed(g) == [g EXCEPT !.gate = IF @ = "held" THEN "closed" ELSE @]

GoOn(pc) == run' = [run EXCEPT !.pc = pc] /\ UNCHANGED group

\* The recoverer ends with an error; the pipe of a gate it holds closes.
Stop ==
  /\ run' = NotRunning
  /\ group' = [s \in Sequence |-> GateClosed(group[s])]

\* A confirmation, unless it is that of an attempt that has not begun, is fresh.
Fresh(i) == attempt.state = "prepared" \/ i # attempt.invocation

\* A recovery with a confirmation for the current attempt.
Recover(i) ==
  /\ run.pc = "idle" /\ ~admitted /\ JournalValid
  /\ Fresh(i)
  /\ run' = [NotRunning EXCEPT !.pc = "observe", !.invocation = i]
  /\ UNCHANGED <<config, attempts, group, admitted, released, faults, edits>>

FamilyOpen == Len(attempts) = 1

\* Mutant: a group is asked for although none was ever recorded.
Unspent_Recorded ==
  attempt.state = "observed_prior" /\ attempt.supervisor /\ PositiveAbsence(0)

\* Sequence zero is over, without effect, and without anyone left to have one.
Unspent ==
  /\ attempt.state = "observed_prior"
  /\ attempt.supervisor => PositiveAbsence(0)

\* A recovery with a confirmation for sequence one appends it first.
AppendSequenceOne(i) ==
  /\ run.pc = "idle" /\ ~admitted /\ JournalValid
  /\ FamilyOpen /\ Unspent
  /\ i # attempt.invocation
  /\ config = "prior"
  /\ attempts' = Append(attempts, Prepared(i))
  /\ run' = [NotRunning EXCEPT !.pc = "observe", !.invocation = i]
  /\ UNCHANGED <<config, group, admitted, released, faults, edits>>

\* The configuration is read; what it says is acted upon afterwards.
Observe ==
  /\ run.pc = "observe"
  /\ run' = [run EXCEPT !.seen = config, !.pc = "observed"]
  /\ UNCHANGED <<config, attempts, group, admitted, released, faults, edits>>

\* A target is verified passively, whoever reached it; an attempt that may have
\* a group must be rid of it.
VerifyPassively ==
  /\ run.pc = "observed" /\ run.seen = "target"
  /\ IF attempt.state \in {"spawn_generation_recorded", "release_authorized"}
        /\ ~PositiveAbsence(current)
     THEN Stop /\ UNCHANGED attempts
     ELSE Journal(Concluded("target")) /\ GoOn("verify")
  /\ UNCHANGED <<config, admitted, released, faults, edits>>

Startable == attempt.state = "prepared"

BeginAttempt ==
  /\ run.pc = "observed" /\ run.seen = "prior" /\ Startable
  /\ GoOn("issue")
  /\ UNCHANGED <<config, attempts, admitted, released, faults, edits>>

\* Anything else is recorded, and needs a new sequence or a new configuration.
ConcludePassively ==
  /\ run.pc = "observed" /\ run.seen # "target"
  /\ ~(run.seen = "prior" /\ Startable)
  /\ Journal(Concluded(run.seen)) /\ Stop
  /\ UNCHANGED <<config, admitted, released, faults, edits>>

\* The inputs differ from those of the plan: _revalidate_native_inputs raises.
InputsChanged ==
  /\ run.pc \in {"issue", "authorize"} /\ config # "prior"
  /\ Stop
  /\ UNCHANGED <<config, attempts, admitted, released, faults, edits>>

IssueAttempt ==
  /\ run.pc = "issue" /\ config = "prior"
  /\ Journal([attempt EXCEPT !.state = "issued", !.journal = TRUE])
  /\ GoOn("spawn")
  /\ UNCHANGED <<config, admitted, released, faults, edits>>

\* The directory of the attempt is created, which can be done once.
SpawnBlocked ==
  /\ run.pc = "spawn" /\ mine.supervisor = "none"
  /\ group' = [group EXCEPT ![current].supervisor = "starting", ![current].gate = "held"]
  /\ run' = [run EXCEPT !.pc = "ready"]
  /\ UNCHANGED <<config, attempts, admitted, released, faults, edits>>

\* The supervisor has written ready.json.
RecordSupervisor ==
  /\ run.pc = "ready" /\ mine.supervisor \in {"blocked", "killed"}
  /\ Journal([attempt EXCEPT !.state = "spawn_generation_recorded", !.supervisor = TRUE])
  /\ GoOn("authorize")
  /\ UNCHANGED <<config, admitted, released, faults, edits>>

\* It exited before, or did not come so far in time.
NotReady ==
  /\ run.pc = "ready" /\ mine.supervisor \in {"starting", "exited"}
  /\ Stop
  /\ UNCHANGED <<config, attempts, admitted, released, faults, edits>>

AuthorizeRelease ==
  /\ run.pc = "authorize" /\ config = "prior"
  /\ Journal([attempt EXCEPT !.state = "release_authorized"])
  /\ GoOn("release")
  /\ UNCHANGED <<config, admitted, released, faults, edits>>

Release ==
  /\ run.pc = "release"
  /\ IF mine.supervisor = "blocked"
     THEN /\ group' = [group EXCEPT ![current].gate = "open"]
          /\ run' = [run EXCEPT !.pc = "wait"]
          /\ released' = Append(released, run.invocation)
     ELSE Stop /\ UNCHANGED released
  /\ UNCHANGED <<config, attempts, admitted, faults, edits>>

\* The supervisor has exited with a result.  The observer may have missed the
\* network or some write; then whatever is found counts as unknown.
SupervisorReported ==
  /\ run.pc = "wait" /\ mine.supervisor = "reported"
  /\ IF PositiveAbsence(current)
     THEN \E missed \in BOOLEAN : GoOn(IF missed THEN "look_unsure" ELSE "look")
     ELSE Stop
  /\ UNCHANGED <<config, attempts, admitted, released, faults, edits>>

\* It was killed before it could write one.
SupervisorLost ==
  /\ run.pc = "wait" /\ mine.supervisor = "killed"
  /\ Stop
  /\ UNCHANGED <<config, attempts, admitted, released, faults, edits>>

\* _terminate_process_group.
Killed(g) == [g EXCEPT !.supervisor = "killed",
                       !.vendor = IF @ = "running" THEN "gone" ELSE @]

\* Seventy seconds have passed: the group is killed and reaped.
TimeOut ==
  /\ run.pc = "wait" /\ mine.supervisor \in {"blocked", "waiting"}
  /\ group' = [group EXCEPT ![current] = Killed(@)]
  /\ run' = [run EXCEPT !.pc = "look_unsure"]
  /\ UNCHANGED <<config, attempts, admitted, released, faults, edits>>

\* _classify: whatever is found after a run that cannot be vouched for is unknown.
Classified(c) == IF run.pc = "look_unsure" THEN "unknown" ELSE c

Look ==
  /\ run.pc \in {"look", "look_unsure"}
  /\ run' = [run EXCEPT !.pc = "looked", !.seen = Classified(config)]
  /\ UNCHANGED <<config, attempts, group, admitted, released, faults, edits>>

RecordResult ==
  /\ run.pc = "looked"
  /\ Journal(Concluded(run.seen))
  /\ IF run.seen = "target" THEN GoOn("verify") ELSE Stop
  /\ UNCHANGED <<config, admitted, released, faults, edits>>

Verify ==
  /\ run.pc = "verify"
  /\ IF config = "target" THEN GoOn("admit") ELSE Stop
  /\ UNCHANGED <<config, attempts, admitted, released, faults, edits>>

Admit ==
  /\ run.pc = "admit"
  /\ admitted' = TRUE
  /\ Stop
  /\ UNCHANGED <<config, attempts, released, faults, edits>>

-----------------------------------------------------------------------------
(* The process groups.                                                     *)

SetGroup(s, g) ==
  /\ group' = [group EXCEPT ![s] = g]
  /\ UNCHANGED <<config, attempts, run, admitted, released, edits>>

\* The supervisor checks the journal, locks the attempt and blocks.
SupervisorBlocks(s) ==
  /\ group[s].supervisor = "starting"
  /\ SetGroup(s, [group[s] EXCEPT !.supervisor =
                    IF JournalValid /\ s = current THEN "blocked" ELSE "exited"])
  /\ UNCHANGED faults

GateOpened(s) == group[s].gate = "open"

SupervisorReleased(s) ==
  /\ group[s].supervisor = "blocked" /\ GateOpened(s)
  /\ SetGroup(s, [group[s] EXCEPT !.supervisor = "waiting", !.vendor = "running"])
  /\ UNCHANGED faults

SupervisorAbandoned(s) ==
  /\ group[s].supervisor = "blocked" /\ group[s].gate = "closed"
  /\ SetGroup(s, [group[s] EXCEPT !.supervisor = "exited"])
  /\ UNCHANGED faults

\* Its vendor exited; what that has left running is given ten seconds.
SupervisorReports(s) ==
  /\ group[s].supervisor = "waiting"
  /\ SetGroup(s, [group[s] EXCEPT !.supervisor = "reported"])
  /\ UNCHANGED faults

VendorExits(s) ==
  /\ group[s].vendor = "running"
  /\ SetGroup(s, [group[s] EXCEPT !.vendor = "gone"])
  /\ UNCHANGED faults

VendorWrites(s) ==
  /\ group[s].vendor = "running"
  /\ config' \in {"target", "other"}
  /\ UNCHANGED <<attempts, group, run, admitted, released, faults, edits>>

-----------------------------------------------------------------------------
(* What may go wrong.                                                      *)

\* The recoverer dies, or is stopped by an exception, anywhere.
Crash ==
  /\ run.pc # "idle" /\ faults < MaxFaults
  /\ Stop
  /\ faults' = faults + 1
  /\ UNCHANGED <<config, attempts, admitted, released, edits>>

SupervisorKilled(s) ==
  /\ group[s].supervisor \in {"starting", "blocked", "waiting"} /\ faults < MaxFaults
  /\ SetGroup(s, [group[s] EXCEPT !.supervisor =
                    IF @ = "starting" THEN "exited" ELSE "killed"])
  /\ faults' = faults + 1

EditConfig ==
  /\ edits < MaxEdits
  /\ config' \in Config \ {config}
  /\ edits' = edits + 1
  /\ UNCHANGED <<attempts, group, run, admitted, released, faults>>

-----------------------------------------------------------------------------
RunStep ==
  \/ Observe \/ VerifyPassively \/ BeginAttempt \/ ConcludePassively
  \/ InputsChanged \/ IssueAttempt \/ SpawnBlocked \/ RecordSupervisor \/ NotReady
  \/ AuthorizeRelease \/ Release \/ SupervisorReported \/ SupervisorLost \/ TimeOut
  \/ Look \/ RecordResult \/ Verify \/ Admit

GroupStep(s) ==
  \/ SupervisorBlocks(s) \/ SupervisorReleased(s) \/ SupervisorAbandoned(s)
  \/ SupervisorReports(s)

Next ==
  \/ \E i \in Invocation : Recover(i) \/ AppendSequenceOne(i)
  \/ RunStep
  \/ \E s \in Sequence : GroupStep(s) \/ VendorExits(s) \/ VendorWrites(s)
                           \/ SupervisorKilled(s)
  \/ Crash
  \/ EditConfig

Spec == Init /\ [][Next]_vars

\* Processes run, a vendor ends in the end, and an operator repeats recovery,
\* for the current attempt and for the next one.
FairSpec ==
  /\ Spec
  /\ WF_vars(RunStep)
  /\ \A s \in Sequence : WF_vars(GroupStep(s)) /\ WF_vars(VendorExits(s))
  /\ SF_vars(\E i \in Invocation : Recover(i))
  /\ SF_vars(\E i \in Invocation : AppendSequenceOne(i))

-----------------------------------------------------------------------------
TypeOK ==
  /\ config \in Config
  /\ attempts \in Seq(Attempt) /\ Len(attempts) \in {1, 2}
  /\ group \in [Sequence -> Group]
  /\ run.invocation \in Invocation
  /\ admitted \in BOOLEAN
  /\ Len(released) <= Len(attempts)
  /\ faults \in 0..MaxFaults /\ edits \in 0..MaxEdits

\* A vendor that may still write, or a supervisor that may still start one.
MayWrite(s) ==
  \/ group[s].vendor = "running"
  \/ group[s].supervisor \in {"starting", "blocked"} /\ group[s].gate \in {"held", "open"}

\* No vendor runs that a later recoverer could not find: it is released only
\* once the journal names its group and the authorization (lifecycle.md, "cannot
\* release the fixed vendor argv until the progress journal has durably recorded
\* release_authorized"), whichever process dies in between.
VendorOnRecord ==
  \A s \in Sequence : group[s].vendor # "none" =>
    /\ s <= current /\ attempts[s + 1].supervisor
    /\ attempts[s + 1].state \in {"release_authorized"} \cup Observed

\* The second attempt exists only if the first ended without effect, and nothing
\* of it can have one any more: there are never two writers of the configuration.
SequenceOneEarned ==
  Len(attempts) = 2 => attempts[1].state = "observed_prior" /\ ~MayWrite(0)

\* The journal accounts for every vendor that was ever started, and two never write
\* the configuration side by side.
AttemptsAccounted == TypeOK /\ VendorOnRecord /\ SequenceOneEarned

\* The family is used up: both attempts ended short of the target.
Exhausted == Len(attempts) = 2 /\ attempt.state \in {"observed_prior", "unknown"}

\* An operator who repeats recovery gets the transaction certified, or both
\* attempts used up, or must first restore the configuration; or the journal is
\* one that no recovery accepts (see JournalAccepted).
Resolves ==
  ~admitted ~> (admitted \/ Exhausted \/ config = "other" \/ ~JournalValid)

\* Recovery can be interrupted and repeated (lifecycle.md): what a recoverer
\* leaves in the journal is accepted by the next.
JournalAccepted == JournalValid

\* A transaction is certified after the whole group has been observed
\* (lifecycle.md): no vendor can still write to what was certified.
CertifiedQuiet == admitted => \A s \in Sequence : ~MayWrite(s)

\* Each attempt is launched under a confirmation of its own (lifecycle.md,
\* "a complete fresh quiescent decision").
ConfirmedAfresh ==
  \A k, l \in DOMAIN released : released[k] = released[l] => k = l
=============================================================================
