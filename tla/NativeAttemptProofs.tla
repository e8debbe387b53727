-------------------------- MODULE NativeAttemptProofs --------------------------
(***************************************************************************)
(* Proofs about NativeAttempt for any confirmations and any number of      *)
(* crashes, kills and edits of the configuration.                          *)
(*                                                                         *)
(* The journal is written by one process, read by another and acted upon   *)
(* by a third.  What ties them is the gate: it is held only by the         *)
(* recoverer that made it, so when that recoverer is gone a supervisor     *)
(* that was not released never will be.                                    *)
(***************************************************************************)
EXTENDS NativeAttempt, SequenceTheorems, TLAPS

Runs == [pc : {"idle", "observe", "observed", "issue", "spawn", "ready",
               "authorize", "release", "wait", "look", "look_unsure", "looked",
               "verify", "admit"},
         invocation : Invocation,
         seen : Config \cup {"unknown"}]

Attempts == attempts \in Seq(Attempt) /\ Len(attempts) \in {1, 2}

\* A gate and the supervisor behind it come together, and a vendor after them.
GroupSound(s) ==
  /\ group[s].supervisor = "none" <=> group[s].gate = "none"
  /\ group[s].vendor # "none" => group[s].gate = "open"
  /\ group[s].gate = "held" => s = current /\ run.pc \in {"ready", "authorize", "release"}
  /\ group[s].gate # "none" => s <= current
  /\ group[s].gate = "open" =>
       /\ attempts[s + 1].supervisor
       /\ attempts[s + 1].state \in {"release_authorized"} \cup Observed

\* What the recoverer has written and made by the time it is somewhere.
RunSound ==
  /\ attempt.state = "prepared" => ~attempt.supervisor
  /\ run.pc = "issue" => attempt.state = "prepared"
  /\ run.pc = "spawn" => attempt.state = "issued"
  /\ run.pc = "ready" => attempt.state = "issued" /\ mine.gate = "held"
  /\ run.pc = "authorize" =>
       /\ attempt.state = "spawn_generation_recorded" /\ attempt.supervisor
       /\ mine.gate = "held"
  /\ run.pc = "release" =>
       /\ attempt.state = "release_authorized" /\ attempt.supervisor
       /\ mine.gate = "held"

\* Every gate was opened once.
Opened(s) == IF group[s].gate = "open" THEN 1 ELSE 0

ReleasedSound ==
  released \in Seq(Invocation) /\ Len(released) = Opened(0) + Opened(1)

IInv ==
  /\ config \in Config /\ admitted \in BOOLEAN
  /\ faults \in 0..MaxFaults /\ edits \in 0..MaxEdits
  /\ Attempts /\ group \in [Sequence -> Group] /\ run \in Runs
  /\ \A s \in Sequence : GroupSound(s)
  /\ RunSound /\ ReleasedSound /\ SequenceOneEarned

-----------------------------------------------------------------------------
(* Steps that open no gate and begin no sequence.                          *)

Scalars == /\ config \in Config /\ admitted \in BOOLEAN
           /\ faults \in 0..MaxFaults /\ edits \in 0..MaxEdits

LEMMA Current ==
  ASSUME Attempts
  PROVE  /\ Len(attempts) \in Nat /\ DOMAIN attempts = 1..Len(attempts)
         /\ current \in Sequence /\ current + 1 = Len(attempts)
         /\ attempt \in Attempt /\ attempt = attempts[current + 1]
         /\ Len(attempts) = 1 => current = 0
         /\ Len(attempts) = 2 => current = 1
PROOF
  <1>1. current \in Sequence /\ current + 1 = Len(attempts)
    BY DEF Attempts, current, Sequence
  <1>2. Len(attempts) \in 1..Len(attempts)
    BY DEF Attempts
  <1>3. attempt \in Attempt
    BY <1>2, ElementOfSeq DEF Attempts, attempt
  <1> QED BY <1>1, <1>3, LenProperties DEF Attempts, attempt, current

\* What the journal, the gates and the processes may do in such a step.
JournalGoesOn ==
  /\ Attempts' /\ Len(attempts') = Len(attempts)
  /\ Len(attempts) = 2 => attempts'[1] = attempts[1]
  /\ mine.gate = "open" =>
       /\ attempt'.supervisor
       /\ attempt'.state \in {"release_authorized"} \cup Observed

GroupsGoOn ==
  /\ group' \in [Sequence -> Group]
  /\ \A s \in Sequence :
       /\ group'[s].supervisor = "none" <=> group'[s].gate = "none"
       /\ group'[s].vendor # "none" => group'[s].gate = "open"
       /\ \/ group'[s].gate = group[s].gate
          \/ group[s].gate = "held" /\ group'[s].gate = "closed"
  /\ MayWrite(0)' => MayWrite(0)
  /\ run'.pc \notin {"ready", "authorize", "release"} =>
       \A s \in Sequence : group'[s].gate # "held"

LEMMA StepGoesOn ==
  ASSUME IInv, Scalars', JournalGoesOn, GroupsGoOn, run' \in Runs, RunSound',
         released' = released
  PROVE  IInv'
PROOF
  <1>1. /\ Attempts /\ Attempts' /\ Len(attempts') = Len(attempts)
        /\ current' = current
    BY DEF IInv, JournalGoesOn, current
  <1>2. ASSUME NEW s \in Sequence PROVE GroupSound(s)'
    <2>1. GroupSound(s)
      BY DEF IInv
    <2>2. group'[s].gate = "open" =>
            /\ attempts'[s + 1].supervisor
            /\ attempts'[s + 1].state \in {"release_authorized"} \cup Observed
      <3>1. SUFFICES ASSUME group'[s].gate = "open"
                     PROVE  /\ attempts'[s + 1].supervisor
                            /\ attempts'[s + 1].state \in {"release_authorized"} \cup Observed
        OBVIOUS
      <3>2. group[s].gate = "open" /\ s <= current
        BY <2>1, <3>1 DEF GroupsGoOn, GroupSound
      <3>3. CASE s = current
        <4>1. attempt' = attempts'[s + 1]
          BY <1>1, <3>3, Current DEF attempt
        <4> QED BY <3>2, <3>3, <4>1 DEF JournalGoesOn, mine
      <3>4. CASE s # current
        <4>1. s = 0 /\ Len(attempts) = 2
          BY <1>1, <3>2, <3>4, Current DEF Sequence, current, Attempts
        <4>2. attempts'[s + 1] = attempts[s + 1]
          BY <4>1 DEF JournalGoesOn
        <4> QED BY <2>1, <3>2, <4>2 DEF GroupSound
      <3> QED BY <3>3, <3>4
    <2> QED BY <1>1, <2>1, <2>2 DEF GroupsGoOn, GroupSound
  <1>3. Opened(0)' = Opened(0) /\ Opened(1)' = Opened(1)
    BY DEF GroupsGoOn, Opened, Sequence
  <1>4. ReleasedSound'
    BY <1>3 DEF IInv, ReleasedSound
  <1>5. SequenceOneEarned'
    BY <1>1 DEF IInv, SequenceOneEarned, JournalGoesOn, GroupsGoOn
  <1> QED BY <1>1, <1>2, <1>4, <1>5 DEF IInv, Scalars, GroupsGoOn

\* The journal is left alone.
LEMMA JournalStays ==
  ASSUME IInv, attempts' = attempts
  PROVE  JournalGoesOn /\ attempt' = attempt /\ current' = current
PROOF
  <1>1. Attempts /\ GroupSound(current)
    BY Current DEF IInv
  <1>2. mine.gate = "open" =>
          /\ attempt.supervisor
          /\ attempt.state \in {"release_authorized"} \cup Observed
    BY <1>1, Current DEF GroupSound, mine
  <1> QED BY <1>1, <1>2 DEF JournalGoesOn, attempt, current, Attempts

\* The current attempt is written again.
LEMMA JournalWritten ==
  ASSUME IInv, NEW a \in Attempt, Journal(a),
         mine.gate = "open" =>
           a.supervisor /\ a.state \in {"release_authorized"} \cup Observed
  PROVE  JournalGoesOn /\ attempt' = a /\ current' = current
PROOF
  <1>1. /\ attempts \in Seq(Attempt) /\ Len(attempts) \in {1, 2}
        /\ attempts' = [attempts EXCEPT ![Len(attempts)] = a]
        /\ Len(attempts) \in 1..Len(attempts)
    BY DEF IInv, Attempts, Journal
  <1>2. /\ attempts' \in Seq(Attempt) /\ Len(attempts') = Len(attempts)
        /\ \A j \in 1..Len(attempts) :
             attempts'[j] = IF j = Len(attempts) THEN a ELSE attempts[j]
    BY <1>1, ExceptSeq
  <1>3. attempt' = a /\ current' = current
    BY <1>1, <1>2 DEF attempt, current
  <1>4. Len(attempts) = 2 => attempts'[1] = attempts[1]
    BY <1>2
  <1> QED BY <1>1, <1>2, <1>3, <1>4 DEF JournalGoesOn, Attempts

\* The groups are left alone.
LEMMA GroupsStay ==
  ASSUME IInv, group' = group,
         \/ run.pc \notin {"ready", "authorize", "release"}
         \/ run'.pc \in {"ready", "authorize", "release"}
  PROVE  GroupsGoOn
PROOF
  <1>1. \A s \in Sequence : GroupSound(s)
    BY DEF IInv
  <1> QED BY <1>1 DEF IInv, GroupsGoOn, GroupSound, MayWrite

\* The recoverer is gone, and with it the gate that it held.
LEMMA StopSound ==
  ASSUME IInv, Stop
  PROVE  GroupsGoOn /\ run' \in Runs /\ run'.pc = "idle"
PROOF
  <1>1. run' \in Runs /\ run'.pc = "idle"
    BY InvocationAssumption DEF Stop, NotRunning, Runs
  <1>2. group \in [Sequence -> Group] /\ \A s \in Sequence : GroupSound(s)
    BY DEF IInv
  <1>3. ASSUME NEW s \in Sequence
        PROVE  /\ group'[s] \in Group
               /\ group'[s].supervisor = group[s].supervisor
               /\ group'[s].vendor = group[s].vendor
               /\ group'[s].gate = IF group[s].gate = "held" THEN "closed"
                                   ELSE group[s].gate
    <2>1. group[s] \in Group /\ group'[s] = GateClosed(group[s])
      BY <1>2 DEF Stop
    <2> QED BY <2>1 DEF GateClosed, Group
  <1>4. group' \in [Sequence -> Group]
    BY <1>3 DEF Stop
  <1>5. \A s \in Sequence : group'[s].gate # "held"
    BY <1>3
  <1>6. MayWrite(0)' => MayWrite(0)
    BY <1>3 DEF MayWrite, Sequence
  <1> QED BY <1>1, <1>2, <1>3, <1>4, <1>5, <1>6 DEF GroupsGoOn, GroupSound

\* One group takes a step of its own.
LEMMA GroupSet ==
  ASSUME IInv, NEW s \in Sequence, NEW g \in Group,
         group' = [group EXCEPT ![s] = g],
         g.gate = group[s].gate, g.supervisor = "none" <=> group[s].supervisor = "none",
         g.vendor # "none" => g.gate = "open",
         g.vendor = "running" \/ g.supervisor \in {"starting", "blocked"} => MayWrite(s)
           \/ (g.gate = "closed" /\ g.vendor # "running"),
         \/ run.pc \notin {"ready", "authorize", "release"}
         \/ run'.pc \in {"ready", "authorize", "release"}
  PROVE  GroupsGoOn
PROOF
  <1>1. group \in [Sequence -> Group] /\ \A t \in Sequence : GroupSound(t)
    BY DEF IInv
  <1>2. /\ group' \in [Sequence -> Group] /\ group'[s] = g
        /\ \A t \in Sequence : t # s => group'[t] = group[t]
    BY <1>1
  <1>3. MayWrite(0)' => MayWrite(0)
    BY <1>2 DEF MayWrite, Sequence
  <1> QED BY <1>1, <1>2, <1>3 DEF GroupsGoOn, GroupSound

-----------------------------------------------------------------------------
(* The recoverer.                                                          *)

ConcludedAttempt(c) ==
  /\ Concluded(c) \in Attempt /\ Concluded(c).state \in Observed
  /\ Concluded(c).supervisor = attempt.supervisor

LEMMA ConcludedSound ==
  ASSUME IInv, NEW c
  PROVE  /\ Concluded(c) \in Attempt /\ Concluded(c).state \in Observed
         /\ Concluded(c).supervisor = attempt.supervisor
         /\ mine.gate = "open" => Concluded(c).supervisor
PROOF
  <1>1. attempt \in Attempt /\ GroupSound(current)
    BY Current DEF IInv
  <1>2. Classification(c) \in Observed
    BY DEF Classification, Observed
  <1>3. /\ Concluded(c) \in Attempt /\ Concluded(c).state \in Observed
        /\ Concluded(c).supervisor = attempt.supervisor
    BY <1>1, <1>2 DEF Concluded, Attempt, AttemptState
  <1>4. mine.gate = "open" => attempt.supervisor
    BY <1>1, Current DEF IInv, GroupSound, mine
  <1> QED BY <1>3, <1>4

\* The result of an attempt is recorded, and the recoverer goes on or ends.
LEMMA ConcludedKeeps ==
  ASSUME IInv, NEW c, Journal(Concluded(c)), GoOn("verify") \/ Stop,
         run.pc \notin {"ready", "authorize", "release"},
         UNCHANGED <<config, admitted, released, faults, edits>>
  PROVE  IInv'
PROOF
  <1>1. JournalGoesOn /\ attempt' = Concluded(c)
    BY ConcludedSound, JournalWritten
  <1>2. attempt'.state \in Observed
    BY <1>1, ConcludedSound
  <1>3. GroupsGoOn /\ run' \in Runs /\ run'.pc \in {"idle", "verify"}
    <2>1. CASE GoOn("verify")
      BY <2>1, GroupsStay DEF GoOn, IInv, Runs
    <2>2. CASE Stop
      BY <2>2, StopSound
    <2> QED BY <2>1, <2>2
  <1>4. RunSound'
    BY <1>2, <1>3 DEF RunSound, Observed
  <1> QED BY <1>1, <1>3, <1>4, StepGoesOn DEF IInv, Scalars

\* A recoverer ends with an error, or dies.
LEMMA StopKeeps ==
  ASSUME IInv, Stop, attempts' = attempts, released' = released, Scalars'
  PROVE  IInv'
PROOF
  <1>1. GroupsGoOn /\ run' \in Runs /\ run'.pc = "idle"
    BY StopSound
  <1>2. JournalGoesOn /\ attempt' = attempt
    BY JournalStays
  <1>3. RunSound'
    BY <1>1, <1>2 DEF IInv, RunSound
  <1> QED BY <1>1, <1>2, <1>3, StepGoesOn

\* A recoverer goes on without writing anything or touching the gate.
LEMMA GoesOnKeeps ==
  ASSUME IInv, run' \in Runs, run.pc \notin {"ready", "authorize", "release"},
         run'.pc \notin {"spawn", "ready", "authorize", "release"},
         run'.pc = "issue" => attempt.state = "prepared",
         attempts' = attempts, group' = group, released' = released, Scalars'
  PROVE  IInv'
PROOF
  <1>1. GroupsGoOn
    BY GroupsStay
  <1>2. JournalGoesOn /\ attempt' = attempt
    BY JournalStays
  <1>3. RunSound'
    BY <1>2 DEF IInv, RunSound
  <1> QED BY <1>1, <1>2, <1>3, StepGoesOn

LEMMA BeginsKeep ==
  ASSUME IInv, NEW i \in Invocation, Recover(i)
  PROVE  IInv'
PROOF
  <1>1. run' \in Runs /\ run.pc = "idle" /\ run'.pc = "observe"
    BY InvocationAssumption DEF Recover, NotRunning, Runs
  <1> QED BY <1>1, GoesOnKeeps DEF Recover, IInv, Scalars

\* Sequence zero is over for good when sequence one begins: nobody holds its
\* gate, and whom the journal names is gone.
LEMMA AppendKeeps ==
  ASSUME IInv, NEW i \in Invocation, AppendSequenceOne(i)
  PROVE  IInv'
PROOF
  <1>1. /\ run.pc = "idle" /\ Len(attempts) = 1 /\ Unspent
        /\ attempts' = Append(attempts, Prepared(i))
        /\ run' = [NotRunning EXCEPT !.pc = "observe", !.invocation = i]
        /\ config' = config /\ group' = group /\ admitted' = admitted
        /\ released' = released /\ faults' = faults /\ edits' = edits
    BY DEF AppendSequenceOne, FamilyOpen
  <1>2. run' \in Runs /\ run'.pc = "observe"
    BY <1>1, InvocationAssumption DEF NotRunning, Runs
  <1>3. Prepared(i) \in Attempt /\ Prepared(i).state = "prepared"
        /\ Prepared(i).supervisor = FALSE
    BY DEF Prepared, Attempt, AttemptState
  <1>4. /\ attempts' \in Seq(Attempt) /\ Len(attempts') = 2
        /\ attempts'[1] = attempts[1] /\ attempts'[2] = Prepared(i)
    <2>1. attempts \in Seq(Attempt) /\ Len(attempts) = 1
      BY <1>1 DEF IInv, Attempts
    <2> DEFINE b == Prepared(i)
    <2>2. b \in Attempt /\ attempts' = Append(attempts, b)
      BY <1>1, <1>3
    <2> HIDE DEF b
    <2>3. /\ attempts' \in Seq(Attempt) /\ Len(attempts') = Len(attempts) + 1
          /\ \A j \in 1..Len(attempts) : attempts'[j] = attempts[j]
          /\ attempts'[Len(attempts) + 1] = b
      <3>1. ASSUME NEW sq \in Seq(Attempt), NEW e \in Attempt
            PROVE  /\ Append(sq, e) \in Seq(Attempt) /\ Len(Append(sq, e)) = Len(sq) + 1
                   /\ \A j \in 1..Len(sq) : Append(sq, e)[j] = sq[j]
                   /\ Append(sq, e)[Len(sq) + 1] = e
        BY <3>1, AppendProperties
      <3> QED BY <2>1, <2>2, <3>1
    <2>4. 1 \in 1..Len(attempts)
      BY <2>1
    <2>5. attempts'[1] = attempts[1]
      BY <2>3, <2>4
    <2>6. attempts'[2] = b /\ Len(attempts') = 2
      BY <2>1, <2>3
    <2>7. b = Prepared(i)
      BY DEF b
    <2> QED BY <2>3, <2>5, <2>6, <2>7
  <1>5. Attempts' /\ attempt' = Prepared(i) /\ current' = 1 /\ current = 0
        /\ attempt = attempts[1]
    BY <1>1, <1>4 DEF Attempts, attempt, current
  <1>6. GroupSound(0) /\ GroupSound(1)
    BY DEF IInv, Sequence
  <1>7. group[1].gate = "none" /\ group[0].gate # "held"
    BY <1>1, <1>5, <1>6 DEF GroupSound, IInv, Group, Sequence
  <1>8. GroupSound(0)' /\ GroupSound(1)'
    BY <1>1, <1>4, <1>5, <1>6, <1>7 DEF GroupSound
  <1>9. ~MayWrite(0)
    <2>1. CASE attempt.supervisor
      BY <1>1, <2>1 DEF Unspent, PositiveAbsence, MayWrite
    <2>2. CASE ~attempt.supervisor
      <3>1. group[0].gate # "open" /\ group[0].vendor = "none"
        BY <1>5, <1>6, <2>2 DEF GroupSound
      <3> QED BY <1>7, <3>1 DEF MayWrite
    <2> QED BY <2>1, <2>2
  <1>10. SequenceOneEarned'
    BY <1>1, <1>4, <1>5, <1>9 DEF SequenceOneEarned, Unspent, MayWrite
  <1>11. RunSound'
    BY <1>2, <1>3, <1>5 DEF RunSound
  <1>12. ReleasedSound'
    BY <1>1 DEF IInv, ReleasedSound, Opened
  <1> QED BY <1>1, <1>2, <1>5, <1>8, <1>10, <1>11, <1>12 DEF IInv, Sequence

LEMMA ReadingKeeps ==
  ASSUME IInv, Observe \/ BeginAttempt \/ Look \/ Verify \/ SupervisorReported
  PROVE  IInv'
PROOF
  <1>1. Scalars' /\ attempts' = attempts /\ released' = released
    BY DEF IInv, Scalars, Observe, BeginAttempt, Look, Verify, SupervisorReported
  <1>2. CASE Stop
    BY <1>1, <1>2, StopKeeps
  <1>3. CASE ~Stop
    <2>1. /\ run.pc \notin {"ready", "authorize", "release"} /\ group' = group
          /\ run' \in Runs
          /\ run'.pc \notin {"spawn", "ready", "authorize", "release"}
          /\ run'.pc = "issue" => attempt.state = "prepared"
      <3>1. CASE Observe
        BY <3>1 DEF Observe, IInv, Runs
      <3>2. CASE BeginAttempt
        BY <3>2 DEF BeginAttempt, GoOn, Startable, IInv, Runs
      <3>3. CASE Look
        <4>1. Classified(config) \in Config \cup {"unknown"}
          BY DEF Classified, IInv
        <4> QED BY <3>3, <4>1 DEF Look, IInv, Runs
      <3>4. CASE Verify
        BY <1>3, <3>4 DEF Verify, GoOn, IInv, Runs
      <3>5. CASE SupervisorReported
        BY <1>3, <3>5 DEF SupervisorReported, GoOn, IInv, Runs
      <3> QED BY <3>1, <3>2, <3>3, <3>4, <3>5
    <2> QED BY <1>1, <2>1, GoesOnKeeps
  <1> QED BY <1>2, <1>3

LEMMA EndingKeeps ==
  ASSUME IInv, InputsChanged \/ NotReady \/ SupervisorLost \/ Admit \/ Crash
  PROVE  IInv'
PROOF
  <1>1. Stop /\ attempts' = attempts /\ released' = released /\ Scalars'
    <2>1. CASE InputsChanged \/ NotReady \/ SupervisorLost
      BY <2>1 DEF InputsChanged, NotReady, SupervisorLost, IInv, Scalars
    <2>2. CASE Admit
      BY <2>2 DEF Admit, IInv, Scalars
    <2>3. CASE Crash
      <3>1. faults' \in 0..MaxFaults
        BY <2>3, BoundsAssumption DEF Crash, IInv
      <3> QED BY <2>3, <3>1 DEF Crash, IInv, Scalars
    <2> QED BY <2>1, <2>2, <2>3
  <1> QED BY <1>1, StopKeeps

LEMMA ConcludingKeeps ==
  ASSUME IInv, VerifyPassively \/ ConcludePassively \/ RecordResult
  PROVE  IInv'
PROOF
  <1>1. CASE VerifyPassively
    <2>1. CASE Stop /\ attempts' = attempts
      BY <1>1, <2>1, StopKeeps DEF VerifyPassively, IInv, Scalars
    <2>2. CASE Journal(Concluded("target")) /\ GoOn("verify")
      BY <1>1, <2>2, ConcludedKeeps DEF VerifyPassively
    <2> QED BY <1>1, <2>1, <2>2 DEF VerifyPassively
  <1>2. CASE ConcludePassively
    BY <1>2, ConcludedKeeps DEF ConcludePassively
  <1>3. CASE RecordResult
    BY <1>3, ConcludedKeeps DEF RecordResult
  <1> QED BY <1>1, <1>2, <1>3

\* The journal is one write ahead of what the recoverer does.
LEMMA IssueKeeps ==
  ASSUME IInv, IssueAttempt
  PROVE  IInv'
PROOF
  <1> DEFINE a == [attempt EXCEPT !.state = "issued", !.journal = TRUE]
  <1>1. /\ run.pc = "issue" /\ Journal(a) /\ run' = [run EXCEPT !.pc = "spawn"]
        /\ group' = group /\ released' = released /\ Scalars'
    BY DEF IssueAttempt, GoOn, IInv, Scalars
  <1>2. attempt \in Attempt /\ attempt.state = "prepared" /\ ~attempt.supervisor
    BY <1>1, Current DEF IInv, RunSound
  <1>3. a \in Attempt /\ a.state = "issued" /\ a.supervisor = attempt.supervisor
    BY <1>2 DEF Attempt, AttemptState
  <1>4. mine.gate # "open"
    BY <1>2, Current DEF IInv, GroupSound, mine
  <1> HIDE DEF a
  <1>5. JournalGoesOn /\ attempt' = a
    BY <1>1, <1>3, <1>4, JournalWritten
  <1>6. run' \in Runs /\ run'.pc = "spawn"
    BY <1>1 DEF IInv, Runs
  <1>7. GroupsGoOn
    BY <1>1, GroupsStay
  <1>8. RunSound'
    BY <1>3, <1>5, <1>6 DEF RunSound
  <1> QED BY <1>1, <1>5, <1>6, <1>7, <1>8, StepGoesOn

LEMMA RecordSupervisorKeeps ==
  ASSUME IInv, RecordSupervisor
  PROVE  IInv'
PROOF
  <1> DEFINE a == [attempt EXCEPT !.state = "spawn_generation_recorded",
                                  !.supervisor = TRUE]
  <1>1. /\ run.pc = "ready" /\ Journal(a) /\ run' = [run EXCEPT !.pc = "authorize"]
        /\ group' = group /\ released' = released /\ Scalars'
    BY DEF RecordSupervisor, GoOn, IInv, Scalars
  <1>2. attempt \in Attempt /\ mine.gate = "held"
    BY <1>1, Current DEF IInv, RunSound
  <1>3. a \in Attempt /\ a.state = "spawn_generation_recorded" /\ a.supervisor = TRUE
    BY <1>2 DEF Attempt, AttemptState
  <1> HIDE DEF a
  <1>4. JournalGoesOn /\ attempt' = a /\ current' = current
    BY <1>1, <1>2, <1>3, JournalWritten
  <1>5. run' \in Runs /\ run'.pc = "authorize"
    BY <1>1 DEF IInv, Runs
  <1>6. GroupsGoOn
    BY <1>1, <1>5, GroupsStay
  <1>7. mine'.gate = "held"
    BY <1>1, <1>2, <1>4 DEF mine
  <1>8. RunSound'
    BY <1>3, <1>4, <1>5, <1>7 DEF RunSound
  <1> QED BY <1>1, <1>4, <1>5, <1>6, <1>8, StepGoesOn

LEMMA AuthorizeKeeps ==
  ASSUME IInv, AuthorizeRelease
  PROVE  IInv'
PROOF
  <1> DEFINE a == [attempt EXCEPT !.state = "release_authorized"]
  <1>1. /\ run.pc = "authorize" /\ Journal(a) /\ run' = [run EXCEPT !.pc = "release"]
        /\ group' = group /\ released' = released /\ Scalars'
    BY DEF AuthorizeRelease, GoOn, IInv, Scalars
  <1>2. attempt \in Attempt /\ attempt.supervisor /\ mine.gate = "held"
    BY <1>1, Current DEF IInv, RunSound
  <1>3. a \in Attempt /\ a.state = "release_authorized" /\ a.supervisor
    BY <1>2 DEF Attempt, AttemptState
  <1> HIDE DEF a
  <1>4. JournalGoesOn /\ attempt' = a /\ current' = current
    BY <1>1, <1>2, <1>3, JournalWritten
  <1>5. run' \in Runs /\ run'.pc = "release"
    BY <1>1 DEF IInv, Runs
  <1>6. GroupsGoOn
    BY <1>1, <1>5, GroupsStay
  <1>7. mine'.gate = "held"
    BY <1>1, <1>2, <1>4 DEF mine
  <1>8. RunSound'
    BY <1>3, <1>4, <1>5, <1>7 DEF RunSound
  <1> QED BY <1>1, <1>4, <1>5, <1>6, <1>8, StepGoesOn

\* The vendor outlived seventy seconds: the whole group is killed.
LEMMA TimeOutKeeps ==
  ASSUME IInv, TimeOut
  PROVE  IInv'
PROOF
  <1>1. /\ run.pc = "wait" /\ run' = [run EXCEPT !.pc = "look_unsure"]
        /\ group' = [group EXCEPT ![current] = Killed(group[current])]
        /\ mine.supervisor \in {"blocked", "waiting"}
        /\ attempts' = attempts /\ released' = released /\ Scalars'
    BY DEF TimeOut, IInv, Scalars
  <1>2. current \in Sequence /\ group[current] \in Group /\ GroupSound(current)
    BY Current DEF IInv
  <1>3. /\ Killed(group[current]) \in Group
        /\ Killed(group[current]).supervisor = "killed"
        /\ Killed(group[current]).gate = group[current].gate
        /\ Killed(group[current]).vendor # "running"
        /\ Killed(group[current]).vendor # "none" => group[current].vendor # "none"
    BY <1>2 DEF Killed, Group
  <1>4. GroupsGoOn
    BY <1>1, <1>2, <1>3, GroupSet DEF GroupSound, mine
  <1>5. run' \in Runs /\ run'.pc = "look_unsure"
    BY <1>1 DEF IInv, Runs
  <1>6. JournalGoesOn /\ attempt' = attempt
    BY <1>1, JournalStays
  <1>7. RunSound'
    BY <1>5, <1>6 DEF IInv, RunSound
  <1> QED BY <1>1, <1>4, <1>5, <1>6, <1>7, StepGoesOn

\* The directory of the attempt is made, and the supervisor behind a closed gate.
LEMMA SpawnKeeps ==
  ASSUME IInv, SpawnBlocked
  PROVE  IInv'
PROOF
  <1>1. /\ run.pc = "spawn" /\ group[current].supervisor = "none"
        /\ run' = [run EXCEPT !.pc = "ready"]
        /\ attempts' = attempts /\ released' = released /\ Scalars'
    BY DEF SpawnBlocked, mine, IInv, Scalars
  <1>2. /\ current \in Sequence /\ group[current] \in Group
        /\ group \in [Sequence -> Group] /\ \A s \in Sequence : GroupSound(s)
    BY Current DEF IInv
  <1>3. current' = current /\ attempt' = attempt
    BY <1>1 DEF current, attempt
  <1>4. group[current].gate = "none" /\ group[current].vendor = "none"
    BY <1>1, <1>2 DEF GroupSound
  <1> DEFINE g == [group[current] EXCEPT !.supervisor = "starting", !.gate = "held"]
  <1>5. /\ g \in Group /\ g.supervisor = "starting" /\ g.gate = "held"
        /\ g.vendor = "none"
    BY <1>2, <1>4 DEF Group
  <1>6. group' = [group EXCEPT ![current] = g]
    <2> DEFINE half == [group EXCEPT ![current].supervisor = "starting"]
    <2>1. group' = [half EXCEPT ![current].gate = "held"]
      BY DEF SpawnBlocked
    <2>2. /\ half \in [Sequence -> Group]
          /\ half[current] = [group[current] EXCEPT !.supervisor = "starting"]
          /\ \A s \in Sequence : s # current => half[s] = group[s]
      BY <1>2 DEF Group
    <2>3. g = [half[current] EXCEPT !.gate = "held"]
      BY <1>2, <2>2 DEF Group
    <2> HIDE DEF half, g
    <2> QED BY <1>2, <2>1, <2>2, <2>3
  <1> HIDE DEF g
  <1>7. /\ group' \in [Sequence -> Group] /\ group'[current] = g
        /\ \A s \in Sequence : s # current => group'[s] = group[s]
    BY <1>2, <1>5, <1>6
  <1>8. run' \in Runs /\ run'.pc = "ready"
    BY <1>1 DEF IInv, Runs
  <1>9. \A s \in Sequence : GroupSound(s)'
    BY <1>1, <1>2, <1>3, <1>5, <1>7, <1>8, Current DEF GroupSound, Sequence, IInv
  <1>10. RunSound'
    BY <1>1, <1>3, <1>5, <1>7, <1>8 DEF IInv, RunSound, mine
  <1>11. ReleasedSound'
    <2>1. Opened(0)' = Opened(0) /\ Opened(1)' = Opened(1)
      BY <1>4, <1>5, <1>7 DEF Opened, Sequence
    <2> QED BY <1>1, <2>1 DEF IInv, ReleasedSound
  <1>12. SequenceOneEarned'
    <2>1. SUFFICES ASSUME Len(attempts) = 2
                   PROVE  attempts[1].state = "observed_prior" /\ ~MayWrite(0)'
      BY <1>1 DEF SequenceOneEarned
    <2>2. current = 1 /\ group'[0] = group[0]
      BY <1>7, <2>1, Current DEF IInv, Sequence
    <2> QED BY <2>1, <2>2 DEF IInv, SequenceOneEarned, MayWrite
  <1> QED BY <1>1, <1>7, <1>8, <1>9, <1>10, <1>11, <1>12 DEF IInv, Scalars, Attempts

\* The gate is opened once the journal says so, or closes with the recoverer.
LEMMA ReleaseKeeps ==
  ASSUME IInv, Release
  PROVE  IInv'
PROOF
  <1>1. Scalars' /\ attempts' = attempts /\ run.pc = "release"
    BY DEF Release, IInv, Scalars
  <1>2. CASE Stop /\ released' = released
    BY <1>1, <1>2, StopKeeps
  <1>3. CASE ~(Stop /\ released' = released)
    <2>1. /\ group' = [group EXCEPT ![current].gate = "open"]
          /\ run' = [run EXCEPT !.pc = "wait"]
          /\ released' = Append(released, run.invocation)
          /\ mine.supervisor = "blocked"
      BY <1>3 DEF Release
    <2>2. /\ current \in Sequence /\ group[current] \in Group
          /\ group \in [Sequence -> Group] /\ \A s \in Sequence : GroupSound(s)
          /\ attempt = attempts[current + 1]
      BY Current DEF IInv
    <2>3. /\ attempt.state = "release_authorized" /\ attempt.supervisor
          /\ group[current].gate = "held"
      BY <1>1 DEF IInv, RunSound, mine
    <2>4. current' = current /\ attempt' = attempt
      BY <1>1 DEF current, attempt
    <2>5. /\ group' \in [Sequence -> Group]
          /\ group'[current].gate = "open"
          /\ group'[current].supervisor = group[current].supervisor
          /\ group'[current].vendor = group[current].vendor
          /\ \A s \in Sequence : s # current => group'[s] = group[s]
      BY <2>1, <2>2 DEF Group
    <2>6. run' \in Runs /\ run'.pc = "wait"
      BY <2>1 DEF IInv, Runs
    <2>7. \A s \in Sequence : GroupSound(s)'
      BY <1>1, <2>1, <2>2, <2>3, <2>4, <2>5, <2>6 DEF GroupSound, Sequence
    <2>8. RunSound'
      BY <2>4, <2>6, <1>1 DEF IInv, RunSound
    <2>9. ReleasedSound'
      <3>1. /\ released' \in Seq(Invocation)
            /\ Len(released') = Len(released) + 1
        BY <2>1, AppendProperties DEF IInv, ReleasedSound, Runs
      <3>2. Opened(0)' + Opened(1)' = Opened(0) + Opened(1) + 1
        BY <2>2, <2>3, <2>5 DEF Opened, Sequence
      <3> QED BY <3>1, <3>2 DEF IInv, ReleasedSound
    <2>10. SequenceOneEarned'
      <3>1. MayWrite(0)' => MayWrite(0)
        BY <2>2, <2>3, <2>5 DEF MayWrite, Sequence
      <3> QED BY <1>1, <3>1 DEF IInv, SequenceOneEarned
    <2> QED BY <1>1, <2>5, <2>6, <2>7, <2>8, <2>9, <2>10 DEF IInv, Scalars, Attempts
  <1> QED BY <1>2, <1>3

-----------------------------------------------------------------------------
(* The process groups, and the configuration.                              *)

\* A group that takes a step of its own leaves the recoverer and its journal alone.
LEMMA GroupKeeps ==
  ASSUME IInv, GroupsGoOn, attempts' = attempts, run' = run, released' = released,
         Scalars', \A s \in Sequence : group'[s].gate = group[s].gate
  PROVE  IInv'
PROOF
  <1>1. JournalGoesOn /\ attempt' = attempt /\ current' = current
    BY JournalStays
  <1>2. mine'.gate = mine.gate
    BY <1>1, Current DEF IInv, mine
  <1>3. RunSound'
    BY <1>1, <1>2 DEF IInv, RunSound
  <1> QED BY <1>1, <1>3, StepGoesOn DEF IInv

LEMMA GroupStepKeeps ==
  ASSUME IInv, NEW s \in Sequence,
         GroupStep(s) \/ VendorExits(s) \/ SupervisorKilled(s)
  PROVE  IInv'
PROOF
  <1>1. /\ group[s] \in Group /\ GroupSound(s) /\ group \in [Sequence -> Group]
    BY DEF IInv
  <1>2. attempts' = attempts /\ run' = run /\ released' = released /\ Scalars'
    <2>1. CASE GroupStep(s) \/ VendorExits(s)
      BY <2>1 DEF GroupStep, VendorExits, SupervisorBlocks, SupervisorReleased,
                  SupervisorAbandoned, SupervisorReports, SetGroup, IInv, Scalars
    <2>2. CASE SupervisorKilled(s)
      <3>1. faults' \in 0..MaxFaults
        BY <2>2, BoundsAssumption DEF SupervisorKilled, IInv
      <3> QED BY <2>2, <3>1 DEF SupervisorKilled, SetGroup, IInv, Scalars
    <2> QED BY <2>1, <2>2
  <1>3. \E g \in Group :
          /\ group' = [group EXCEPT ![s] = g]
          /\ g.gate = group[s].gate
          /\ g.supervisor # "none" /\ group[s].supervisor # "none"
          /\ g.vendor # "none" => g.gate = "open"
          /\ g.vendor = "running" \/ g.supervisor \in {"starting", "blocked"} =>
               MayWrite(s) \/ (g.gate = "closed" /\ g.vendor # "running")
    <2>1. CASE SupervisorBlocks(s)
      <3> DEFINE g == [group[s] EXCEPT !.supervisor =
                         IF JournalValid /\ s = current THEN "blocked" ELSE "exited"]
      <3>1. group' = [group EXCEPT ![s] = g] /\ group[s].supervisor = "starting"
        BY <2>1 DEF SupervisorBlocks, SetGroup
      <3>2. /\ g \in Group /\ g.gate = group[s].gate /\ g.vendor = group[s].vendor
            /\ g.supervisor \in {"blocked", "exited"}
        BY <1>1 DEF Group
      <3>3. group[s].gate # "none"
        BY <1>1, <3>1 DEF GroupSound
      <3> HIDE DEF g
      <3>4. /\ g.supervisor # "none" /\ group[s].supervisor # "none"
            /\ g.vendor # "none" => g.gate = "open"
            /\ g.vendor = "running" \/ g.supervisor \in {"starting", "blocked"} =>
                 MayWrite(s) \/ (g.gate = "closed" /\ g.vendor # "running")
        BY <1>1, <3>1, <3>2, <3>3 DEF GroupSound, MayWrite, Group
      <3> QED BY <3>1, <3>2, <3>4
    <2>2. CASE SupervisorReleased(s)
      <3> DEFINE g == [group[s] EXCEPT !.supervisor = "waiting", !.vendor = "running"]
      <3>1. /\ group' = [group EXCEPT ![s] = g]
            /\ group[s].supervisor = "blocked" /\ group[s].gate = "open"
        BY <2>2 DEF SupervisorReleased, SetGroup, GateOpened
      <3>2. /\ g \in Group /\ g.gate = group[s].gate /\ g.supervisor = "waiting"
        BY <1>1 DEF Group
      <3> HIDE DEF g
      <3>3. /\ g.supervisor # "none" /\ group[s].supervisor # "none"
            /\ g.vendor # "none" => g.gate = "open"
            /\ g.vendor = "running" \/ g.supervisor \in {"starting", "blocked"} =>
                 MayWrite(s) \/ (g.gate = "closed" /\ g.vendor # "running")
        BY <1>1, <3>1, <3>2 DEF MayWrite
      <3> QED BY <3>1, <3>2, <3>3
    <2>3. CASE SupervisorAbandoned(s)
      <3> DEFINE g == [group[s] EXCEPT !.supervisor = "exited"]
      <3>1. /\ group' = [group EXCEPT ![s] = g]
            /\ group[s].supervisor = "blocked"
        BY <2>3 DEF SupervisorAbandoned, SetGroup
      <3>2. /\ g \in Group /\ g.gate = group[s].gate /\ g.vendor = group[s].vendor
            /\ g.supervisor = "exited"
        BY <1>1 DEF Group
      <3> HIDE DEF g
      <3>3. /\ g.supervisor # "none" /\ group[s].supervisor # "none"
            /\ g.vendor # "none" => g.gate = "open"
            /\ g.vendor = "running" \/ g.supervisor \in {"starting", "blocked"} =>
                 MayWrite(s) \/ (g.gate = "closed" /\ g.vendor # "running")
        BY <1>1, <3>1, <3>2 DEF GroupSound, MayWrite
      <3> QED BY <3>1, <3>2, <3>3
    <2>4. CASE SupervisorReports(s)
      <3> DEFINE g == [group[s] EXCEPT !.supervisor = "reported"]
      <3>1. /\ group' = [group EXCEPT ![s] = g]
            /\ group[s].supervisor = "waiting"
        BY <2>4 DEF SupervisorReports, SetGroup
      <3>2. /\ g \in Group /\ g.gate = group[s].gate /\ g.vendor = group[s].vendor
            /\ g.supervisor = "reported"
        BY <1>1 DEF Group
      <3> HIDE DEF g
      <3>3. /\ g.supervisor # "none" /\ group[s].supervisor # "none"
            /\ g.vendor # "none" => g.gate = "open"
            /\ g.vendor = "running" \/ g.supervisor \in {"starting", "blocked"} =>
                 MayWrite(s) \/ (g.gate = "closed" /\ g.vendor # "running")
        BY <1>1, <3>1, <3>2 DEF GroupSound, MayWrite
      <3> QED BY <3>1, <3>2, <3>3
    <2>5. CASE VendorExits(s)
      <3> DEFINE g == [group[s] EXCEPT !.vendor = "gone"]
      <3>1. /\ group' = [group EXCEPT ![s] = g]
            /\ group[s].vendor = "running"
        BY <2>5 DEF VendorExits, SetGroup
      <3>2. /\ g \in Group /\ g.gate = group[s].gate /\ g.vendor = "gone"
            /\ g.supervisor = group[s].supervisor
        BY <1>1 DEF Group
      <3> HIDE DEF g
      <3>3. /\ g.supervisor # "none" /\ group[s].supervisor # "none"
            /\ g.vendor # "none" => g.gate = "open"
            /\ g.vendor = "running" \/ g.supervisor \in {"starting", "blocked"} =>
                 MayWrite(s) \/ (g.gate = "closed" /\ g.vendor # "running")
        BY <1>1, <3>1, <3>2 DEF GroupSound, MayWrite
      <3> QED BY <3>1, <3>2, <3>3
    <2>6. CASE SupervisorKilled(s)
      <3> DEFINE g == [group[s] EXCEPT !.supervisor =
                         IF @ = "starting" THEN "exited" ELSE "killed"]
      <3>1. /\ group' = [group EXCEPT ![s] = g]
            /\ group[s].supervisor \in {"starting", "blocked", "waiting"}
        BY <2>6 DEF SupervisorKilled, SetGroup
      <3>2. /\ g \in Group /\ g.gate = group[s].gate /\ g.vendor = group[s].vendor
            /\ g.supervisor \in {"exited", "killed"}
        BY <1>1 DEF Group
      <3> HIDE DEF g
      <3>3. /\ g.supervisor # "none" /\ group[s].supervisor # "none"
            /\ g.vendor # "none" => g.gate = "open"
            /\ g.vendor = "running" \/ g.supervisor \in {"starting", "blocked"} =>
                 MayWrite(s) \/ (g.gate = "closed" /\ g.vendor # "running")
        BY <1>1, <3>1, <3>2 DEF GroupSound, MayWrite
      <3> QED BY <3>1, <3>2, <3>3
    <2> QED BY <2>1, <2>2, <2>3, <2>4, <2>5, <2>6 DEF GroupStep
  <1>4. PICK g \in Group :
          /\ group' = [group EXCEPT ![s] = g]
          /\ g.gate = group[s].gate
          /\ g.supervisor # "none" /\ group[s].supervisor # "none"
          /\ g.vendor # "none" => g.gate = "open"
          /\ g.vendor = "running" \/ g.supervisor \in {"starting", "blocked"} =>
               MayWrite(s) \/ (g.gate = "closed" /\ g.vendor # "running")
    BY <1>3
  <1>5. GroupsGoOn
    BY <1>2, <1>4, GroupSet
  <1>6. \A t \in Sequence : group'[t].gate = group[t].gate
    BY <1>1, <1>4
  <1> QED BY <1>2, <1>5, <1>6, GroupKeeps

LEMMA ConfigKeeps ==
  ASSUME IInv, EditConfig \/ \E s \in Sequence : VendorWrites(s)
  PROVE  IInv'
PROOF
  <1>1. /\ attempts' = attempts /\ group' = group /\ run' = run
        /\ released' = released
    BY DEF EditConfig, VendorWrites
  <1>2. Scalars'
    <2>1. CASE EditConfig
      <3>1. edits' \in 0..MaxEdits
        BY <2>1, BoundsAssumption DEF EditConfig, IInv
      <3> QED BY <2>1, <3>1 DEF EditConfig, IInv, Scalars
    <2>2. CASE \E s \in Sequence : VendorWrites(s)
      BY <2>2 DEF VendorWrites, Config, IInv, Scalars
    <2> QED BY <2>1, <2>2
  <1>3. GroupsGoOn
    BY <1>1, GroupsStay
  <1> QED BY <1>1, <1>2, <1>3, GroupKeeps

-----------------------------------------------------------------------------
(* The theorems.                                                           *)

LEMMA InitSound == Init => IInv
PROOF
  <1> SUFFICES ASSUME Init PROVE IInv
    OBVIOUS
  <1>1. PICK i \in Invocation : attempts = <<Prepared(i)>>
    BY DEF Init
  <1>2. Prepared(i) \in Attempt /\ Prepared(i).supervisor = FALSE
    BY DEF Prepared, Attempt, AttemptState
  <1>3. /\ Attempts /\ Len(attempts) = 1 /\ attempts[1] = Prepared(i)
    BY <1>1, <1>2 DEF Attempts
  <1>4. attempt = Prepared(i)
    BY <1>3 DEF attempt
  <1>5. group = [s \in Sequence |-> NoGroup] /\ NoGroup \in Group
    BY DEF Init, NoGroup, Group
  <1>6. run \in Runs /\ run.pc = "idle"
    BY InvocationAssumption DEF Init, NotRunning, Runs
  <1>7. \A s \in Sequence : GroupSound(s)
    BY <1>5 DEF NoGroup, GroupSound
  <1>8. RunSound
    BY <1>2, <1>4, <1>6 DEF RunSound
  <1>9. ReleasedSound
    BY <1>5 DEF Init, ReleasedSound, Opened, Sequence, NoGroup
  <1>10. SequenceOneEarned
    BY <1>3 DEF SequenceOneEarned
  <1>11. Scalars
    <2>1. 0 \in 0..MaxFaults /\ 0 \in 0..MaxEdits
      BY BoundsAssumption
    <2> QED BY <2>1 DEF Init, Scalars, Config
  <1> QED BY <1>3, <1>5, <1>6, <1>7, <1>8, <1>9, <1>10, <1>11 DEF IInv, Scalars

LEMMA StepKeeps == IInv /\ [Next]_vars => IInv'
PROOF
  <1> SUFFICES ASSUME IInv, [Next]_vars PROVE IInv'
    OBVIOUS
  <1>1. CASE \E i \in Invocation : Recover(i) \/ AppendSequenceOne(i)
    BY <1>1, BeginsKeep, AppendKeeps
  <1>2. CASE RunStep
    BY <1>2, ReadingKeeps, EndingKeeps, ConcludingKeeps, IssueKeeps, SpawnKeeps,
       RecordSupervisorKeeps, AuthorizeKeeps, ReleaseKeeps, TimeOutKeeps DEF RunStep
  <1>3. CASE \E s \in Sequence : GroupStep(s) \/ VendorExits(s) \/ VendorWrites(s)
                                   \/ SupervisorKilled(s)
    BY <1>3, GroupStepKeeps, ConfigKeeps
  <1>4. CASE Crash
    BY <1>4, EndingKeeps
  <1>5. CASE EditConfig
    BY <1>5, ConfigKeeps
  <1>6. CASE UNCHANGED vars
    <2>1. /\ attempts' = attempts /\ group' = group /\ run' = run
          /\ released' = released /\ Scalars'
      BY <1>6 DEF vars, IInv, Scalars
    <2>2. GroupsGoOn
      BY <2>1, GroupsStay
    <2> QED BY <2>1, <2>2, GroupKeeps
  <1> QED BY <1>1, <1>2, <1>3, <1>4, <1>5, <1>6 DEF Next

\* What the journal, the gates and the processes of a native transaction always
\* have in common, whichever recoverer or supervisor dies at which point.
THEOREM AttemptsInvariant == Spec => []IInv
PROOF
  <1> QED BY InitSound, StepKeeps, PTL DEF Spec

LEMMA InvariantAccounts == IInv => AttemptsAccounted
PROOF
  <1> SUFFICES ASSUME IInv PROVE AttemptsAccounted
    OBVIOUS
  <1>1. VendorOnRecord
    BY DEF IInv, GroupSound, VendorOnRecord
  <1>2. Len(released) <= Len(attempts)
    <2>1. CASE Len(attempts) = 1
      <3>1. current = 0 /\ GroupSound(1)
        BY <2>1, Current DEF IInv, Sequence
      <3>2. Opened(1) = 0
        BY <3>1 DEF GroupSound, Opened
      <3> QED BY <2>1, <3>2 DEF IInv, ReleasedSound, Opened
    <2>2. CASE Len(attempts) = 2
      BY <2>2 DEF IInv, ReleasedSound, Opened
    <2> QED BY <2>1, <2>2 DEF IInv, Attempts
  <1>3. TypeOK
    BY <1>2 DEF IInv, Attempts, Runs, TypeOK
  <1> QED BY <1>1, <1>3 DEF IInv, AttemptsAccounted

\* No vendor program ever runs that the journal does not account for, with the
\* process group it runs in and the authorization of its release; each attempt opens
\* its gate at most once; and a second attempt never meets the first one's writer.
THEOREM AttemptsAlwaysAccounted == Spec => []AttemptsAccounted
PROOF
  <1> QED BY AttemptsInvariant, InvariantAccounts, PTL
=============================================================================
