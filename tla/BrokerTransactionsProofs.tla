----------------------- MODULE BrokerTransactionsProofs -----------------------
(***************************************************************************)
(* Proofs about BrokerTransactions for every council, every round policy   *)
(* and any number of transitions, exceptions and crashes.                  *)
(*                                                                         *)
(* A handler is many writes, and what each of them may rely on was found   *)
(* out by an earlier one, maybe before a crash.  The inductive invariant   *)
(* has a part for each file (what the manifest and the files it names,     *)
(* the outbox, final.json and the log say of one another), a part for each *)
(* place of a handler (what has been reconciled by the time it is there)   *)
(* and one for a handler about to commit: the manifest it will save is a   *)
(* legal move of the dialogue, and what it has staged fits it.             *)
(*                                                                         *)
(* The last two sections prove that this implements DialogueProtocol and   *)
(* so keeps what is promised there.                                        *)
(***************************************************************************)
EXTENDS BrokerTransactions, DialogueProtocolProofs, Integers, FiniteSetTheorems

-----------------------------------------------------------------------------
(* The dialogue, and the move a handler is about to commit.                *)

Good(m) ==
  /\ Sound(m) /\ History(m)
  /\ m.phase # "absent" => m.peers # {}

\* Some handler takes the dialogue from m to n: DialogueProtocol's actions.
Moved(m, n) ==
  \/ \E initiator \in Participant, peers \in SUBSET Participant :
       \E minimum, rounds, max \in Round, stop \in BOOLEAN :
         /\ m.phase = "absent"
         /\ ValidStart(initiator, peers, minimum, rounds, max)
         /\ n = StartedManifest(initiator, peers, minimum, rounds, max, stop)
  \/ \E participant \in ParticipantNames(m), kind \in Kind :
       \E round \in Round, payload \in Payload(kind) :
         /\ m.phase # "absent"
         /\ IsExpected(m, participant, kind)
         /\ SubmitOutcome(m, participant, kind, round, payload) = "accepted"
         /\ n = SubmittedManifest(m, participant, kind, payload)
  \/ \E id \in ExtensionId, additional \in 1..MaxCouncilRounds :
       /\ m.phase # "absent"
       /\ CanExtend(m, id, additional)
       /\ n = ExtendedManifest(m, id, additional)
  \/ /\ m.phase \in Collecting
     /\ n = CancelledManifest(m)

\* A request that the dialogue m has the answer to.
Answered(m, id) ==
  \E s \in Target(m, outbox[id].kind, outbox[id].round) :
    s.participant = id.recipient

\* A request for what m is collecting now.
Awaited(m, id) ==
  /\ m.phase \in Collecting
  /\ outbox[id].kind = ExpectedKind[m.phase]
  /\ outbox[id].round = m.current_round
  /\ id.recipient \in m.required_submitters

-----------------------------------------------------------------------------
(* What the files say.                                                     *)

WellFormed(s) ==
  s = [m |-> s.m, committed_transition_id |-> s.committed_transition_id,
       transition_supersedes |-> s.transition_supersedes,
       pending_audit_events |-> s.pending_audit_events, born |-> s.born]

\* Every path of the manifest leads to a file, and to one only.
FilesSound ==
  /\ files \subseteq Submission
  /\ \A f, g \in files : Path(f) = Path(g) => f = g
  /\ WellFormed(saved) /\ saved.m = Unloaded(manifest)
  /\ Good(manifest)

Numbered ==
  /\ nextTx \in 1..(MaxTransitions + 1)
  /\ faults \in 0..MaxFaults /\ clean \in BOOLEAN
  /\ committed \subseteq 1..(nextTx - 1)
  /\ manifest.phase = "absent" =>
       committed = {} /\ saved.committed_transition_id = 0
  /\ manifest.phase # "absent" =>
       /\ saved.committed_transition_id \in committed
       /\ saved.born \in committed
       /\ \A t \in committed :
            saved.born <= t /\ t <= saved.committed_transition_id

\* A record says what its transition, committed or not, made of it.
MessageRecordSound(id) ==
  /\ id \in MessageId /\ id.tx < nextTx /\ outbox[id] \in OutboxRecord
  /\ IF id.tx \in committed
     THEN /\ outbox[id].status \notin {"aborted", "orphaned"}
          /\ outbox[id].status = "staged" => id.tx = saved.committed_transition_id
          /\ outbox[id].kind = "complete" =>
               /\ manifest.phase = "complete"
               /\ id.tx = saved.committed_transition_id
          /\ outbox[id].kind \in Kind /\ outbox[id].status \in Live \cup {"staged"} =>
               \/ Answered(manifest, id) \/ Awaited(manifest, id)
               \/ id \in saved.transition_supersedes
     ELSE outbox[id].status \in {"staged", "aborted", "orphaned"}
  /\ outbox[id].status = "acknowledged" => ResponseIsSafe(id)

RecordsSound == \A id \in DOMAIN outbox : MessageRecordSound(id)

SupersedesSound ==
  /\ \A id \in saved.transition_supersedes :
       id \in DOMAIN outbox /\ id.tx < saved.committed_transition_id
  /\ saved.transition_supersedes # {} =>
       \E id \in DOMAIN outbox : id.tx = saved.committed_transition_id
  /\ SupersededFirst

FinalSound ==
  /\ final \in 0..MaxTransitions
  /\ manifest.phase = "complete" => final = saved.committed_transition_id

\* What the log holds or the manifest still intends to write.
Known == DOMAIN audit \cup saved.pending_audit_events

AuditSound ==
  /\ \A e \in DOMAIN audit : audit[e] = 1
  /\ \A e \in Known : e.tx \in committed
  /\ \A tx \in committed : \E e \in Known : e.tx = tx /\ e.recipient = "none"
  /\ manifest.phase = "complete" =>
       TransitionEvent("dialogue_completed", saved.committed_transition_id) \in Known

-----------------------------------------------------------------------------
(* What a handler has done by the time it is somewhere.                    *)

Places == {"idle", "drain", "resume", "prepare", "stage", "audit", "activate",
           "ack", "ack_audit", "down"} \cup Recovering

Serving == Places \ ({"down"} \cup Recovering)

Reconciled == ToSupersede = {} /\ ToActivate = {}

AckIntent == MessageEvent("message_acknowledgement_recovered", msg)

MessageSound ==
  /\ msg \in MessageId \cup {NoMessage}
  /\ pc \in {"idle", "drain", "prepare", "stage", "audit", "down",
             "recover_drain", "recover_final"} => msg = NoMessage
  /\ pc \in {"resume", "activate", "recover_outbox"} /\ msg # NoMessage =>
       msg \in DOMAIN outbox /\ outbox[msg].status = "pending"
  /\ pc \in {"ack", "recover_ack"} =>
       /\ msg \in DOMAIN outbox /\ outbox[msg].status = "delivered"
       /\ ResponseIsSafe(msg)
  /\ pc \in {"ack_audit", "recover_ack_audit"} => msg \in DOMAIN outbox

HandlerSound ==
  /\ pc \in Places
  /\ pc # "stage" => draft = NothingSaved
  /\ pc \in {"resume", "prepare", "stage", "activate", "recover_final",
             "recover_outbox"} => saved.pending_audit_events = {}
  /\ pc \in {"recover_ack", "recover_ack_audit"} =>
       saved.pending_audit_events = {AckIntent}
  /\ pc \in {"prepare", "stage"} => Reconciled

\* Recovery forgets no staged record.
SweepSound ==
  pc \in {"recover_outbox", "recover_ack", "recover_ack_audit"} =>
    /\ todo \subseteq DOMAIN outbox
    /\ \A id \in DOMAIN outbox : outbox[id].status = "staged" => id \in todo

\* As long as no handler fails, the only staged records are those of the last
\* transition and of the one being prepared.
CleanSound ==
  clean /\ pc \in Serving =>
    /\ \A id \in DOMAIN outbox : outbox[id].status = "staged" =>
         \/ id.tx = saved.committed_transition_id
         \/ pc = "stage" /\ id.tx = Tx
    /\ pc = "idle" => saved.pending_audit_events = {}
    /\ pc \in {"ack", "ack_audit"} => saved.pending_audit_events = {AckIntent}
    /\ pc \in {"idle", "ack", "ack_audit"} => Reconciled

\* The manifest that the handler will save.
upcoming == Loaded(draft.m)

Asked(recipient) ==
  upcoming.phase \in Collecting => recipient \in upcoming.required_submitters

\* The handler is about to commit a legal move, with what belongs to it.
StageSound ==
  pc = "stage" =>
    /\ WellFormed(draft) /\ draft.m = Unloaded(upcoming)
    /\ Good(upcoming) /\ Moved(manifest, upcoming)
    /\ Tx = nextTx - 1 /\ Tx \in TxId /\ Tx \notin committed
    /\ draft.born = IF manifest.phase = "absent" THEN Tx ELSE saved.born
    /\ todo \subseteq Participant /\ \A p \in todo : Asked(p)
    /\ \A id \in draft.transition_supersedes : id \in DOMAIN outbox /\ id.tx < Tx
    /\ draft.transition_supersedes # {} =>
         todo # {} \/ \E id \in DOMAIN outbox : id.tx = Tx
    /\ \E e \in draft.pending_audit_events : e.recipient = "none"
    /\ \A e \in draft.pending_audit_events : e.tx = Tx
    /\ upcoming.phase = "complete" =>
         TransitionEvent("dialogue_completed", Tx) \in draft.pending_audit_events
    /\ \A id \in DOMAIN outbox : id.tx = Tx =>
         /\ outbox[id].status = "staged"
         /\ outbox[id].kind = RequestKind(upcoming)
         /\ outbox[id].round = upcoming.current_round
         /\ Asked(id.recipient)
    /\ \A id \in DOMAIN outbox :
         outbox[id].status \in Live /\ (Answered(manifest, id) \/ Awaited(manifest, id))
           => \/ Answered(upcoming, id) \/ Awaited(upcoming, id)
              \/ id \in draft.transition_supersedes

DiskSound == /\ FilesSound /\ Numbered /\ RecordsSound /\ SupersedesSound
             /\ FinalSound /\ AuditSound

PlaceSound == /\ MessageSound /\ HandlerSound /\ SweepSound
              /\ CleanSound /\ StageSound

IInv == DiskSound /\ PlaceSound

-----------------------------------------------------------------------------
(* Moves of the dialogue.                                                  *)

\* What a request p of kind k for round r needs of a manifest: Answered and
\* Awaited for a request that is not in any outbox.
AnswerIn(m, k, r, p) == \E s \in Target(m, k, r) : s.participant = p

AwaitedIn(m, k, r, p) ==
  /\ m.phase \in Collecting
  /\ k = ExpectedKind[m.phase] /\ r = m.current_round
  /\ p \in m.required_submitters

LEMMA AnswerKept ==
  ASSUME NEW m, NEW n, m.submissions \subseteq n.submissions,
         NEW k, NEW r, NEW p, AnswerIn(m, k, r, p)
  PROVE  AnswerIn(n, k, r, p)
PROOF BY DEF AnswerIn, Target

LEMMA StartedGood ==
  ASSUME NEW initiator \in Participant, NEW peers \in SUBSET Participant,
         NEW minimum \in Round, NEW rounds \in Round, NEW max \in Round,
         NEW stop \in BOOLEAN, ValidStart(initiator, peers, minimum, rounds, max)
  PROVE  LET n == StartedManifest(initiator, peers, minimum, rounds, max, stop)
         IN  Good(n) /\ n.phase = "collecting_proposals"
PROOF
  <1>1. peers # {}
    BY FS_EmptySet DEF ValidStart
  <1>2. LET n == StartedManifest(initiator, peers, minimum, rounds, max, stop)
        IN  Sound(n) /\ n.phase = "collecting_proposals" /\ n.peers = peers
    BY StartedSound DEF StartedManifest
  <1>3. History(StartedManifest(initiator, peers, minimum, rounds, max, stop))
    BY EmptyHistory DEF StartedManifest, ParticipantNames
  <1> QED BY <1>1, <1>2, <1>3 DEF Good

\* A move keeps the dialogue's members, so there are peers as before.
LEMMA GoodKept ==
  ASSUME NEW m, Good(m), m.phase # "absent",
         NEW n, Sound(n), History(n), n.peers = m.peers
  PROVE  Good(n)
PROOF BY DEF Good

\* Whatever phase a complete barrier leads to, the members stay.
LEMMA AfterBarrierPeers ==
  ASSUME NEW m, m \in Manifest, m.phase \in Collecting
  PROVE  AfterBarrier(m).peers = m.peers
PROOF
  <1>1. CASE m.phase = "collecting_convergence_challenge"
    BY <1>1 DEF AfterBarrier, AfterChallenge, OpenExchangeRound, OpenSynthesis,
                Manifest
  <1>2. CASE m.phase # "collecting_convergence_challenge"
    BY <1>2, OpenFields
       DEF AfterBarrier, AfterExchange, AfterRepresentationChecks, Collecting, Moves
  <1> QED BY <1>1, <1>2

\* An accepted submission answers what was awaited, or it is awaited still.
LEMMA SubmittedMoves ==
  ASSUME NEW m, Good(m), NEW participant \in ParticipantNames(m),
         NEW kind \in Kind, NEW payload \in Payload(kind),
         IsExpected(m, participant, kind)
  PROVE  LET n == SubmittedManifest(m, participant, kind, payload)
         IN  /\ Good(n) /\ Advances(m, n) /\ n.phase # "absent"
             /\ m.phase \in Collecting
             /\ n.submissions = m.submissions \cup
                  {[kind |-> kind, round |-> ArtifactRound(m),
                    participant |-> participant, payload |-> payload]}
             /\ \A k, r, p : AwaitedIn(m, k, r, p) =>
                  AnswerIn(n, k, r, p) \/ AwaitedIn(n, k, r, p)
PROOF
  <1> DEFINE n == SubmittedManifest(m, participant, kind, payload)
             s == [kind |-> kind, round |-> ArtifactRound(m),
                   participant |-> participant, payload |-> payload]
             recorded == [m EXCEPT !.submissions = @ \cup {s}]
  <1>1. /\ Sound(m) /\ History(m) /\ m \in Manifest /\ m.phase \in Collecting
        /\ kind = ExpectedKind[m.phase] /\ participant \in Participant
    BY DEF Good, Sound, IsExpected, ParticipantNames, Manifest
  <1>2. Sound(n) /\ History(n) /\ Advances(m, n)
    BY <1>1, SubmittedSound, SubmittedHistory, SubmittedAdvances
  <1>3. /\ recorded.submissions = m.submissions \cup {s}
        /\ recorded.phase = m.phase /\ recorded.peers = m.peers
        /\ recorded.current_round = m.current_round
        /\ recorded.required_submitters = m.required_submitters
    BY <1>1 DEF Manifest
  <1>4. s \in Submission
    BY <1>1, RoundsAssumption, PayloadType
       DEF Submission, ArtifactRound, Manifest, Round
  <1>5. n = IF Submitters(Target(recorded, kind, ArtifactRound(m)))
                 = m.required_submitters
            THEN AfterBarrier(recorded) ELSE recorded
    BY DEF SubmittedManifest
  <1> HIDE DEF s
  <1>6. Sound(recorded)
    BY <1>1, <1>4, RecordSound DEF Collecting
  <1> HIDE DEF recorded, n
  <1>7. n \in {recorded, AfterBarrier(recorded)}
    BY <1>5
  <1>8. n.peers = m.peers
    BY <1>1, <1>3, <1>6, <1>7, AfterBarrierPeers DEF Sound
  <1>9. n.phase # "absent"
    <2>1. CASE n = recorded
      BY <1>1, <1>3, <2>1 DEF Collecting
    <2>2. CASE n = AfterBarrier(recorded)
      <3>1. recorded \in Manifest /\ recorded.phase \in Collecting
        BY <1>1, <1>3, <1>6 DEF Sound
      <3>2. CASE recorded.phase = "collecting_convergence_challenge"
        BY <2>2, <3>1, <3>2 DEF AfterBarrier, AfterChallenge, OpenExchangeRound,
                                OpenSynthesis, Manifest
      <3>3. CASE recorded.phase # "collecting_convergence_challenge"
        BY <2>2, <3>1, <3>3, OpenFields
           DEF AfterBarrier, AfterExchange, AfterRepresentationChecks, Collecting
      <3> QED BY <3>2, <3>3
    <2> QED BY <1>7, <2>1, <2>2
  <1>10. ASSUME NEW k, NEW r, NEW p, AwaitedIn(m, k, r, p)
         PROVE  AnswerIn(n, k, r, p) \/ AwaitedIn(n, k, r, p)
    <2>1. CASE n = recorded
      BY <1>3, <1>10, <2>1 DEF AwaitedIn
    <2>2. CASE n # recorded
      <3>1. /\ n = AfterBarrier(recorded)
            /\ Submitters(Target(recorded, kind, ArtifactRound(m)))
                 = m.required_submitters
        BY <1>5, <2>2
      <3>2. n.submissions = recorded.submissions
        BY <1>1, <1>3, <1>6, <3>1, AfterBarrierContext
      <3>3. k = kind /\ r = ArtifactRound(m)
        BY <1>1, <1>10 DEF AwaitedIn, ArtifactRound, History, RoundsClosed
      <3>4. AnswerIn(recorded, k, r, p)
        BY <1>10, <3>1, <3>3 DEF AwaitedIn, AnswerIn, Submitters
      <3> QED BY <3>2, <3>4, AnswerKept
    <2> QED BY <2>1, <2>2
  <1>11. Good(n)
    BY <1>1, <1>2, <1>8, GoodKept DEF Collecting
  <1>12. n.submissions = m.submissions \cup {s}
    <2>1. recorded.phase \in Collecting
      BY <1>1, <1>3
    <2> QED BY <1>3, <1>6, <1>7, <2>1, AfterBarrierContext
  <1> QED BY <1>1, <1>2, <1>9, <1>10, <1>11, <1>12 DEF n, s

\* Only the synthesis that was asked for is not wanted after an extension.
LEMMA ExtendedMoves ==
  ASSUME NEW m, Good(m), NEW id \in ExtensionId,
         NEW additional \in 1..MaxCouncilRounds, CanExtend(m, id, additional)
  PROVE  LET n == ExtendedManifest(m, id, additional)
         IN  /\ Good(n) /\ Advances(m, n)
             /\ m.phase \in {"collecting_exchange", "collecting_synthesis"}
             /\ n.phase = "collecting_exchange"
             /\ n.submissions = m.submissions
             /\ n.required_submitters = ParticipantNames(n)
             /\ m.phase = "collecting_exchange" => n.current_round = m.current_round
             /\ m.phase = "collecting_synthesis" =>
                  n.current_round = m.current_round + 1
             /\ \A k, r, p : AwaitedIn(m, k, r, p) =>
                  \/ AwaitedIn(n, k, r, p)
                  \/ /\ m.phase = "collecting_synthesis"
                     /\ k = "synthesis" /\ p = m.initiator
PROOF
  <1> DEFINE n == ExtendedManifest(m, id, additional)
  <1>1. /\ Sound(m) /\ History(m) /\ m \in Manifest
        /\ m.phase \in {"collecting_exchange", "collecting_synthesis"}
    BY DEF Good, Sound, CanExtend
  <1>2. Sound(n) /\ History(n) /\ Advances(m, n)
    BY <1>1, ExtendedSound, ExtendedHistory, ExtendedAdvances
  <1>3. /\ n.phase = "collecting_exchange" /\ n.peers = m.peers
        /\ n.submissions = m.submissions
        /\ m.phase = "collecting_exchange" =>
             /\ n.current_round = m.current_round
             /\ n.required_submitters = m.required_submitters
        /\ m.phase = "collecting_synthesis" => n.current_round = m.current_round + 1
    BY <1>1 DEF ExtendedManifest, OpenExchangeRound, Manifest
  <1> HIDE DEF n
  <1>4. Good(n)
    BY <1>1, <1>2, <1>3, GoodKept
  <1>5. n.required_submitters = ParticipantNames(n)
    BY <1>2, <1>3 DEF History, Waits
  <1>6. ASSUME NEW k, NEW r, NEW p, AwaitedIn(m, k, r, p)
        PROVE  \/ AwaitedIn(n, k, r, p)
               \/ /\ m.phase = "collecting_synthesis"
                  /\ k = "synthesis" /\ p = m.initiator
    <2>1. CASE m.phase = "collecting_exchange"
      BY <1>3, <1>6, <2>1 DEF AwaitedIn
    <2>2. CASE m.phase = "collecting_synthesis"
      BY <1>1, <1>6, <2>2 DEF AwaitedIn, ExpectedKind, History, Waits
    <2> QED BY <1>1, <2>1, <2>2
  <1> QED BY <1>1, <1>2, <1>3, <1>4, <1>5, <1>6 DEF n

LEMMA CancelledMoves ==
  ASSUME NEW m, Good(m), m.phase \in Collecting
  PROVE  LET n == CancelledManifest(m)
         IN  /\ Good(n) /\ Advances(m, n) /\ n.phase = "cancelled"
             /\ n.submissions = m.submissions
             /\ ParticipantNames(n) = ParticipantNames(m)
PROOF
  <1> DEFINE n == CancelledManifest(m)
  <1>1. /\ Sound(m) /\ History(m) /\ m \in Manifest /\ m.phase # "absent"
    BY DEF Good, Sound, Collecting
  <1>2. /\ n.phase = "cancelled" /\ n.peers = m.peers
        /\ n.submissions = m.submissions
        /\ Moves(m, n) /\ n.current_round = m.current_round
    BY <1>1 DEF CancelledManifest, Manifest, Moves
  <1>3. Sound(n) /\ History(n)
    BY <1>1, PhaseChange, CancelledHistory DEF CancelledManifest, Terminal
  <1> HIDE DEF n
  <1>4. Advances(m, n) /\ Good(n)
    BY <1>1, <1>2, <1>3, NextRoundAdvances, GoodKept
  <1> QED BY <1>2, <1>4 DEF n, Advances

\* A dialogue that has begun and not ended moves on, and never back.
LEMMA MovedOn ==
  ASSUME NEW m, Good(m), NEW n, Moved(m, n)
  PROVE  /\ m.phase \notin Terminal /\ n.phase # "absent"
         /\ m.phase # "absent" => Advances(m, n)
PROOF
  <1>1. CASE m.phase = "absent"
    BY <1>1 DEF Moved, StartedManifest, Collecting, Terminal
  <1>2. CASE m.phase # "absent"
    BY <1>2, SubmittedMoves, ExtendedMoves, CancelledMoves DEF Moved, Collecting, Terminal
  <1> QED BY <1>1, <1>2

-----------------------------------------------------------------------------
(* The operators of the instance Dialogue are those of this module, seen   *)
(* through INSTANCE: a move is a step of DialogueProtocol.                 *)

LEMMA SameSets ==
  /\ Dialogue!Round = Round /\ Dialogue!Kind = Kind
  /\ Dialogue!Collecting = Collecting /\ Dialogue!Terminal = Terminal
  /\ Dialogue!ExpectedKind = ExpectedKind
  /\ Dialogue!RoundKeyed = RoundKeyed
  /\ Dialogue!InitiatorKind = InitiatorKind /\ Dialogue!PeerKind = PeerKind
  /\ Dialogue!Settled = Settled
PROOF BY
         DEF Dialogue!Round, Round, Dialogue!Kind, Kind, Dialogue!Collecting,
             Collecting, Dialogue!Terminal, Terminal, Dialogue!ExpectedKind,
             ExpectedKind, Dialogue!RoundKeyed, RoundKeyed,
             Dialogue!InitiatorKind, InitiatorKind, Dialogue!PeerKind,
             PeerKind, Dialogue!Settled, Settled

\* Reading a manifest.
LEMMA SameCardinality ==
  ASSUME NEW S
  PROVE  Dialogue!Cardinality(S) = Cardinality(S)
PROOF BY Zenon DEF Dialogue!Cardinality, Cardinality

LEMMA SameReading ==
  ASSUME NEW m, NEW kind, NEW round
  PROVE  /\ Dialogue!ParticipantNames(m) = ParticipantNames(m)
         /\ Dialogue!Target(m, kind, round) = Target(m, kind, round)
         /\ Dialogue!Payload(kind) = Payload(kind)
         /\ Dialogue!ConvergenceEarned(m) = ConvergenceEarned(m)
         /\ Dialogue!MaterialIssue(m) = MaterialIssue(m)
         /\ Dialogue!MaterialCorrection(m) = MaterialCorrection(m)
         /\ Dialogue!ArtifactRound(m) = ArtifactRound(m)
PROOF BY SameSets
         DEF Dialogue!ParticipantNames, ParticipantNames, Dialogue!Target,
             Target, Dialogue!Payload, Payload, Dialogue!ConvergenceEarned,
             ConvergenceEarned, Dialogue!MaterialIssue, MaterialIssue,
             Dialogue!MaterialCorrection, MaterialCorrection,
             Dialogue!ArtifactRound, ArtifactRound

LEMMA SameOpening ==
  ASSUME NEW m, NEW round
  PROVE  /\ Dialogue!OpenExchangeRound(m, round) = OpenExchangeRound(m, round)
         /\ Dialogue!OpenConvergenceChallenge(m) = OpenConvergenceChallenge(m)
         /\ Dialogue!OpenSynthesis(m) = OpenSynthesis(m)
         /\ Dialogue!OpenRepresentationChecks(m) = OpenRepresentationChecks(m)
         /\ Dialogue!OpenSynthesisRevision(m) = OpenSynthesisRevision(m)
         /\ Dialogue!OpenRevisionChecks(m) = OpenRevisionChecks(m)
         /\ Dialogue!CompleteDialogue(m) = CompleteDialogue(m)
PROOF BY SameReading
         DEF Dialogue!OpenExchangeRound, OpenExchangeRound,
             Dialogue!OpenConvergenceChallenge, OpenConvergenceChallenge,
             Dialogue!OpenSynthesis, OpenSynthesis,
             Dialogue!OpenRepresentationChecks, OpenRepresentationChecks,
             Dialogue!OpenSynthesisRevision, OpenSynthesisRevision,
             Dialogue!OpenRevisionChecks, OpenRevisionChecks,
             Dialogue!CompleteDialogue, CompleteDialogue

LEMMA SameAfterBarrier ==
  ASSUME NEW m, m.phase \in Collecting
  PROVE  Dialogue!AfterBarrier(m) = AfterBarrier(m)
PROOF
  <1>1. Dialogue!AfterExchange(m) = AfterExchange(m)
    BY SameReading, SameOpening DEF Dialogue!AfterExchange, AfterExchange
  <1>2. Dialogue!AfterChallenge(m) = AfterChallenge(m)
    BY SameReading, SameOpening DEF Dialogue!AfterChallenge, AfterChallenge
  <1>3. Dialogue!AfterRepresentationChecks(m) = AfterRepresentationChecks(m)
    BY SameCardinality, SameReading, SameOpening
       DEF Dialogue!AfterRepresentationChecks, AfterRepresentationChecks
  <1>4. CASE m.phase = "collecting_proposals"
    BY <1>4, SameOpening DEF Dialogue!AfterBarrier, AfterBarrier
  <1>5. CASE m.phase = "collecting_exchange"
    BY <1>1, <1>5 DEF Dialogue!AfterBarrier, AfterBarrier
  <1>6. CASE m.phase = "collecting_convergence_challenge"
    BY <1>2, <1>6 DEF Dialogue!AfterBarrier, AfterBarrier
  <1>7. CASE m.phase = "collecting_synthesis"
    BY <1>7, SameOpening DEF Dialogue!AfterBarrier, AfterBarrier
  <1>8. CASE m.phase = "collecting_representation_check"
    BY <1>3, <1>8 DEF Dialogue!AfterBarrier, AfterBarrier
  <1>9. CASE m.phase = "collecting_synthesis_revision"
    BY <1>9, SameOpening DEF Dialogue!AfterBarrier, AfterBarrier
  <1>10. CASE m.phase = "collecting_revision_check"
    BY <1>10, SameOpening DEF Dialogue!AfterBarrier, AfterBarrier
  <1> QED BY <1>4, <1>5, <1>6, <1>7, <1>8, <1>9, <1>10 DEF Collecting

LEMMA SameHandlers ==
  ASSUME NEW m, m \in Manifest
  PROVE  /\ \A initiator, peers, minimum, rounds, max :
              Dialogue!ValidStart(initiator, peers, minimum, rounds, max)
                <=> ValidStart(initiator, peers, minimum, rounds, max)
         /\ \A initiator, peers, minimum, rounds, max, stop :
              Dialogue!StartedManifest(initiator, peers, minimum, rounds, max, stop)
                = StartedManifest(initiator, peers, minimum, rounds, max, stop)
         /\ \A p, kind : Dialogue!IsExpected(m, p, kind) = IsExpected(m, p, kind)
         /\ \A p, kind, round, payload :
              Dialogue!SubmitOutcome(m, p, kind, round, payload)
                = SubmitOutcome(m, p, kind, round, payload)
         /\ \A p, kind, payload : m.phase \in Collecting =>
              Dialogue!SubmittedManifest(m, p, kind, payload)
                = SubmittedManifest(m, p, kind, payload)
         /\ \A id, additional :
              /\ Dialogue!CanExtend(m, id, additional) = CanExtend(m, id, additional)
              /\ Dialogue!ExtendedManifest(m, id, additional)
                   = ExtendedManifest(m, id, additional)
         /\ Dialogue!CancelledManifest(m) = CancelledManifest(m)
PROOF
  <1>1. \A initiator, peers, minimum, rounds, max :
              Dialogue!ValidStart(initiator, peers, minimum, rounds, max)
                <=> ValidStart(initiator, peers, minimum, rounds, max)
    BY SameCardinality DEF Dialogue!ValidStart, ValidStart
  <1>2. \A initiator, peers, minimum, rounds, max, stop :
              Dialogue!StartedManifest(initiator, peers, minimum, rounds, max, stop)
                = StartedManifest(initiator, peers, minimum, rounds, max, stop)
    BY DEF Dialogue!StartedManifest, StartedManifest
  <1>3. \A p, kind : Dialogue!IsExpected(m, p, kind) = IsExpected(m, p, kind)
    BY SameSets DEF Dialogue!IsExpected, IsExpected
  <1>4. \A p, kind, round, payload :
              Dialogue!SubmitOutcome(m, p, kind, round, payload)
                = SubmitOutcome(m, p, kind, round, payload)
    BY <1>3, SameSets, SameReading
       DEF Dialogue!SubmitOutcome, SubmitOutcome, Dialogue!Existing, Existing,
           Dialogue!Repeated, Repeated
  <1>5. ASSUME m.phase \in Collecting, NEW p, NEW kind, NEW payload
        PROVE  Dialogue!SubmittedManifest(m, p, kind, payload)
                 = SubmittedManifest(m, p, kind, payload)
    <2> DEFINE s == [kind |-> kind, round |-> ArtifactRound(m),
                     participant |-> p, payload |-> payload]
               recorded == [m EXCEPT !.submissions = @ \cup {s}]
    <2>1. recorded.phase \in Collecting
      BY <1>5 DEF Manifest
    <2>2. /\ Dialogue!SubmittedManifest(m, p, kind, payload) =
               IF Submitters(Target(recorded, kind, ArtifactRound(m)))
                    = m.required_submitters
               THEN Dialogue!AfterBarrier(recorded) ELSE recorded
          /\ SubmittedManifest(m, p, kind, payload) =
               IF Submitters(Target(recorded, kind, ArtifactRound(m)))
                    = m.required_submitters
               THEN AfterBarrier(recorded) ELSE recorded
      BY SameReading
         DEF Dialogue!SubmittedManifest, SubmittedManifest,
             Dialogue!Submitters, Submitters
    <2> HIDE DEF recorded
    <2> QED BY <2>1, <2>2, SameAfterBarrier
  <1>6. \A id, additional :
              /\ Dialogue!CanExtend(m, id, additional) = CanExtend(m, id, additional)
              /\ Dialogue!ExtendedManifest(m, id, additional)
                   = ExtendedManifest(m, id, additional)
    BY SameOpening
       DEF Dialogue!CanExtend, CanExtend, Dialogue!ExtendedManifest,
           ExtendedManifest
  <1>7. Dialogue!CancelledManifest(m) = CancelledManifest(m)
    BY DEF Dialogue!CancelledManifest, CancelledManifest
  <1> QED BY <1>1, <1>2, <1>3, <1>4, <1>5, <1>6, <1>7

LEMMA MoveIsStep ==
  ASSUME manifest \in Manifest, Moved(manifest, manifest')
  PROVE  Dialogue!DialogueNext
PROOF
  <1>1. CASE manifest.phase = "absent"
    <2>1. PICK initiator \in Participant, peers \in SUBSET Participant,
               minimum \in Round, rounds \in Round, max \in Round, stop \in BOOLEAN :
            /\ ValidStart(initiator, peers, minimum, rounds, max)
            /\ manifest' = StartedManifest(initiator, peers, minimum, rounds, max, stop)
      BY <1>1 DEF Moved, Collecting
    <2>2. Dialogue!StartDialogue(initiator, peers, minimum, rounds, max, stop)
      BY <1>1, <2>1, SameHandlers DEF Dialogue!StartDialogue
    <2> QED BY <2>2, SameSets DEF Dialogue!DialogueNext
  <1>2. ASSUME NEW participant \in ParticipantNames(manifest), NEW kind \in Kind,
               NEW round \in Round, NEW payload \in Payload(kind),
               manifest.phase # "absent",
               IsExpected(manifest, participant, kind),
               SubmitOutcome(manifest, participant, kind, round, payload) = "accepted",
               manifest' = SubmittedManifest(manifest, participant, kind, payload)
        PROVE  Dialogue!DialogueNext
    <2>1. participant \in Participant /\ manifest.phase \in Collecting
      BY <1>2 DEF ParticipantNames, Manifest, IsExpected
    <2>2. Dialogue!SubmitToDialogue(participant, kind, round, payload)
      BY <1>2, <2>1, SameHandlers, SameReading DEF Dialogue!SubmitToDialogue
    <2>3. /\ kind \in {k \in Dialogue!Kind :
                         Dialogue!IsExpected(manifest, participant, k)}
          /\ round \in Dialogue!Round /\ payload \in Dialogue!Payload(kind)
      BY <1>2, SameSets, SameHandlers, SameReading
    <2>4. Dialogue!SubmitBy(participant)
      BY <2>2, <2>3 DEF Dialogue!SubmitBy
    <2> QED BY <2>1, <2>4 DEF Dialogue!DialogueNext
  <1>3. ASSUME NEW id \in ExtensionId, NEW additional \in 1..MaxCouncilRounds,
               manifest.phase # "absent", CanExtend(manifest, id, additional),
               manifest' = ExtendedManifest(manifest, id, additional)
        PROVE  Dialogue!DialogueNext
    <2>1. manifest.initiator \in Participant
      BY DEF Manifest
    <2>2. Dialogue!ExtendDialogue(manifest.initiator, id, additional)
      BY <1>3, SameHandlers DEF Dialogue!ExtendDialogue
    <2> QED BY <2>1, <2>2 DEF Dialogue!DialogueNext
  <1>4. ASSUME manifest.phase \in Collecting,
               manifest' = CancelledManifest(manifest)
        PROVE  Dialogue!DialogueNext
    <2>1. manifest.initiator \in Participant
      BY DEF Manifest
    <2>2. Dialogue!CancelDialogue(manifest.initiator)
      BY <1>4, SameHandlers, SameReading, SameSets
         DEF Dialogue!CancelDialogue, ParticipantNames
    <2> QED BY <2>1, <2>2 DEF Dialogue!DialogueNext
  <1> QED BY <1>1, <1>2, <1>3, <1>4 DEF Moved

-----------------------------------------------------------------------------
(* The manifest and its files.                                             *)

LoadedFrom(m, F) == [m EXCEPT !.submissions = {f \in F : Path(f) \in @}]

OneFileEach(F) == \A f, g \in F : Path(f) = Path(g) => f = g

\* What is saved is what is loaded again, as long as its files are there.
LEMMA LoadedBack ==
  ASSUME NEW F, OneFileEach(F), NEW m \in Manifest, m.submissions \subseteq F
  PROVE  LoadedFrom(Unloaded(m), F) = m
PROOF
  <1> DEFINE paths == {Path(s) : s \in m.submissions}
             u == [m EXCEPT !.submissions = paths]
  <1>1. u.submissions = paths
    BY DEF Manifest
  <1>2. {f \in F : Path(f) \in paths} = m.submissions
    BY DEF OneFileEach
  <1> HIDE DEF paths
  <1>3. [u EXCEPT !.submissions = {f \in F : Path(f) \in @}]
          = [m EXCEPT !.submissions = {f \in F : Path(f) \in paths}]
    BY <1>1 DEF Manifest
  <1>4. [m EXCEPT !.submissions = m.submissions] = m
    BY DEF Manifest
  <1> QED BY <1>2, <1>3, <1>4 DEF LoadedFrom, Unloaded, paths

LEMMA SavedFields ==
  ASSUME FilesSound
  PROVE  /\ manifest \in Manifest /\ manifest.submissions \subseteq files
         /\ saved.m.phase = manifest.phase
         /\ Sound(manifest) /\ History(manifest)
PROOF
  <1>1. manifest \in Manifest /\ saved.m = Unloaded(manifest)
    BY DEF FilesSound, Good, Sound
  <1>2. saved.m.phase = manifest.phase
    BY <1>1 DEF Unloaded, Manifest
  <1>3. saved.m \in [DOMAIN saved.m -> {saved.m[x] : x \in DOMAIN saved.m}]
        /\ "submissions" \in DOMAIN saved.m
    BY <1>1 DEF Unloaded, Manifest
  <1>4. manifest.submissions \subseteq files
    BY <1>3 DEF manifest, Loaded
  <1> QED BY <1>1, <1>2, <1>4 DEF FilesSound, Good

LEMMA SameManifest ==
  ASSUME saved'.m = saved.m, files' = files
  PROVE  manifest' = manifest
PROOF BY DEF manifest, Loaded

-----------------------------------------------------------------------------
(* Steps that leave the files alone, and steps that change one record.     *)

\* What was numbered stays below the next number.
LEMMA BelowNext ==
  ASSUME NEW a \in Int, NEW b \in {a, a + 1}, NEW S, S \subseteq 1..(a - 1)
  PROVE  S \subseteq 1..(b - 1)
PROOF OBVIOUS

LEMMA DiskKept ==
  ASSUME DiskSound, UNCHANGED <<saved, final, outbox, audit, committed>>,
         FilesSound', manifest' = manifest,
         nextTx' \in {nextTx, nextTx + 1}, nextTx' \in 1..(MaxTransitions + 1),
         faults' \in 0..MaxFaults, clean' \in BOOLEAN
  PROVE  /\ DiskSound'
         /\ ToSupersede' = ToSupersede /\ ToActivate' = ToActivate
         /\ \A id : ResponseIsSafe(id)' = ResponseIsSafe(id)
PROOF
  <1>1. /\ saved' = saved /\ final' = final
        /\ outbox' = outbox /\ audit' = audit /\ committed' = committed
    OBVIOUS
  <1>2. manifest' = manifest
    OBVIOUS
  <1>3. ToSupersede' = ToSupersede /\ ToActivate' = ToActivate
    BY <1>1 DEF ToSupersede, ToActivate
  <1>4. \A id : ResponseIsSafe(id)' = ResponseIsSafe(id)
    BY <1>1, <1>2 DEF ResponseIsSafe
  <1>5. FilesSound'
    OBVIOUS
  <1>6. Numbered'
    <2>1. nextTx \in Int /\ committed \subseteq 1..(nextTx - 1)
      BY BoundsAssumption DEF DiskSound, Numbered
    <2>2. committed \subseteq 1..(nextTx' - 1)
      BY <2>1, BelowNext
    <2>3. manifest.phase # "absent" =>
            /\ saved.committed_transition_id \in committed
            /\ saved.born \in committed
            /\ \A t \in committed :
                 saved.born <= t /\ t <= saved.committed_transition_id
      BY DEF DiskSound, Numbered
    <2>4. manifest.phase = "absent" =>
            committed = {} /\ saved.committed_transition_id = 0
      BY DEF DiskSound, Numbered
    <2> QED BY <1>1, <1>2, <2>2, <2>3, <2>4 DEF Numbered
  <1>7. RecordsSound'
    <2>1. ASSUME NEW id \in DOMAIN outbox, MessageRecordSound(id)
          PROVE  MessageRecordSound(id)'
      <3>1. id \in MessageId /\ id.tx < nextTx'
        BY <2>1 DEF MessageRecordSound, DiskSound, Numbered, MessageId, TxId
      <3> QED BY <1>1, <1>2, <1>4, <2>1, <3>1
              DEF MessageRecordSound, Answered, Awaited
    <2> QED BY <1>1, <2>1 DEF DiskSound, RecordsSound
  <1>8. SupersedesSound'
    BY <1>1, <1>3 DEF DiskSound, SupersedesSound, SupersededFirst
  <1>9. FinalSound' /\ AuditSound'
    BY <1>1, <1>2 DEF DiskSound, FinalSound, AuditSound, Known
  <1> QED BY <1>2, <1>3, <1>4, <1>5, <1>6, <1>7, <1>8, <1>9 DEF DiskSound

\* The record id gets a status, and nothing else that matters changes.
Restatus(id, status) ==
  /\ DOMAIN outbox' = DOMAIN outbox
  /\ \A i \in DOMAIN outbox :
       /\ outbox'[i] \in OutboxRecord
       /\ outbox'[i].kind = outbox[i].kind /\ outbox'[i].round = outbox[i].round
       /\ outbox'[i].status = IF i = id THEN status ELSE outbox[i].status

LEMMA SetStatusRestatus ==
  ASSUME RecordsSound, NEW id \in DOMAIN outbox, NEW status \in Status,
         SetStatus(id, status)
  PROVE  Restatus(id, status)
PROOF
  <1>1. \A i \in DOMAIN outbox : outbox[i] \in OutboxRecord
    BY DEF RecordsSound, MessageRecordSound
  <1>2. outbox' = [outbox EXCEPT ![id] = [outbox[id] EXCEPT !.status = status]]
    BY DEF SetStatus
  <1> DEFINE new == [outbox[id] EXCEPT !.status = status]
  <1>3. /\ new \in OutboxRecord /\ new.status = status
        /\ new.kind = outbox[id].kind /\ new.round = outbox[id].round
    BY <1>1 DEF OutboxRecord
  <1> HIDE DEF new
  <1>4. \A i \in DOMAIN outbox : outbox'[i] = IF i = id THEN new ELSE outbox[i]
    BY <1>2 DEF new
  <1>5. DOMAIN outbox' = DOMAIN outbox
    BY <1>2
  <1> QED BY <1>1, <1>3, <1>4, <1>5 DEF Restatus

\* What keeps the files consistent when one record changes its status.
Allowed(id, status) ==
  /\ IF id.tx \in committed THEN status \notin {"staged", "aborted", "orphaned"}
                            ELSE status \in {"aborted", "orphaned"}
  /\ status = "acknowledged" => ResponseIsSafe(id)
  /\ status \in Live => outbox[id].status \in Live \cup {"staged"}
  /\ id \in ToActivate => ToSupersede = {}

LEMMA RestatusSound ==
  ASSUME DiskSound, NEW id \in DOMAIN outbox, NEW status \in Status,
         Restatus(id, status), Allowed(id, status),
         UNCHANGED <<saved, files, final, audit, Bookkeeping>>
  PROVE  /\ DiskSound' /\ manifest' = manifest
         /\ ToSupersede' \subseteq ToSupersede /\ ToActivate' \subseteq ToActivate
         /\ \A i \in DOMAIN outbox : ResponseIsSafe(i)' = ResponseIsSafe(i)
PROOF
  <1>1. /\ saved' = saved /\ files' = files /\ final' = final /\ audit' = audit
        /\ nextTx' = nextTx /\ faults' = faults /\ clean' = clean
        /\ committed' = committed
    BY DEF Bookkeeping
  <1>2. manifest' = manifest
    BY <1>1, SameManifest
  <1>3. \A i \in DOMAIN outbox : ResponseIsSafe(i)' = ResponseIsSafe(i)
    BY <1>1, <1>2 DEF ResponseIsSafe, Restatus
  <1>4. \A i \in DOMAIN outbox : MessageRecordSound(i)
    BY DEF DiskSound, RecordsSound
  <1>5. outbox[id].status = "staged" /\ status \in Live =>
          id.tx = saved.committed_transition_id
    BY <1>4 DEF Allowed, MessageRecordSound, Live
  <1>6. ToSupersede' \subseteq ToSupersede
    <2>1. ASSUME NEW i \in ToSupersede' PROVE i \in ToSupersede
      <3>1. i \in saved.transition_supersedes /\ outbox'[i].status \in Live
        BY <1>1, <2>1 DEF ToSupersede
      <3>2. i \in DOMAIN outbox /\ i.tx < saved.committed_transition_id
        BY <3>1 DEF DiskSound, SupersedesSound
      <3>3. i.tx # saved.committed_transition_id
        BY <1>4, <3>2 DEF MessageRecordSound, MessageId, TxId, DiskSound, Numbered
      <3>4. outbox[i].status \in Live
        BY <1>5, <3>1, <3>2, <3>3 DEF Restatus, Allowed
      <3> QED BY <3>1, <3>4 DEF ToSupersede
    <2> QED BY <2>1
  <1>7. ToActivate' \subseteq ToActivate
    BY <1>1 DEF ToActivate, Restatus, Allowed, Live
  <1>8. FilesSound' /\ Numbered' /\ FinalSound' /\ AuditSound'
    BY <1>1, <1>2 DEF DiskSound, FilesSound, Numbered, FinalSound, AuditSound, Known
  <1>9. RecordsSound'
    <2>1. ASSUME NEW i \in DOMAIN outbox, i # id PROVE MessageRecordSound(i)'
      BY <1>1, <1>2, <1>3, <1>4, <2>1
         DEF MessageRecordSound, Restatus, Answered, Awaited
    <2>2. MessageRecordSound(id)'
      <3>1. id \in MessageId /\ id.tx < nextTx /\ outbox'[id] \in OutboxRecord
            /\ outbox'[id].status = status
            /\ outbox'[id].kind = outbox[id].kind
            /\ outbox'[id].round = outbox[id].round
        BY <1>4 DEF MessageRecordSound, Restatus
      <3>2. status \in Live \cup {"staged"} => outbox[id].status \in Live \cup {"staged"}
        BY <1>4 DEF Allowed, MessageRecordSound, Live
      <3>3. /\ Answered(manifest, id)' = Answered(manifest, id)
            /\ Awaited(manifest, id)' = Awaited(manifest, id)
        BY <1>2, <3>1 DEF Answered, Awaited
      <3> QED BY <1>1, <1>2, <1>3, <1>4, <3>1, <3>2, <3>3
              DEF MessageRecordSound, Allowed
    <2> QED BY <2>1, <2>2 DEF RecordsSound, Restatus
  <1>10. SupersedesSound'
    <2>1. SupersededFirst'
      <3>1. ASSUME NEW i \in DOMAIN outbox, i.tx = saved.committed_transition_id,
                   outbox'[i].status # "staged"
            PROVE  ToSupersede = {}
        <4>1. CASE outbox[i].status = "staged"
          BY <3>1, <4>1 DEF Restatus, ToActivate, Allowed
        <4>2. CASE outbox[i].status # "staged"
          BY <3>1, <4>2 DEF DiskSound, SupersedesSound, SupersededFirst
        <4> QED BY <4>1, <4>2
      <3> QED BY <1>1, <1>6, <3>1 DEF SupersededFirst, Restatus
    <2> QED BY <1>1, <2>1 DEF DiskSound, SupersedesSound, Restatus
  <1> QED BY <1>2, <1>3, <1>6, <1>7, <1>8, <1>9, <1>10 DEF DiskSound

-----------------------------------------------------------------------------
(* Steps of the handlers that touch no file.                               *)

\* What the parts for the places of a handler depend on besides the place.
LEMMA StayingOut ==
  ASSUME DiskSound, UNCHANGED <<disk, committed>>, nextTx' = nextTx,
         faults' \in 0..MaxFaults, clean' \in BOOLEAN
  PROVE  /\ DiskSound' /\ manifest' = manifest
         /\ ToSupersede' = ToSupersede /\ ToActivate' = ToActivate
         /\ \A id : ResponseIsSafe(id)' = ResponseIsSafe(id)
         /\ saved' = saved /\ outbox' = outbox
PROOF
  <1>1. nextTx \in 1..(MaxTransitions + 1)
    BY DEF DiskSound, Numbered
  <1>2. /\ saved' = saved /\ files' = files /\ final' = final
        /\ outbox' = outbox /\ audit' = audit /\ committed' = committed
    BY DEF disk
  <1>3. manifest' = manifest
    BY <1>2, SameManifest
  <1>4. FilesSound'
    BY <1>2, <1>3 DEF DiskSound, FilesSound
  <1> QED BY <1>1, <1>2, <1>3, <1>4, DiskKept

LEMMA BeginKeeps ==
  ASSUME IInv, Begin
  PROVE  IInv'
PROOF
  <1>1. faults \in 0..MaxFaults /\ clean \in BOOLEAN
    BY DEF IInv, DiskSound, Numbered
  <1>2. /\ DiskSound' /\ ToSupersede' = ToSupersede /\ ToActivate' = ToActivate
        /\ saved' = saved /\ outbox' = outbox /\ clean' = clean
    BY <1>1, StayingOut DEF IInv, Begin, Bookkeeping
  <1>3. /\ pc = "idle" /\ draft' = draft /\ todo' = todo /\ msg' = msg
        /\ pc' \in {"drain", "resume", "prepare"}
        /\ pc' # "drain" => saved.pending_audit_events = {}
        /\ pc' = "prepare" => Reconciled
    BY DEF Begin, Goto, AfterDrain, Reconciled
  <1>4. msg = NoMessage
    BY <1>3 DEF IInv, PlaceSound, MessageSound
  <1>5. MessageSound'
    BY <1>3, <1>4 DEF MessageSound
  <1>6. HandlerSound'
    BY <1>2, <1>3 DEF IInv, PlaceSound, HandlerSound, Reconciled, Places
  <1>7. SweepSound' /\ StageSound'
    BY <1>3 DEF SweepSound, StageSound
  <1>8. CleanSound'
    BY <1>2, <1>3 DEF IInv, PlaceSound, CleanSound, Serving, Recovering, Places
  <1> QED BY <1>2, <1>5, <1>6, <1>7, <1>8 DEF IInv, PlaceSound

LEMMA RefuseKeeps ==
  ASSUME IInv, Refuse
  PROVE  IInv'
PROOF
  <1>1. faults \in 0..MaxFaults /\ clean \in BOOLEAN
    BY DEF IInv, DiskSound, Numbered
  <1>2. /\ DiskSound' /\ ToSupersede' = ToSupersede /\ ToActivate' = ToActivate
        /\ saved' = saved /\ outbox' = outbox /\ clean' = clean
    BY <1>1, StayingOut DEF IInv, Refuse, Bookkeeping
  <1>3. /\ pc = "prepare" /\ pc' = "idle" /\ draft' = NothingSaved
        /\ msg' = NoMessage
    BY DEF Refuse, Return
  <1>4. saved.pending_audit_events = {} /\ Reconciled
    BY <1>3 DEF IInv, PlaceSound, HandlerSound
  <1>5. MessageSound'
    BY <1>3 DEF MessageSound
  <1>6. HandlerSound'
    BY <1>3 DEF HandlerSound, Places
  <1>7. SweepSound' /\ StageSound'
    BY <1>3 DEF SweepSound, StageSound
  <1>8. CleanSound'
    BY <1>2, <1>3, <1>4
       DEF IInv, PlaceSound, CleanSound, Serving, Recovering, Places, Reconciled
  <1> QED BY <1>2, <1>5, <1>6, <1>7, <1>8 DEF IInv, PlaceSound

LEMMA ActivatedKeeps ==
  ASSUME IInv, Activated
  PROVE  IInv'
PROOF
  <1>1. faults \in 0..MaxFaults /\ clean \in BOOLEAN
    BY DEF IInv, DiskSound, Numbered
  <1>2. /\ DiskSound' /\ ToSupersede' = ToSupersede /\ ToActivate' = ToActivate
        /\ saved' = saved /\ outbox' = outbox /\ clean' = clean
    BY <1>1, StayingOut DEF IInv, Activated, Bookkeeping
  <1>3. /\ pc \in {"resume", "activate"} /\ msg = NoMessage /\ Reconciled
        /\ pc' \in {"prepare", "idle"} /\ msg' = NoMessage
        /\ draft' \in {draft, NothingSaved}
    BY DEF Activated, Goto, Return, Reconciled
  <1>4. saved.pending_audit_events = {} /\ draft = NothingSaved
    BY <1>3 DEF IInv, PlaceSound, HandlerSound
  <1>5. MessageSound'
    BY <1>3 DEF MessageSound
  <1>6. HandlerSound'
    BY <1>2, <1>3, <1>4 DEF HandlerSound, Places, Reconciled
  <1>7. SweepSound' /\ StageSound'
    BY <1>3 DEF SweepSound, StageSound
  <1>8. CleanSound'
    BY <1>2, <1>3, <1>4
       DEF IInv, PlaceSound, CleanSound, Serving, Recovering, Places, Reconciled
  <1> QED BY <1>2, <1>5, <1>6, <1>7, <1>8 DEF IInv, PlaceSound

LEMMA FailKeeps ==
  ASSUME IInv, Fail
  PROVE  IInv'
PROOF
  <1>1. faults' \in 0..MaxFaults /\ clean' = FALSE
    BY BoundsAssumption DEF IInv, DiskSound, Numbered, Fail
  <1>2. DiskSound'
    BY <1>1, StayingOut DEF IInv, Fail
  <1>3. pc' = "idle" /\ draft' = NothingSaved /\ msg' = NoMessage
    BY DEF Fail, Return
  <1>4. MessageSound' /\ HandlerSound' /\ SweepSound' /\ StageSound' /\ CleanSound'
    BY <1>1, <1>3
       DEF MessageSound, HandlerSound, Places, SweepSound, StageSound, CleanSound
  <1> QED BY <1>2, <1>4 DEF IInv, PlaceSound

LEMMA CrashKeeps ==
  ASSUME IInv, Crash
  PROVE  IInv'
PROOF
  <1>1. faults' \in 0..MaxFaults /\ clean' \in BOOLEAN
    BY BoundsAssumption DEF IInv, DiskSound, Numbered, Crash
  <1>2. DiskSound'
    BY <1>1, StayingOut DEF IInv, Crash
  <1>3. pc' = "down" /\ draft' = NothingSaved /\ msg' = NoMessage
    BY DEF Crash
  <1>4. MessageSound' /\ HandlerSound' /\ SweepSound' /\ StageSound' /\ CleanSound'
    BY <1>3
       DEF MessageSound, HandlerSound, Places, SweepSound, StageSound, CleanSound,
           Serving
  <1> QED BY <1>2, <1>4 DEF IInv, PlaceSound

LEMMA RestartKeeps ==
  ASSUME IInv, Restart
  PROVE  IInv'
PROOF
  <1>1. faults \in 0..MaxFaults /\ clean \in BOOLEAN
    BY DEF IInv, DiskSound, Numbered
  <1>2. DiskSound' /\ saved' = saved
    BY <1>1, StayingOut DEF IInv, Restart, Bookkeeping
  <1>3. /\ pc = "down" /\ draft' = draft /\ msg' = msg
        /\ pc' \in {"recover_drain", "recover_final"}
        /\ pc' = "recover_final" => saved.pending_audit_events = {}
    BY DEF Restart, Goto
  <1>4. msg = NoMessage /\ draft = NothingSaved
    BY <1>3 DEF IInv, PlaceSound, MessageSound, HandlerSound
  <1>5. MessageSound' /\ HandlerSound' /\ SweepSound' /\ StageSound' /\ CleanSound'
    BY <1>2, <1>3, <1>4
       DEF MessageSound, HandlerSound, Places, Recovering, SweepSound, StageSound,
           CleanSound, Serving
  <1> QED BY <1>2, <1>5 DEF IInv, PlaceSound

LEMMA RecoverSkipKeeps ==
  ASSUME IInv, NEW id, RecoverSkip(id)
  PROVE  IInv'
PROOF
  <1>1. faults \in 0..MaxFaults /\ clean \in BOOLEAN
    BY DEF IInv, DiskSound, Numbered
  <1>2. DiskSound' /\ saved' = saved /\ outbox' = outbox
    BY <1>1, StayingOut DEF IInv, RecoverSkip, Bookkeeping
  <1>3. /\ pc = "recover_outbox" /\ msg = NoMessage
        /\ outbox[id].status = "superseded" /\ todo' = todo \ {id}
        /\ pc' = pc /\ draft' = draft /\ msg' = msg
    BY DEF RecoverSkip
  <1>4. MessageSound'
    BY <1>3 DEF MessageSound
  <1>5. HandlerSound'
    BY <1>2, <1>3 DEF IInv, PlaceSound, HandlerSound
  <1>6. SweepSound'
    BY <1>2, <1>3 DEF IInv, PlaceSound, SweepSound
  <1>7. StageSound' /\ CleanSound'
    BY <1>3 DEF StageSound, CleanSound, Serving, Recovering
  <1> QED BY <1>2, <1>4, <1>5, <1>6, <1>7 DEF IInv, PlaceSound

\* Recovery has nothing left to do: nothing is staged, and since a transition
\* that replaces requests has records of its own, nothing is left to replace.
LEMMA RecoveredKeeps ==
  ASSUME IInv, Recovered
  PROVE  IInv'
PROOF
  <1>1. faults \in 0..MaxFaults
    BY DEF IInv, DiskSound, Numbered
  <1>2. /\ DiskSound' /\ ToSupersede' = ToSupersede /\ ToActivate' = ToActivate
        /\ saved' = saved /\ outbox' = outbox
    BY <1>1, StayingOut DEF IInv, Recovered
  <1>3. /\ pc = "recover_outbox" /\ todo = {}
        /\ pc' = "idle" /\ draft' = NothingSaved /\ msg' = NoMessage
    BY DEF Recovered, Return
  <1>4. \A id \in DOMAIN outbox : outbox[id].status # "staged"
    BY <1>3 DEF IInv, PlaceSound, SweepSound
  <1>5. Reconciled
    <2>1. ToActivate = {}
      BY <1>4 DEF ToActivate
    <2>2. ToSupersede = {}
      BY <1>4 DEF IInv, DiskSound, SupersedesSound, SupersededFirst, ToSupersede
    <2> QED BY <2>1, <2>2 DEF Reconciled
  <1>6. saved.pending_audit_events = {}
    BY <1>3 DEF IInv, PlaceSound, HandlerSound
  <1>7. MessageSound' /\ HandlerSound' /\ SweepSound' /\ StageSound'
    BY <1>3 DEF MessageSound, HandlerSound, Places, SweepSound, StageSound
  <1>8. CleanSound'
    BY <1>2, <1>3, <1>4, <1>5, <1>6 DEF CleanSound, Reconciled
  <1> QED BY <1>2, <1>7, <1>8 DEF IInv, PlaceSound

-----------------------------------------------------------------------------
(* Steps that change the status of one record.                             *)

LEMMA FirstIn ==
  ASSUME NEW S, S # {}
  PROVE  First(S) \in S
PROOF BY DEF First

\* A record somebody has seen, or that is to be activated, is committed, and
\* its dialogue exists.
LEMMA SeenIsCommitted ==
  ASSUME DiskSound, NEW id \in DOMAIN outbox,
         \/ outbox[id].status \in Live \cup {"acknowledged", "superseded"}
         \/ id \in ToActivate
         \/ id.tx \in committed
  PROVE  id.tx \in committed /\ HasManifest(id)
PROOF
  <1>1. MessageRecordSound(id)
    BY DEF DiskSound, RecordsSound
  <1>2. id.tx \in committed
    <2>1. CASE id \in ToActivate
      <3>1. id.tx = saved.committed_transition_id /\ id.tx # 0
        BY <1>1, <2>1 DEF ToActivate, MessageRecordSound, MessageId, TxId
      <3> QED BY <3>1 DEF DiskSound, Numbered
    <2>2. CASE id \notin ToActivate
      BY <1>1, <2>2 DEF MessageRecordSound, Live
    <2> QED BY <2>1, <2>2
  <1>3. manifest.phase # "absent" /\ saved.born <= id.tx
    BY <1>2 DEF DiskSound, Numbered
  <1>4. saved.m.phase = manifest.phase
    BY SavedFields DEF DiskSound
  <1>5. saved.born \in Int /\ id.tx \in Int
    <2>1. committed \subseteq Int
      BY DEF DiskSound, Numbered
    <2> QED BY <1>2, <1>3, <2>1 DEF DiskSound, Numbered
  <1> QED BY <1>2, <1>3, <1>4, <1>5 DEF HasManifest

LEMMA RecordChanged ==
  ASSUME IInv, NEW id \in DOMAIN outbox, NEW status \in Status, status # "staged",
         Restatus(id, status), Allowed(id, status),
         UNCHANGED <<saved, files, final, audit, Bookkeeping>>
  PROVE  /\ DiskSound' /\ DOMAIN outbox' = DOMAIN outbox
         /\ \A i \in DOMAIN outbox : ResponseIsSafe(i)' = ResponseIsSafe(i)
         /\ /\ pc' = pc /\ draft' = draft
            /\ msg' = msg \/ pc \in {"resume", "activate", "recover_outbox"}
            => HandlerSound' /\ CleanSound'
         /\ pc' = pc /\ todo' \in {todo, todo \ {id}} => SweepSound'
         /\ Reconciled => Reconciled'
         /\ \A i \in DOMAIN outbox :
              outbox'[i].status = "staged" => outbox[i].status = "staged" /\ i # id
         /\ saved' = saved /\ clean' = clean
PROOF
  <1>1. saved' = saved /\ clean' = clean
    BY DEF Bookkeeping
  <1>2. /\ DiskSound' /\ ToSupersede' \subseteq ToSupersede
        /\ ToActivate' \subseteq ToActivate
        /\ \A i \in DOMAIN outbox : ResponseIsSafe(i)' = ResponseIsSafe(i)
    BY RestatusSound DEF IInv
  <1>3. Reconciled => Reconciled'
    BY <1>2 DEF Reconciled
  <1>4. /\ DOMAIN outbox' = DOMAIN outbox
        /\ \A i \in DOMAIN outbox :
             outbox'[i].status = "staged" => outbox[i].status = "staged" /\ i # id
    BY DEF Restatus
  <1>5. ASSUME pc' = pc, draft' = draft,
               msg' = msg \/ pc \in {"resume", "activate", "recover_outbox"}
        PROVE  HandlerSound' /\ CleanSound'
    <2>1. pc \in {"ack", "ack_audit", "recover_ack", "recover_ack_audit"} =>
            AckIntent' = AckIntent
      BY <1>5 DEF AckIntent
    <2>2. HandlerSound'
      BY <1>1, <1>3, <1>5, <2>1 DEF IInv, PlaceSound, HandlerSound
    <2>3. CleanSound'
      BY <1>1, <1>3, <1>4, <1>5, <2>1 DEF IInv, PlaceSound, CleanSound, Tx
    <2> QED BY <2>2, <2>3
  <1>6. ASSUME pc' = pc, todo' \in {todo, todo \ {id}}
        PROVE  SweepSound'
    BY <1>4, <1>6 DEF IInv, PlaceSound, SweepSound
  <1> QED BY <1>1, <1>2, <1>3, <1>4, <1>5, <1>6

LEMMA SupersedeKeeps ==
  ASSUME IInv, Supersede
  PROVE  IInv'
PROOF
  <1> DEFINE id == First(ToSupersede)
  <1>1. /\ id \in ToSupersede /\ SetStatus(id, "superseded")
        /\ pc \in {"resume", "activate", "recover_outbox"} /\ msg = NoMessage
        /\ pc' = pc /\ draft' = draft /\ todo' = todo /\ msg' = msg
        /\ UNCHANGED <<saved, files, final, audit, Bookkeeping>>
    BY FirstIn DEF Supersede, handler
  <1> HIDE DEF id
  <1>2. id \in DOMAIN outbox /\ outbox[id].status \in Live
    BY <1>1 DEF ToSupersede, IInv, DiskSound, SupersedesSound
  <1>3. Restatus(id, "superseded")
    BY <1>1, <1>2, SetStatusRestatus DEF IInv, DiskSound, Status
  <1>4. Allowed(id, "superseded")
    <2>1. id.tx \in committed
      BY <1>2, SeenIsCommitted DEF IInv
    <2> QED BY <1>2, <2>1 DEF Allowed, Live, ToActivate
  <1>5. DiskSound' /\ HandlerSound' /\ CleanSound' /\ SweepSound'
    BY <1>1, <1>2, <1>3, <1>4, RecordChanged DEF Status
  <1>6. MessageSound' /\ StageSound'
    BY <1>1 DEF MessageSound, StageSound
  <1> QED BY <1>5, <1>6 DEF IInv, PlaceSound

\* A committed record is activated, in a handler or in recovery.
LEMMA ActivatedRecord ==
  ASSUME IInv, NEW id \in DOMAIN outbox,
         pc \in {"resume", "activate", "recover_outbox"},
         id \in ToActivate \/ outbox[id].status = "pending", ToSupersede = {},
         SetStatus(id, "pending"),
         pc' = pc, draft' = draft, msg' = id, todo' \in {todo, todo \ {id}},
         UNCHANGED <<saved, files, final, audit, Bookkeeping>>
  PROVE  IInv'
PROOF
  <1>1. Restatus(id, "pending")
    BY SetStatusRestatus DEF IInv, DiskSound, Status, Live
  <1>2. Allowed(id, "pending")
    <2>1. id.tx \in committed
      BY SeenIsCommitted DEF IInv, Live
    <2> QED BY <2>1 DEF Allowed, Live, ToActivate
  <1>3. /\ DiskSound' /\ HandlerSound' /\ CleanSound' /\ SweepSound'
        /\ DOMAIN outbox' = DOMAIN outbox
    BY <1>1, <1>2, RecordChanged DEF Status, Live
  <1>4. id \in MessageId
    BY DEF IInv, DiskSound, RecordsSound, MessageRecordSound
  <1>5. MessageSound' /\ StageSound'
    BY <1>1, <1>3, <1>4 DEF MessageSound, StageSound, Restatus
  <1> QED BY <1>3, <1>5 DEF IInv, PlaceSound

LEMMA ActivateKeeps ==
  ASSUME IInv, Activate
  PROVE  IInv'
PROOF
  <1> DEFINE id == First(ToActivate)
  <1>1. id \in ToActivate /\ id \in DOMAIN outbox
    BY FirstIn DEF Activate, ToActivate
  <1> HIDE DEF id
  <1>2. /\ ToSupersede = {} /\ SetStatus(id, "pending")
        /\ pc \in {"resume", "activate"}
        /\ pc' = pc /\ draft' = draft /\ todo' = todo /\ msg' = id
        /\ UNCHANGED <<saved, files, final, audit, Bookkeeping>>
    BY DEF Activate, id
  <1> QED BY <1>1, <1>2, ActivatedRecord

LEMMA RecoverActiveKeeps ==
  ASSUME IInv, NEW id \in todo, RecoverActive(id)
  PROVE  IInv'
PROOF
  <1>1. /\ pc = "recover_outbox" /\ ToSupersede = {} /\ SetStatus(id, "pending")
        /\ id \in ToActivate \/ outbox[id].status = "pending"
        /\ pc' = pc /\ draft' = draft /\ todo' = todo \ {id} /\ msg' = id
        /\ UNCHANGED <<saved, files, final, audit, Bookkeeping>>
    BY DEF RecoverActive, RecoverRecord
  <1>2. id \in DOMAIN outbox
    BY <1>1 DEF IInv, PlaceSound, SweepSound
  <1> QED BY <1>1, <1>2, ActivatedRecord

\* A record of no committed transition is given up in recovery.
LEMMA GivenUpRecord ==
  ASSUME IInv, NEW id \in todo, NEW status \in {"orphaned", "aborted"},
         id.tx \notin committed, RecoverRecord(id, status), msg' = msg
  PROVE  IInv'
PROOF
  <1>1. /\ pc = "recover_outbox" /\ msg = NoMessage /\ SetStatus(id, status)
        /\ pc' = pc /\ draft' = draft /\ todo' = todo \ {id}
        /\ UNCHANGED <<saved, files, final, audit, Bookkeeping>>
    BY DEF RecoverRecord
  <1>2. id \in DOMAIN outbox
    BY <1>1 DEF IInv, PlaceSound, SweepSound
  <1>3. Restatus(id, status)
    BY <1>1, <1>2, SetStatusRestatus DEF IInv, DiskSound, Status
  <1>4. Allowed(id, status)
    <2>1. id \notin ToActivate
      BY <1>2, SeenIsCommitted DEF IInv
    <2> QED BY <2>1 DEF Allowed, Live
  <1>5. DiskSound' /\ HandlerSound' /\ CleanSound' /\ SweepSound'
    BY <1>1, <1>2, <1>3, <1>4, RecordChanged DEF Status
  <1>6. MessageSound' /\ StageSound'
    BY <1>1 DEF MessageSound, StageSound
  <1> QED BY <1>5, <1>6 DEF IInv, PlaceSound

LEMMA RecoverOrphanKeeps ==
  ASSUME IInv, NEW id \in todo, RecoverOrphan(id)
  PROVE  IInv'
PROOF
  <1>1. id \in DOMAIN outbox
    BY DEF RecoverOrphan, RecoverRecord, IInv, PlaceSound, SweepSound
  <1>2. id.tx \notin committed
    BY <1>1, SeenIsCommitted DEF RecoverOrphan, IInv
  <1> QED BY <1>2, GivenUpRecord DEF RecoverOrphan

LEMMA RecoverAbortKeeps ==
  ASSUME IInv, NEW id \in todo, RecoverAbort(id)
  PROVE  IInv'
PROOF
  <1>1. id \in DOMAIN outbox
    BY DEF RecoverAbort, RecoverRecord, IInv, PlaceSound, SweepSound
  <1>2. id.tx \notin committed
    BY <1>1 DEF RecoverAbort, ToActivate, IInv, DiskSound, RecordsSound,
                MessageRecordSound
  <1> QED BY <1>2, GivenUpRecord DEF RecoverAbort

LEMMA MarkQueuedKeeps ==
  ASSUME IInv, NEW status \in Live, MarkQueuedAndDeliver(status)
  PROVE  IInv'
PROOF
  <1>1. /\ pc \in {"resume", "activate", "recover_outbox"} /\ msg # NoMessage
        /\ outbox' = [outbox EXCEPT ![msg].queued_audited = TRUE, ![msg].status = status]
        /\ pc' = pc /\ draft' = draft /\ todo' = todo /\ msg' = NoMessage
        /\ UNCHANGED <<saved, files, final, audit, Bookkeeping>>
    BY DEF MarkQueuedAndDeliver
  <1>2. msg \in DOMAIN outbox /\ outbox[msg].status = "pending"
    BY <1>1 DEF IInv, PlaceSound, MessageSound
  <1>3. Restatus(msg, status)
    <2>1. \A i \in DOMAIN outbox : outbox[i] \in OutboxRecord
      BY DEF IInv, DiskSound, RecordsSound, MessageRecordSound
    <2> DEFINE half == [outbox EXCEPT ![msg].queued_audited = TRUE]
               new == [outbox[msg] EXCEPT !.queued_audited = TRUE, !.status = status]
    <2>2. /\ new \in OutboxRecord /\ new.status = status
          /\ new.kind = outbox[msg].kind /\ new.round = outbox[msg].round
      BY <1>2, <2>1 DEF OutboxRecord, Status
    <2>3. /\ DOMAIN half = DOMAIN outbox
          /\ half[msg] = [outbox[msg] EXCEPT !.queued_audited = TRUE]
          /\ \A i \in DOMAIN outbox : i # msg => half[i] = outbox[i]
      BY <1>2
    <2>4. outbox' = [half EXCEPT ![msg].status = status]
      BY <1>1
    <2> HIDE DEF half
    <2>5. /\ DOMAIN outbox' = DOMAIN outbox /\ outbox'[msg] = new
          /\ \A i \in DOMAIN outbox : i # msg => outbox'[i] = outbox[i]
      BY <1>2, <2>3, <2>4
    <2> HIDE DEF new
    <2> QED BY <2>1, <2>2, <2>5 DEF Restatus
  <1>4. Allowed(msg, status)
    <2>1. msg.tx \in committed
      BY <1>2, SeenIsCommitted DEF IInv, Live
    <2> QED BY <1>2, <2>1 DEF Allowed, Live, ToActivate
  <1>5. DiskSound' /\ HandlerSound' /\ CleanSound' /\ SweepSound'
    BY <1>1, <1>2, <1>3, <1>4, RecordChanged DEF Status, Live
  <1>6. MessageSound' /\ StageSound'
    BY <1>1 DEF MessageSound, StageSound
  <1> QED BY <1>5, <1>6 DEF IInv, PlaceSound

\* What the participants do with a record between calls.
LEMMA BetweenCalls ==
  ASSUME IInv, NEW id \in DOMAIN outbox,
         NEW status \in Live \cup {"acknowledged"}, pc = "idle",
         outbox[id].status \in Live, status = "acknowledged" => ResponseIsSafe(id),
         SetStatus(id, status),
         UNCHANGED <<saved, files, final, audit, handler, Bookkeeping>>
  PROVE  IInv'
PROOF
  <1>1. status \in Status /\ status # "staged"
    BY DEF Status, Live
  <1>2. Restatus(id, status)
    BY <1>1, SetStatusRestatus DEF IInv, DiskSound
  <1>3. Allowed(id, status)
    <2>1. id.tx \in committed
      BY SeenIsCommitted DEF IInv
    <2> QED BY <2>1 DEF Allowed, Live, ToActivate
  <1>4. pc' = pc /\ draft' = draft /\ todo' = todo /\ msg' = msg
    BY DEF handler
  <1>5. DiskSound' /\ HandlerSound' /\ CleanSound' /\ SweepSound'
    BY <1>1, <1>2, <1>3, <1>4, RecordChanged
  <1>6. MessageSound' /\ StageSound'
    BY <1>4 DEF IInv, PlaceSound, MessageSound, StageSound
  <1> QED BY <1>5, <1>6 DEF IInv, PlaceSound

LEMMA HandlingKeeps ==
  ASSUME IInv, NEW id \in DOMAIN outbox,
         HandOver(id) \/ Rearm(id) \/ Acknowledge(id)
  PROVE  IInv'
PROOF BY BetweenCalls DEF HandOver, Rearm, Acknowledge, Live

LEMMA RecoverAckRecordKeeps ==
  ASSUME IInv, RecoverAckRecord
  PROVE  IInv'
PROOF
  <1>1. /\ pc \in {"ack", "recover_ack"} /\ SetStatus(msg, "acknowledged")
        /\ pc' = IF pc = "ack" THEN "ack_audit" ELSE "recover_ack_audit"
        /\ draft' = draft /\ todo' = todo /\ msg' = msg
        /\ UNCHANGED <<saved, files, final, audit, Bookkeeping>>
    BY DEF RecoverAckRecord
  <1>2. /\ msg \in DOMAIN outbox /\ outbox[msg].status = "delivered"
        /\ ResponseIsSafe(msg)
    BY <1>1 DEF IInv, PlaceSound, MessageSound
  <1>3. Restatus(msg, "acknowledged")
    BY <1>1, <1>2, SetStatusRestatus DEF IInv, DiskSound, Status
  <1>4. Allowed(msg, "acknowledged")
    <2>1. msg.tx \in committed
      BY <1>2, SeenIsCommitted DEF IInv, Live
    <2> QED BY <1>2, <2>1 DEF Allowed, Live, ToActivate
  <1>5. /\ DiskSound' /\ DOMAIN outbox' = DOMAIN outbox
        /\ Reconciled => Reconciled'
        /\ \A i \in DOMAIN outbox :
             outbox'[i].status = "staged" => outbox[i].status = "staged" /\ i # msg
        /\ saved' = saved /\ clean' = clean
    BY <1>1, <1>2, <1>3, <1>4, RecordChanged DEF Status
  <1>6. AckIntent' = AckIntent
    BY <1>1 DEF AckIntent
  <1>7. MessageSound' /\ StageSound'
    BY <1>1, <1>2, <1>5 DEF IInv, PlaceSound, MessageSound, StageSound
  <1>8. HandlerSound'
    BY <1>1, <1>5, <1>6 DEF IInv, PlaceSound, HandlerSound, Places, Recovering
  <1>9. SweepSound'
    BY <1>1, <1>5 DEF IInv, PlaceSound, SweepSound
  <1>10. CleanSound'
    BY <1>1, <1>5, <1>6 DEF IInv, PlaceSound, CleanSound, Serving, Places, Recovering
  <1> QED BY <1>5, <1>7, <1>8, <1>9, <1>10 DEF IInv, PlaceSound

-----------------------------------------------------------------------------
(* The audit log and the intents.                                          *)

\* Only what the log and the intents say may change.
LEMMA LogChanged ==
  ASSUME DiskSound, saved'.m = saved.m,
         saved'.committed_transition_id = saved.committed_transition_id,
         saved'.transition_supersedes = saved.transition_supersedes,
         saved'.born = saved.born, WellFormed(saved'),
         UNCHANGED <<files, final, outbox, Bookkeeping>>, AuditSound'
  PROVE  /\ DiskSound' /\ manifest' = manifest
         /\ ToSupersede' = ToSupersede /\ ToActivate' = ToActivate
         /\ \A id : ResponseIsSafe(id)' = ResponseIsSafe(id)
PROOF
  <1>1. /\ files' = files /\ final' = final /\ outbox' = outbox
        /\ nextTx' = nextTx /\ faults' = faults /\ clean' = clean
        /\ committed' = committed
    BY DEF Bookkeeping
  <1>2. manifest' = manifest
    BY <1>1, SameManifest
  <1>3. ToSupersede' = ToSupersede /\ ToActivate' = ToActivate
    BY <1>1 DEF ToSupersede, ToActivate
  <1>4. \A id : ResponseIsSafe(id)' = ResponseIsSafe(id)
    BY <1>1, <1>2 DEF ResponseIsSafe
  <1>5. FilesSound'
    BY <1>1, <1>2 DEF DiskSound, FilesSound, WellFormed
  <1>6. Numbered' /\ FinalSound'
    BY <1>1, <1>2 DEF DiskSound, Numbered, FinalSound
  <1>7. RecordsSound'
    <2>1. ASSUME NEW id \in DOMAIN outbox, MessageRecordSound(id)
          PROVE  MessageRecordSound(id)'
      BY <1>1, <1>2, <1>4, <2>1 DEF MessageRecordSound, Answered, Awaited
    <2> QED BY <1>1, <2>1 DEF DiskSound, RecordsSound
  <1>8. SupersedesSound'
    BY <1>1, <1>3 DEF DiskSound, SupersedesSound, SupersededFirst
  <1> QED BY <1>2, <1>3, <1>4, <1>5, <1>6, <1>7, <1>8 DEF DiskSound

\* The place of the handler stays right while nothing it looks at moves.
LEMMA PlaceUnmoved ==
  ASSUME PlaceSound, saved' = saved, files' = files, outbox' = outbox,
         final' = final, UNCHANGED <<handler, Bookkeeping>>
  PROVE  PlaceSound'
PROOF
  <1>1. /\ pc' = pc /\ draft' = draft /\ todo' = todo /\ msg' = msg
        /\ nextTx' = nextTx /\ clean' = clean /\ committed' = committed
    BY DEF handler, Bookkeeping
  <1>2. manifest' = manifest /\ upcoming' = upcoming
    BY <1>1, SameManifest DEF upcoming, Loaded
  <1>3. /\ ToSupersede' = ToSupersede /\ ToActivate' = ToActivate
        /\ \A id : ResponseIsSafe(id)' = ResponseIsSafe(id)
        /\ AckIntent' = AckIntent
    BY <1>1, <1>2 DEF ToSupersede, ToActivate, ResponseIsSafe, AckIntent
  <1>4. MessageSound' /\ HandlerSound' /\ SweepSound' /\ CleanSound'
    BY <1>1, <1>3
       DEF PlaceSound, MessageSound, HandlerSound, SweepSound, CleanSound,
           Reconciled, Tx
  <1>5. StageSound'
    BY <1>1, <1>2 DEF PlaceSound, StageSound, Asked, Answered, Awaited, Tx
  <1> QED BY <1>4, <1>5 DEF PlaceSound

\* An event that is not in the log is written to it once.
LEMMA AppendedOnce ==
  ASSUME \A x \in DOMAIN audit : audit[x] = 1, NEW e, ~Recorded(e), Append(e)
  PROVE  /\ DOMAIN audit' = DOMAIN audit \cup {e}
         /\ \A x \in DOMAIN audit' : audit'[x] = 1
PROOF
  <1>1. e \notin DOMAIN audit
    BY DEF Recorded, BagIn, BagToSet
  <1>2. audit' = audit (+) SetToBag({e})
    BY DEF Append
  <1> QED BY <1>1, <1>2 DEF (+), SetToBag

LEMMA AppendKeeps ==
  ASSUME IInv, NEW e, ~Recorded(e), Append(e), e.tx \in committed,
         UNCHANGED <<saved, files, final, outbox, handler, Bookkeeping>>
  PROVE  IInv'
PROOF
  <1>1. /\ DOMAIN audit' = DOMAIN audit \cup {e}
        /\ \A x \in DOMAIN audit' : audit'[x] = 1
    BY AppendedOnce DEF IInv, DiskSound, AuditSound
  <1>2. /\ saved' = saved /\ outbox' = outbox /\ nextTx' = nextTx
        /\ committed' = committed /\ clean' = clean
        /\ pc' = pc /\ draft' = draft /\ todo' = todo /\ msg' = msg
    BY DEF Bookkeeping, handler
  <1>3. Known' = Known \cup {e}
    BY <1>1, <1>2 DEF Known
  <1>4. manifest' = manifest
    BY SameManifest
  <1>5. AuditSound'
    BY <1>1, <1>2, <1>3, <1>4 DEF IInv, DiskSound, AuditSound
  <1>6. WellFormed(saved')
    BY <1>2 DEF IInv, DiskSound, FilesSound
  <1>7. /\ DiskSound' /\ ToSupersede' = ToSupersede /\ ToActivate' = ToActivate
        /\ \A id : ResponseIsSafe(id)' = ResponseIsSafe(id)
    BY <1>2, <1>5, <1>6, LogChanged DEF IInv
  <1>8. PlaceSound'
    BY <1>2, PlaceUnmoved DEF IInv
  <1> QED BY <1>7, <1>8 DEF IInv

LEMMA AppendIntentKeeps ==
  ASSUME IInv, AppendIntent
  PROVE  IInv'
PROOF
  <1> DEFINE e == First({x \in Selected : ~Recorded(x)})
  <1>1. e \in Selected /\ ~Recorded(e)
    BY FirstIn DEF AppendIntent
  <1>2. /\ Append(e)
        /\ UNCHANGED <<saved, files, final, outbox, handler, Bookkeeping>>
    BY DEF AppendIntent
  <1> HIDE DEF e
  <1>3. e.tx \in committed
    BY <1>1 DEF Selected, IInv, DiskSound, AuditSound, Known
  <1> QED BY <1>1, <1>2, <1>3, AppendKeeps

LEMMA AppendQueuedKeeps ==
  ASSUME IInv, AppendQueued
  PROVE  IInv'
PROOF
  <1> DEFINE e == MessageEvent("message_queued", msg)
  <1>1. /\ pc \in {"resume", "activate", "recover_outbox"} /\ msg # NoMessage
        /\ ~Recorded(e) /\ Append(e)
        /\ UNCHANGED <<saved, files, final, outbox, handler, Bookkeeping>>
    BY DEF AppendQueued
  <1>2. msg \in DOMAIN outbox /\ outbox[msg].status = "pending"
    BY <1>1 DEF IInv, PlaceSound, MessageSound
  <1>3. e.tx \in committed
    BY <1>2, SeenIsCommitted DEF IInv, Live, MessageEvent
  <1> HIDE DEF e
  <1> QED BY <1>1, <1>3, AppendKeeps

\* The intents that are settled are those of the call, or the one of msg.
LEMMA ClearIntentsKeeps ==
  ASSUME IInv, ClearIntents
  PROVE  IInv'
PROOF
  <1>1. /\ pc \in Draining
        /\ \A e \in Selected : e \in DOMAIN audit
        /\ saved' = [saved EXCEPT !.pending_audit_events = @ \ Selected]
        /\ files' = files /\ final' = final /\ outbox' = outbox /\ audit' = audit
        /\ nextTx' = nextTx /\ faults' = faults /\ clean' = clean
        /\ committed' = committed
    BY DEF ClearIntents, Bookkeeping, Recorded, BagIn, BagToSet
  <1>2. WellFormed(saved)
    BY DEF IInv, DiskSound, FilesSound
  <1>3. /\ saved'.m = saved.m
        /\ saved'.committed_transition_id = saved.committed_transition_id
        /\ saved'.transition_supersedes = saved.transition_supersedes
        /\ saved'.born = saved.born
        /\ saved'.pending_audit_events = saved.pending_audit_events \ Selected
        /\ WellFormed(saved')
    BY <1>1, <1>2 DEF WellFormed
  <1>4. Known' = Known
    BY <1>1, <1>3 DEF Known, Selected
  <1>5. manifest' = manifest
    BY <1>1, <1>3, SameManifest
  <1>6. AuditSound'
    BY <1>1, <1>3, <1>4, <1>5 DEF IInv, DiskSound, AuditSound
  <1>7. /\ DiskSound' /\ ToSupersede' = ToSupersede /\ ToActivate' = ToActivate
    BY <1>1, <1>3, <1>6, LogChanged DEF IInv, Bookkeeping
  <1>8. draft = NothingSaved
    BY <1>1 DEF IInv, PlaceSound, HandlerSound, Draining
  <1>9. CASE pc \in {"drain", "audit", "recover_drain"}
    <2>1. saved'.pending_audit_events = {}
      BY <1>3, <1>9 DEF Selected
    <2>2. /\ draft' = draft /\ msg' = msg /\ msg = NoMessage
          /\ pc = "drain" => pc' = AfterDrain
          /\ pc = "audit" => pc' = "activate"
          /\ pc = "recover_drain" => pc' = "recover_final"
      BY <1>9 DEF ClearIntents, Goto, IInv, PlaceSound, MessageSound
    <2>3. pc' \in {"resume", "prepare", "activate", "recover_final"}
          /\ (pc' = "prepare" => Reconciled)
      BY <1>9, <2>2 DEF AfterDrain, Reconciled
    <2>4. MessageSound' /\ SweepSound' /\ StageSound'
      BY <2>2, <2>3 DEF MessageSound, SweepSound, StageSound
    <2>5. HandlerSound'
      BY <1>7, <1>8, <2>1, <2>2, <2>3
         DEF HandlerSound, Places, Recovering, Reconciled
    <2>6. CleanSound'
      BY <1>1, <1>3, <1>9, <2>2, <2>3
         DEF IInv, PlaceSound, CleanSound, Serving, Places, Recovering
    <2> QED BY <1>7, <2>4, <2>5, <2>6 DEF IInv, PlaceSound
  <1>10. CASE pc \in {"ack_audit", "recover_ack_audit"}
    <2>1. Selected = saved.pending_audit_events \cap {AckIntent}
      BY <1>10 DEF Selected, AckIntent
    <2>2. /\ pc = "ack_audit" => pc' = "idle" /\ draft' = NothingSaved
          /\ pc = "recover_ack_audit" =>
               pc' = "recover_outbox" /\ draft' = draft /\ todo' = todo
          /\ msg' = NoMessage
      BY <1>10 DEF ClearIntents, Return
    <2>3. pc = "recover_ack_audit" => saved'.pending_audit_events = {}
      BY <1>3, <2>1 DEF IInv, PlaceSound, HandlerSound
    <2>4. MessageSound' /\ StageSound'
      BY <1>10, <2>2 DEF MessageSound, StageSound
    <2>5. HandlerSound'
      BY <1>8, <1>10, <2>2, <2>3 DEF HandlerSound, Places, Recovering
    <2>6. SweepSound'
      BY <1>1, <1>10, <2>2 DEF IInv, PlaceSound, SweepSound
    <2>7. CleanSound'
      BY <1>1, <1>3, <1>7, <1>10, <2>1, <2>2
         DEF IInv, PlaceSound, CleanSound, Serving, Places, Recovering, Reconciled
    <2> QED BY <1>7, <2>4, <2>5, <2>6, <2>7 DEF IInv, PlaceSound
  <1> QED BY <1>1, <1>9, <1>10 DEF Draining

\* An answer that is recorded already: the acknowledgement is announced first.
LEMMA RecoverAckIntentKeeps ==
  ASSUME IInv, NEW id \in DOMAIN outbox, RecoverAckIntent(id)
  PROVE  IInv'
PROOF
  <1> DEFINE intent == MessageEvent("message_acknowledgement_recovered", id)
  <1>1. /\ saved' = [saved EXCEPT !.pending_audit_events = @ \cup {intent}]
        /\ files' = files /\ final' = final /\ outbox' = outbox /\ audit' = audit
        /\ nextTx' = nextTx /\ faults' = faults /\ clean' = clean
        /\ committed' = committed /\ draft' = draft /\ msg' = id
        /\ outbox[id].status = "delivered" /\ ResponseIsSafe(id)
        /\ \/ pc = "idle" /\ pc' = "ack" /\ todo' = todo
           \/ pc = "recover_outbox" /\ pc' = "recover_ack" /\ todo' = todo \ {id}
    BY DEF RecoverAckIntent, Bookkeeping, CanRecoverAck
  <1>2. intent.tx \in committed /\ AckIntent' = intent
    BY <1>1, SeenIsCommitted DEF IInv, Live, MessageEvent, AckIntent
  <1> HIDE DEF intent
  <1>3. WellFormed(saved)
    BY DEF IInv, DiskSound, FilesSound
  <1>4. /\ saved'.m = saved.m
        /\ saved'.committed_transition_id = saved.committed_transition_id
        /\ saved'.transition_supersedes = saved.transition_supersedes
        /\ saved'.born = saved.born
        /\ saved'.pending_audit_events = saved.pending_audit_events \cup {intent}
        /\ WellFormed(saved')
    BY <1>1, <1>3 DEF WellFormed
  <1>5. Known' = Known \cup {intent}
    BY <1>1, <1>4 DEF Known
  <1>6. manifest' = manifest
    BY <1>1, <1>4, SameManifest
  <1>7. AuditSound'
    BY <1>1, <1>2, <1>4, <1>5, <1>6 DEF IInv, DiskSound, AuditSound
  <1>8. /\ DiskSound' /\ ToSupersede' = ToSupersede /\ ToActivate' = ToActivate
        /\ \A i : ResponseIsSafe(i)' = ResponseIsSafe(i)
    BY <1>1, <1>4, <1>7, LogChanged DEF IInv, Bookkeeping
  <1>9. id \in MessageId
    BY DEF IInv, DiskSound, RecordsSound, MessageRecordSound
  <1>10. MessageSound' /\ StageSound'
    BY <1>1, <1>8, <1>9 DEF MessageSound, StageSound
  <1>11. HandlerSound'
    BY <1>1, <1>2, <1>4 DEF IInv, PlaceSound, HandlerSound, Places, Recovering
  <1>12. SweepSound'
    BY <1>1 DEF IInv, PlaceSound, SweepSound
  <1>13. CleanSound'
    BY <1>1, <1>2, <1>4, <1>8
       DEF IInv, PlaceSound, CleanSound, Serving, Places, Recovering, Reconciled
  <1> QED BY <1>8, <1>10, <1>11, <1>12, <1>13 DEF IInv, PlaceSound

\* A final.json no transition committed is discarded.
LEMMA RecoverFinalKeeps ==
  ASSUME IInv, RecoverFinal
  PROVE  IInv'
PROOF
  <1>1. /\ pc = "recover_final" /\ pc' = "recover_outbox"
        /\ final' = IF saved.m.phase \in Terminal THEN final ELSE 0
        /\ todo' = {id \in DOMAIN outbox : NeedsReconciling(id)}
        /\ draft' = draft /\ msg' = msg
        /\ saved' = saved /\ files' = files /\ outbox' = outbox /\ audit' = audit
        /\ nextTx' = nextTx /\ faults' = faults /\ clean' = clean
        /\ committed' = committed
    BY DEF RecoverFinal, Bookkeeping
  <1>2. manifest' = manifest
    BY <1>1, SameManifest
  <1>3. manifest.phase = "complete" => final' = final
    BY <1>1, SavedFields DEF IInv, DiskSound, Terminal
  <1>4. \A id : ResponseIsSafe(id) => ResponseIsSafe(id)'
    BY <1>1, <1>2, <1>3 DEF ResponseIsSafe
  <1>5. RecordsSound'
    <2>1. ASSUME NEW id \in DOMAIN outbox, MessageRecordSound(id)
          PROVE  MessageRecordSound(id)'
      BY <1>1, <1>2, <1>4, <2>1 DEF MessageRecordSound, Answered, Awaited
    <2> QED BY <1>1, <2>1 DEF IInv, DiskSound, RecordsSound
  <1>6. FilesSound' /\ Numbered' /\ AuditSound'
    BY <1>1, <1>2 DEF IInv, DiskSound, FilesSound, Numbered, AuditSound, Known
  <1>7. FinalSound'
    BY <1>1, <1>2, <1>3, BoundsAssumption DEF IInv, DiskSound, FinalSound
  <1>8. SupersedesSound'
    BY <1>1 DEF IInv, DiskSound, SupersedesSound, SupersededFirst, ToSupersede
  <1>9. msg = NoMessage
    BY <1>1 DEF IInv, PlaceSound, MessageSound
  <1>10. MessageSound' /\ StageSound'
    BY <1>1, <1>9 DEF MessageSound, StageSound
  <1>11. HandlerSound'
    BY <1>1 DEF IInv, PlaceSound, HandlerSound, Places, Recovering
  <1>12. SweepSound'
    BY <1>1 DEF SweepSound, NeedsReconciling
  <1>13. CleanSound'
    BY <1>1 DEF CleanSound, Serving, Recovering
  <1> QED BY <1>5, <1>6, <1>7, <1>8, <1>10, <1>11, <1>12, <1>13
          DEF IInv, DiskSound, PlaceSound

-----------------------------------------------------------------------------
(* The transitions.                                                        *)

\* No request outlives the dialogue's move from m to n unless it is replaced.
Settles(m, n, supersedes) ==
  \A id \in DOMAIN outbox :
    outbox[id].status \in Live /\ (Answered(m, id) \/ Awaited(m, id)) =>
      Answered(n, id) \/ Awaited(n, id) \/ id \in supersedes

\* What a call hands to Prepared once it has checked its arguments.
Fits(n, supersedes, events, recipients) ==
  /\ Good(n) /\ Moved(manifest, n)
  /\ recipients \subseteq Participant
  /\ n.phase \in Collecting => recipients \subseteq n.required_submitters
  /\ supersedes \subseteq {i \in DOMAIN outbox : outbox[i].status \in Live}
  /\ supersedes # {} => recipients # {}
  /\ events # {} /\ (n.phase = "complete" => "dialogue_completed" \in events)
  /\ Settles(manifest, n, supersedes)

LEMMA PreparedDraft ==
  ASSUME NEW n, n \in Manifest, NEW supersedes, NEW events, NEW recipients,
         Prepared(n, supersedes, events, recipients),
         OneFileEach(files'), n.submissions \subseteq files'
  PROVE  /\ WellFormed(draft') /\ upcoming' = n /\ draft'.m = Unloaded(n)
         /\ Tx' = nextTx /\ draft'.transition_supersedes = supersedes
         /\ draft'.pending_audit_events =
              {TransitionEvent(event, nextTx) : event \in events}
         /\ draft'.born = IF saved.m.phase = "absent" THEN nextTx ELSE saved.born
PROOF
  <1>1. draft' = SavedManifest(n, nextTx, supersedes,
                   {TransitionEvent(event, nextTx) : event \in events},
                   IF saved.m.phase = "absent" THEN nextTx ELSE saved.born)
    BY DEF Prepared
  <1>2. /\ draft'.m = Unloaded(n) /\ Tx' = nextTx
        /\ draft'.transition_supersedes = supersedes
        /\ draft'.pending_audit_events =
              {TransitionEvent(event, nextTx) : event \in events}
        /\ draft'.born = IF saved.m.phase = "absent" THEN nextTx ELSE saved.born
    BY <1>1 DEF SavedManifest, Tx
  <1>3. WellFormed(draft')
    BY <1>1 DEF SavedManifest, WellFormed
  <1>4. upcoming' = LoadedFrom(Unloaded(n), files')
    BY <1>2 DEF upcoming, Loaded, LoadedFrom
  <1>5. upcoming' = n
    BY <1>4, LoadedBack
  <1> QED BY <1>2, <1>3, <1>5

LEMMA PreparedKeeps ==
  ASSUME IInv, pc = "prepare", NEW n, NEW supersedes, NEW events, NEW recipients,
         Fits(n, supersedes, events, recipients),
         Prepared(n, supersedes, events, recipients),
         FilesSound', manifest' = manifest, n.submissions \subseteq files',
         UNCHANGED <<saved, final, outbox, audit, faults, clean, committed>>
  PROVE  IInv'
PROOF
  <1>1. n \in Manifest /\ OneFileEach(files')
    BY DEF Fits, Good, Sound, FilesSound, OneFileEach
  <1>2. /\ WellFormed(draft') /\ upcoming' = n /\ draft'.m = Unloaded(n)
        /\ Tx' = nextTx /\ draft'.transition_supersedes = supersedes
        /\ draft'.pending_audit_events =
             {TransitionEvent(event, nextTx) : event \in events}
        /\ draft'.born = IF saved.m.phase = "absent" THEN nextTx ELSE saved.born
    BY <1>1, PreparedDraft
  <1>3. /\ nextTx \in TxId /\ nextTx' = nextTx + 1
        /\ todo' = recipients /\ pc' = "stage" /\ msg' = NoMessage
        /\ saved' = saved /\ outbox' = outbox /\ committed' = committed
        /\ clean' = clean
    BY DEF Prepared
  <1>4. DiskSound' /\ ToSupersede' = ToSupersede /\ ToActivate' = ToActivate
    <2>1. nextTx' \in 1..(MaxTransitions + 1)
      BY <1>3, BoundsAssumption DEF TxId
    <2>2. faults' \in 0..MaxFaults /\ clean' \in BOOLEAN
      BY DEF IInv, DiskSound, Numbered
    <2> QED BY <1>3, <2>1, <2>2, DiskKept DEF IInv
  <1>5. nextTx \notin committed
    BY <1>3 DEF IInv, DiskSound, Numbered, TxId
  <1>6. nextTx = nextTx' - 1
    BY <1>3 DEF TxId
  <1>7. \A id \in DOMAIN outbox : id.tx < nextTx
    BY DEF IInv, DiskSound, RecordsSound, MessageRecordSound
  <1>8. \A id \in DOMAIN outbox : id.tx # nextTx
    BY <1>3, <1>7 DEF TxId
  <1>9. saved.m.phase = manifest.phase
    BY SavedFields DEF IInv, DiskSound
  <1>10. StageSound'
    <2>1. /\ Good(n) /\ Moved(manifest, n)
          /\ recipients \subseteq Participant
          /\ \A p \in recipients : n.phase \in Collecting => p \in n.required_submitters
          /\ \A id \in supersedes : id \in DOMAIN outbox
          /\ supersedes # {} => recipients # {}
      BY DEF Fits
    <2>2. \A p : Asked(p)' <=> (n.phase \in Collecting => p \in n.required_submitters)
      BY <1>2 DEF Asked
    <2>3. \E e \in draft'.pending_audit_events : e.recipient = "none"
      <3>1. PICK event \in events : TRUE
        BY DEF Fits
      <3>2. TransitionEvent(event, nextTx) \in draft'.pending_audit_events
        BY <1>2
      <3>3. TransitionEvent(event, nextTx).recipient = "none"
        BY DEF TransitionEvent
      <3> QED BY <3>2, <3>3
    <2>4. \A e \in draft'.pending_audit_events : e.tx = nextTx
      BY <1>2 DEF TransitionEvent
    <2>5. n.phase = "complete" =>
            TransitionEvent("dialogue_completed", nextTx) \in draft'.pending_audit_events
      BY <1>2 DEF Fits
    <2>6. \A id \in DOMAIN outbox' :
            outbox'[id].status \in Live
              /\ (Answered(manifest, id) \/ Awaited(manifest, id))'
            => (Answered(upcoming, id) \/ Awaited(upcoming, id))'
               \/ id \in draft'.transition_supersedes
      BY <1>2, <1>3 DEF Fits, Settles, Answered, Awaited
    <2> QED BY <1>2, <1>3, <1>5, <1>6, <1>7, <1>8, <1>9,
               <2>1, <2>2, <2>3, <2>4, <2>5, <2>6 DEF StageSound
  <1>11. /\ saved.pending_audit_events = {} /\ Reconciled
         /\ clean => \A id \in DOMAIN outbox : outbox[id].status = "staged" =>
                       id.tx = saved.committed_transition_id
    BY DEF IInv, PlaceSound, HandlerSound, CleanSound, Serving, Places, Recovering
  <1>12. MessageSound' /\ SweepSound'
    BY <1>3 DEF MessageSound, SweepSound
  <1>13. HandlerSound'
    BY <1>3, <1>4, <1>11 DEF HandlerSound, Places, Reconciled
  <1>14. CleanSound'
    BY <1>3, <1>11 DEF CleanSound
  <1> QED BY <1>4, <1>10, <1>12, <1>13, <1>14 DEF IInv, PlaceSound

\* A call about a dialogue that exists asks whom its next manifest waits for.
LEMMA RecipientsFit ==
  ASSUME NEW m, m.phase # "absent", NEW n \in Manifest, NEW canceller
  PROVE  LET asked == Recipients(m, n, canceller)
         IN  /\ asked \subseteq Participant
             /\ n.phase \in Collecting => asked \subseteq n.required_submitters
PROOF
  <1>1. ParticipantNames(n) \subseteq Participant
    BY DEF ParticipantNames, Manifest
  <1>2. n.required_submitters \subseteq Participant
    BY DEF Manifest
  <1> QED BY <1>1, <1>2 DEF Recipients, Collecting

LEMMA AnsweredIsAnswerIn ==
  ASSUME NEW m, NEW id
  PROVE  /\ Answered(m, id)
              <=> AnswerIn(m, outbox[id].kind, outbox[id].round, id.recipient)
         /\ Awaited(m, id)
              <=> AwaitedIn(m, outbox[id].kind, outbox[id].round, id.recipient)
PROOF BY DEF Answered, AnswerIn, Awaited, AwaitedIn

LEMMA StartKeeps ==
  ASSUME IInv, NEW a \in StartArguments,
         Start(a.initiator, a.peers, a.minimum, a.rounds, a.max, a.stop)
  PROVE  IInv'
PROOF
  <1> DEFINE n == StartedManifest(a.initiator, a.peers, a.minimum, a.rounds,
                                  a.max, a.stop)
             asked == Recipients(manifest, n, a.initiator)
  <1>1. /\ a.initiator \in Participant /\ a.peers \in SUBSET Participant
        /\ a.minimum \in Round /\ a.rounds \in Round /\ a.max \in Round
        /\ a.stop \in BOOLEAN
    BY StartAssumption
  <1>2. /\ pc = "prepare" /\ saved.m.phase = "absent"
        /\ ValidStart(a.initiator, a.peers, a.minimum, a.rounds, a.max)
        /\ Prepared(n, {}, {"dialogue_started"}, asked)
        /\ saved' = saved /\ files' = files /\ final' = final /\ outbox' = outbox
        /\ audit' = audit
        /\ UNCHANGED <<faults, clean, committed>>
    BY DEF Start, disk
  <1>3. manifest' = manifest /\ FilesSound' /\ manifest.phase = "absent"
    BY <1>2, SameManifest, SavedFields DEF IInv, DiskSound, FilesSound
  <1>4. Good(n) /\ n.phase = "collecting_proposals"
    BY <1>1, <1>2, StartedGood
  <1>5. Moved(manifest, n)
    BY <1>1, <1>2, <1>3 DEF Moved
  <1>6. /\ n.peers = a.peers /\ n.submissions = {}
        /\ n.required_submitters = {a.initiator} \cup a.peers
    BY DEF StartedManifest
  <1> HIDE DEF n
  <1>7. asked = a.peers
    BY <1>3, <1>4, <1>6 DEF Recipients
  <1>8. Settles(manifest, n, {})
    BY <1>3, SeenIsCommitted DEF Settles, IInv, DiskSound, Numbered
  <1>9. Fits(n, {}, {"dialogue_started"}, asked)
    BY <1>1, <1>4, <1>5, <1>6, <1>7, <1>8 DEF Fits
  <1> HIDE DEF asked
  <1> QED BY <1>2, <1>3, <1>6, <1>9, PreparedKeeps

\* The new file does not stand where the manifest already has one.
LEMMA SubmitFiles ==
  ASSUME FilesSound, saved' = saved, NEW s \in Submission,
         \A t \in manifest.submissions : Path(t) # Path(s),
         files' = {f \in files : Path(f) # Path(s)} \cup {s}
  PROVE  /\ FilesSound' /\ manifest' = manifest
         /\ manifest.submissions \cup {s} \subseteq files'
PROOF
  <1>1. manifest \in Manifest /\ manifest.submissions \subseteq files
    BY SavedFields
  <1>2. manifest.submissions \subseteq files' /\ s \in files'
    BY <1>1
  <1>3. OneFileEach(files') /\ files' \subseteq Submission
    BY DEF OneFileEach, FilesSound
  <1>4. manifest' = LoadedFrom(Unloaded(manifest), files')
    BY DEF manifest, Loaded, LoadedFrom, FilesSound
  <1>5. manifest' = manifest
    BY <1>1, <1>2, <1>3, <1>4, LoadedBack
  <1> QED BY <1>2, <1>3, <1>5 DEF FilesSound, OneFileEach

LEMMA SubmitFiled ==
  ASSUME IInv, NEW participant \in Participant, NEW kind \in Kind,
         NEW round \in Round, NEW payload \in Payload(kind),
         Submit(participant, kind, round, payload)
  PROVE  /\ FilesSound' /\ manifest' = manifest /\ round = ArtifactRound(manifest)
         /\ manifest.submissions \cup
              {[kind |-> kind, round |-> round,
                participant |-> participant, payload |-> payload]} \subseteq files'
PROOF
  <1> DEFINE s == [kind |-> kind, round |-> round,
                   participant |-> participant, payload |-> payload]
  <1>1. /\ SubmitOutcome(manifest, participant, kind, round, payload) = "accepted"
        /\ files' = {f \in files : Path(f) # [kind |-> kind, round |-> round,
                                              participant |-> participant]} \cup {s}
        /\ saved' = saved
    BY DEF Submit
  <1>2. FilesSound
    BY DEF IInv, DiskSound
  <1>3. round = ArtifactRound(manifest)
        /\ Existing(manifest, participant, kind, round) = {}
    BY <1>1 DEF SubmitOutcome, Repeated
  <1>4. s \in Submission
        /\ Path(s) = [kind |-> kind, round |-> round, participant |-> participant]
    BY PayloadType DEF Submission, Path
  <1>5. \A t \in manifest.submissions : Path(t) # Path(s)
    <2>1. ASSUME NEW t \in manifest.submissions, Path(t) = Path(s)
          PROVE  FALSE
      <3>1. Path(t).kind = kind /\ Path(t).round = round
            /\ Path(t).participant = participant
        BY <1>4, <2>1
      <3>2. t.kind = kind /\ t.round = round /\ t.participant = participant
        BY <3>1 DEF Path
      <3> QED BY <1>3, <2>1, <3>2 DEF Existing
    <2> QED BY <2>1
  <1>6. /\ FilesSound' /\ manifest' = manifest
        /\ manifest.submissions \cup {s} \subseteq files'
    BY <1>1, <1>2, <1>4, <1>5, SubmitFiles
  <1> QED BY <1>3, <1>6

LEMMA SubmitKeeps ==
  ASSUME IInv, NEW participant \in Participant, NEW kind \in Kind,
         IsExpected(manifest, participant, kind),
         NEW round \in Round, NEW payload \in Payload(kind),
         Submit(participant, kind, round, payload)
  PROVE  IInv'
PROOF
  <1> DEFINE n == SubmittedManifest(manifest, participant, kind, payload)
             s == [kind |-> kind, round |-> round,
                   participant |-> participant, payload |-> payload]
             asked == Recipients(manifest, n, participant)
             events == {"submission_received"} \cup
                         (IF n.phase = "complete" THEN {"dialogue_completed"} ELSE {})
  <1>1. /\ pc = "prepare" /\ saved.m.phase # "absent"
        /\ participant \in ParticipantNames(manifest)
        /\ SubmitOutcome(manifest, participant, kind, round, payload) = "accepted"
        /\ Prepared(n, {}, events, asked)
        /\ UNCHANGED <<saved, final, outbox, audit, faults, clean, committed>>
    BY DEF Submit
  <1>2. Good(manifest) /\ manifest.phase # "absent"
    BY <1>1, SavedFields DEF IInv, DiskSound, FilesSound
  <1>3. /\ FilesSound' /\ manifest' = manifest /\ round = ArtifactRound(manifest)
        /\ manifest.submissions \cup {s} \subseteq files'
    BY SubmitFiled
  <1>4. /\ Good(n) /\ Advances(manifest, n)
        /\ n.submissions = manifest.submissions \cup {s}
        /\ \A k, r, p : AwaitedIn(manifest, k, r, p) =>
             AnswerIn(n, k, r, p) \/ AwaitedIn(n, k, r, p)
    BY <1>1, <1>2, <1>3, SubmittedMoves
  <1>5. Moved(manifest, n)
    BY <1>1, <1>2 DEF Moved
  <1> HIDE DEF n, s
  <1>6. n \in Manifest
    BY <1>4 DEF Good, Sound
  <1>7. Settles(manifest, n, {})
    <2>1. ASSUME NEW id \in DOMAIN outbox,
                 Answered(manifest, id) \/ Awaited(manifest, id)
          PROVE  Answered(n, id) \/ Awaited(n, id)
      BY <1>4, <2>1, AnsweredIsAnswerIn, AnswerKept DEF Advances
    <2> QED BY <2>1 DEF Settles
  <1>8. Fits(n, {}, events, asked)
    BY <1>2, <1>4, <1>5, <1>6, <1>7, RecipientsFit DEF Fits
  <1> HIDE DEF asked, events
  <1> QED BY <1>1, <1>3, <1>4, <1>8, PreparedKeeps

LEMMA ExtendKeeps ==
  ASSUME IInv, NEW participant \in Participant, NEW id \in ExtensionId,
         NEW additional \in 1..MaxCouncilRounds, Extend(participant, id, additional)
  PROVE  IInv'
PROOF
  <1> DEFINE n == ExtendedManifest(manifest, id, additional)
             replaced == {i \in DOMAIN outbox : /\ i.recipient = participant
                                                /\ outbox[i].kind = "synthesis"
                                                /\ outbox[i].status \in Live}
             supersedes == IF manifest.phase = "collecting_synthesis"
                           THEN replaced ELSE {}
             asked == Recipients(manifest, n, participant)
  <1>1. /\ pc = "prepare" /\ saved.m.phase # "absent"
        /\ participant = manifest.initiator
        /\ CanExtend(manifest, id, additional)
        /\ Prepared(n, supersedes, {"rounds_extended"}, asked)
        /\ saved' = saved /\ files' = files /\ final' = final /\ outbox' = outbox
        /\ audit' = audit
        /\ UNCHANGED <<faults, clean, committed>>
    BY DEF Extend, disk
  <1>2. /\ Good(manifest) /\ manifest.phase # "absent"
        /\ FilesSound' /\ manifest' = manifest
        /\ manifest.submissions \subseteq files
    BY <1>1, SavedFields, SameManifest DEF IInv, DiskSound, FilesSound
  <1>3. /\ Good(n) /\ Advances(manifest, n)
        /\ n.phase = "collecting_exchange" /\ n.submissions = manifest.submissions
        /\ n.required_submitters = ParticipantNames(n)
        /\ \A k, r, p : AwaitedIn(manifest, k, r, p) =>
             \/ AwaitedIn(n, k, r, p)
             \/ /\ manifest.phase = "collecting_synthesis"
                /\ k = "synthesis" /\ p = manifest.initiator
    BY <1>1, <1>2, ExtendedMoves
  <1>4. Moved(manifest, n)
    BY <1>1, <1>2 DEF Moved
  <1> HIDE DEF n
  <1>5. n \in Manifest
    BY <1>3 DEF Good, Sound
  <1>6. supersedes # {} => asked # {}
    BY <1>3 DEF Recipients, ParticipantNames
  <1>7. Settles(manifest, n, supersedes)
    <2>1. ASSUME NEW i \in DOMAIN outbox, outbox[i].status \in Live,
                 Answered(manifest, i) \/ Awaited(manifest, i)
          PROVE  Answered(n, i) \/ Awaited(n, i) \/ i \in supersedes
      BY <1>1, <1>3, <2>1, AnsweredIsAnswerIn, AnswerKept
    <2> QED BY <2>1 DEF Settles
  <1>8. Fits(n, supersedes, {"rounds_extended"}, asked)
    BY <1>2, <1>3, <1>4, <1>5, <1>6, <1>7, RecipientsFit DEF Fits
  <1> HIDE DEF asked, supersedes
  <1> QED BY <1>1, <1>2, <1>3, <1>8, PreparedKeeps

LEMMA CancelKeeps ==
  ASSUME IInv, NEW participant \in Participant, Cancel(participant)
  PROVE  IInv'
PROOF
  <1> DEFINE n == CancelledManifest(manifest)
             live == {i \in DOMAIN outbox : outbox[i].status \in Live}
             asked == Recipients(manifest, n, participant)
  <1>1. /\ pc = "prepare" /\ manifest.phase \in Collecting
        /\ Prepared(n, live, {"dialogue_cancelled"}, asked)
        /\ saved' = saved /\ files' = files /\ final' = final /\ outbox' = outbox
        /\ audit' = audit
        /\ UNCHANGED <<faults, clean, committed>>
    BY DEF Cancel, disk
  <1>2. /\ Good(manifest) /\ manifest.phase # "absent"
        /\ FilesSound' /\ manifest' = manifest
        /\ manifest.submissions \subseteq files
    BY <1>1, SavedFields, SameManifest DEF IInv, DiskSound, FilesSound, Collecting
  <1>3. /\ Good(n) /\ n.phase = "cancelled" /\ n.submissions = manifest.submissions
        /\ ParticipantNames(n) = ParticipantNames(manifest)
    BY <1>1, <1>2, CancelledMoves
  <1>4. Moved(manifest, n)
    BY <1>1 DEF Moved
  <1> HIDE DEF n
  <1>5. n \in Manifest
    BY <1>3 DEF Good, Sound
  <1>6. asked # {}
    <2>1. asked = ParticipantNames(manifest) \ {participant}
      BY <1>1, <1>3 DEF Recipients, Collecting
    <2>2. manifest.peers # {} /\ manifest.initiator \notin manifest.peers
      BY <1>2 DEF Good, Sound, Legal
    <2> QED BY <2>1, <2>2 DEF ParticipantNames
  <1>7. Settles(manifest, n, live)
    BY DEF Settles
  <1>8. Fits(n, live, {"dialogue_cancelled"}, asked)
    BY <1>2, <1>3, <1>4, <1>5, <1>6, <1>7, RecipientsFit DEF Fits
  <1> HIDE DEF asked, live
  <1> QED BY <1>1, <1>2, <1>3, <1>8, PreparedKeeps

-----------------------------------------------------------------------------
(* What a handler about to commit writes, and the commit.                  *)

\* Until the commit the dialogue has not ended, and nothing of it is told by
\* final.json or by records of the next transition.
LEMMA Staging ==
  ASSUME IInv, pc = "stage"
  PROVE  /\ manifest.phase \notin Terminal
         /\ upcoming.phase \in Collecting \cup Terminal
         /\ upcoming \in Manifest
         /\ draft.m.phase = upcoming.phase
         /\ draft.m.current_round = upcoming.current_round
         /\ Tx \in TxId /\ Tx = nextTx - 1 /\ Tx < nextTx /\ Tx \notin committed
         /\ Tx # saved.committed_transition_id
         /\ msg = NoMessage /\ Reconciled /\ saved.pending_audit_events = {}
PROOF
  <1>1. Good(manifest) /\ Good(upcoming) /\ Moved(manifest, upcoming)
        /\ draft.m = Unloaded(upcoming)
        /\ Tx \in TxId /\ Tx = nextTx - 1 /\ Tx \notin committed
    BY DEF IInv, DiskSound, FilesSound, PlaceSound, StageSound
  <1>2. manifest.phase \notin Terminal /\ upcoming.phase # "absent"
    BY <1>1, MovedOn
  <1>3. upcoming \in Manifest
    BY <1>1 DEF Good, Sound
  <1>4. upcoming.phase \in Collecting \cup Terminal
    BY <1>2, <1>3 DEF Manifest
  <1>5. draft.m.phase = upcoming.phase
        /\ draft.m.current_round = upcoming.current_round
    BY <1>1, <1>3 DEF Unloaded, Manifest
  <1>6. Tx < nextTx
    BY <1>1 DEF IInv, DiskSound, Numbered, TxId
  <1>7. Tx # saved.committed_transition_id
    BY <1>1 DEF IInv, DiskSound, Numbered, TxId
  <1>8. msg = NoMessage /\ Reconciled /\ saved.pending_audit_events = {}
    BY DEF IInv, PlaceSound, MessageSound, HandlerSound
  <1> QED BY <1>1, <1>2, <1>3, <1>4, <1>5, <1>6, <1>7, <1>8

LEMMA WriteFinalKeeps ==
  ASSUME IInv, WriteFinal
  PROVE  IInv'
PROOF
  <1>1. /\ pc = "stage" /\ final' = Tx
        /\ saved' = saved /\ files' = files /\ outbox' = outbox /\ audit' = audit
        /\ nextTx' = nextTx /\ faults' = faults /\ clean' = clean
        /\ committed' = committed
        /\ pc' = pc /\ draft' = draft /\ todo' = todo /\ msg' = msg
    BY DEF WriteFinal, Bookkeeping, handler
  <1>2. /\ manifest.phase # "complete" /\ Tx \in 0..MaxTransitions
        /\ msg = NoMessage /\ Reconciled
    BY <1>1, Staging, BoundsAssumption DEF Terminal, TxId
  <1>3. manifest' = manifest /\ upcoming' = upcoming
    BY <1>1, SameManifest DEF upcoming, Loaded
  <1>4. \A id : ResponseIsSafe(id)' = ResponseIsSafe(id)
    BY <1>1, <1>2, <1>3 DEF ResponseIsSafe
  <1>5. RecordsSound'
    <2>1. ASSUME NEW id \in DOMAIN outbox, MessageRecordSound(id)
          PROVE  MessageRecordSound(id)'
      BY <1>1, <1>3, <1>4, <2>1 DEF MessageRecordSound, Answered, Awaited
    <2> QED BY <1>1, <2>1 DEF IInv, DiskSound, RecordsSound
  <1>6. FilesSound' /\ Numbered' /\ AuditSound' /\ FinalSound'
    BY <1>1, <1>2, <1>3
       DEF IInv, DiskSound, FilesSound, Numbered, AuditSound, Known, FinalSound
  <1>7. ToSupersede' = ToSupersede /\ ToActivate' = ToActivate
    BY <1>1 DEF ToSupersede, ToActivate
  <1>8. SupersedesSound'
    BY <1>1, <1>7 DEF IInv, DiskSound, SupersedesSound, SupersededFirst
  <1>9. MessageSound' /\ SweepSound'
    BY <1>1, <1>2 DEF MessageSound, SweepSound
  <1>10. HandlerSound' /\ CleanSound'
    BY <1>1, <1>7 DEF IInv, PlaceSound, HandlerSound, CleanSound, Reconciled, Tx
  <1>11. StageSound'
    BY <1>1, <1>3 DEF IInv, PlaceSound, StageSound, Asked, Answered, Awaited, Tx
  <1> QED BY <1>5, <1>6, <1>8, <1>9, <1>10, <1>11 DEF IInv, DiskSound, PlaceSound

\* The record that _queue writes.
Notice ==
  [kind |-> RequestKind(draft.m), round |-> draft.m.current_round,
   status |-> "staged", queued_audited |-> FALSE]

LEMMA NoticeSound ==
  ASSUME IInv, pc = "stage"
  PROVE  /\ Notice \in OutboxRecord
         /\ Notice.status = "staged"
         /\ Notice.kind = RequestKind(upcoming)
         /\ Notice.round = upcoming.current_round
         /\ upcoming.phase \in Collecting =>
              RequestKind(upcoming) = ExpectedKind[upcoming.phase]
         /\ upcoming.phase \in Terminal => RequestKind(upcoming) = upcoming.phase
PROOF
  <1>1. /\ upcoming.phase \in Collecting \cup Terminal /\ upcoming \in Manifest
        /\ draft.m.phase = upcoming.phase
        /\ draft.m.current_round = upcoming.current_round
    BY Staging
  <1>2. RequestKind(draft.m) = RequestKind(upcoming)
    BY <1>1 DEF RequestKind
  <1>3. /\ upcoming.phase \in Collecting =>
              RequestKind(upcoming) = ExpectedKind[upcoming.phase]
        /\ upcoming.phase \in Terminal => RequestKind(upcoming) = upcoming.phase
    BY DEF RequestKind, Collecting, Terminal
  <1>4. RequestKind(upcoming) \in MessageKind
    BY <1>1, <1>3, ExpectedKindType DEF MessageKind
  <1>5. upcoming.current_round \in Round
    BY <1>1 DEF Manifest
  <1> QED BY <1>1, <1>2, <1>3, <1>4, <1>5 DEF Notice, OutboxRecord, Status

LEMMA QueueKeeps ==
  ASSUME IInv, Queue
  PROVE  IInv'
PROOF
  <1>1. PICK p : p = First(todo)
    OBVIOUS
  <1>2. PICK id : id = [tx |-> Tx, recipient |-> p]
    OBVIOUS
  <1>3. PICK new : new = Notice
    OBVIOUS
  <1>4. /\ pc = "stage" /\ todo # {}
        /\ outbox' = [i \in DOMAIN outbox \cup {id} |-> IF i = id THEN new ELSE outbox[i]]
        /\ todo' = todo \ {p}
        /\ saved' = saved /\ files' = files /\ final' = final /\ audit' = audit
        /\ nextTx' = nextTx /\ faults' = faults /\ clean' = clean
        /\ committed' = committed
        /\ pc' = pc /\ draft' = draft /\ msg' = msg
    BY <1>1, <1>2, <1>3 DEF Queue, Bookkeeping, Notice
  <1>5. p \in todo /\ p \in Participant /\ Asked(p)
    BY <1>1, <1>4, FirstIn DEF IInv, PlaceSound, StageSound
  <1>6. /\ new \in OutboxRecord /\ new.status = "staged"
        /\ new.kind = RequestKind(upcoming) /\ new.round = upcoming.current_round
    BY <1>3, <1>4, NoticeSound
  <1>7. /\ Tx \in TxId /\ Tx < nextTx /\ Tx \notin committed
        /\ Tx # saved.committed_transition_id
        /\ msg = NoMessage /\ Reconciled /\ saved.pending_audit_events = {}
    BY <1>4, Staging
  <1>8. id \in MessageId /\ id.tx = Tx /\ id.recipient = p
    BY <1>2, <1>5, <1>7 DEF MessageId
  <1>9. /\ DOMAIN outbox' = DOMAIN outbox \cup {id} /\ outbox'[id] = new
        /\ \A i \in DOMAIN outbox : i # id => outbox'[i] = outbox[i]
    BY <1>4
  <1>10. manifest' = manifest /\ upcoming' = upcoming
    BY <1>4, SameManifest DEF upcoming, Loaded
  <1>11. Reconciled'
    <2>1. ToActivate' = {}
      BY <1>4, <1>7, <1>8, <1>9 DEF Reconciled, ToActivate
    <2>2. ToSupersede' = {}
      <3>1. \A i \in saved.transition_supersedes : i \in DOMAIN outbox
        BY DEF IInv, DiskSound, SupersedesSound
      <3> QED BY <1>4, <1>6, <1>7, <1>9, <3>1 DEF Reconciled, ToSupersede, Live
    <2> QED BY <2>1, <2>2 DEF Reconciled
  <1>12. RecordsSound'
    <2>1. ASSUME NEW i \in DOMAIN outbox, i # id, MessageRecordSound(i)
          PROVE  MessageRecordSound(i)'
      <3>1. outbox'[i] = outbox[i]
        BY <1>9, <2>1
      <3> QED BY <1>4, <1>10, <2>1, <3>1
              DEF MessageRecordSound, Answered, Awaited, ResponseIsSafe
    <2>2. MessageRecordSound(id)'
      BY <1>4, <1>6, <1>7, <1>8, <1>9 DEF MessageRecordSound
    <2> QED BY <1>9, <2>1, <2>2 DEF IInv, DiskSound, RecordsSound
  <1>13. FilesSound' /\ Numbered' /\ AuditSound' /\ FinalSound'
    BY <1>4, <1>10
       DEF IInv, DiskSound, FilesSound, Numbered, AuditSound, Known, FinalSound
  <1>14. SupersedesSound'
    BY <1>4, <1>9, <1>11
       DEF IInv, DiskSound, SupersedesSound, SupersededFirst, Reconciled
  <1>15. MessageSound' /\ SweepSound'
    BY <1>4, <1>7 DEF MessageSound, SweepSound
  <1>16. HandlerSound'
    BY <1>4, <1>11 DEF IInv, PlaceSound, HandlerSound
  <1>17. CleanSound'
    <2>1. Tx' = Tx
      BY <1>4 DEF Tx
    <2> QED BY <1>4, <1>8, <1>9, <2>1 DEF IInv, PlaceSound, CleanSound
  <1>18. StageSound'
    <2>1. Tx' = Tx /\ \A q : Asked(q)' = Asked(q)
      BY <1>4, <1>10 DEF Tx, Asked
    <2>2. \A i \in DOMAIN outbox' : i.tx = Tx =>
             /\ outbox'[i].status = "staged"
             /\ outbox'[i].kind = RequestKind(upcoming)
             /\ outbox'[i].round = upcoming.current_round
             /\ Asked(i.recipient)
      BY <1>4, <1>5, <1>6, <1>8, <1>9 DEF IInv, PlaceSound, StageSound
    <2>3. \A i \in DOMAIN outbox' :
             outbox'[i].status \in Live
               /\ (Answered(manifest, i) \/ Awaited(manifest, i))'
             => (Answered(upcoming, i) \/ Awaited(upcoming, i))'
                \/ i \in draft.transition_supersedes
      <3>1. ASSUME NEW i \in DOMAIN outbox', outbox'[i].status \in Live
            PROVE  i \in DOMAIN outbox /\ outbox'[i] = outbox[i]
        BY <1>6, <1>9, <3>1 DEF Live
      <3>2. ASSUME NEW i \in DOMAIN outbox', outbox'[i].status \in Live
            PROVE  /\ Answered(manifest, i)' = Answered(manifest, i)
                   /\ Awaited(manifest, i)' = Awaited(manifest, i)
                   /\ Answered(upcoming, i)' = Answered(upcoming, i)
                   /\ Awaited(upcoming, i)' = Awaited(upcoming, i)
        BY <1>10, <3>1, <3>2 DEF Answered, Awaited
      <3>3. \A i \in DOMAIN outbox :
              outbox[i].status \in Live /\ (Answered(manifest, i) \/ Awaited(manifest, i))
                => \/ Answered(upcoming, i) \/ Awaited(upcoming, i)
                   \/ i \in draft.transition_supersedes
        BY <1>4 DEF IInv, PlaceSound, StageSound
      <3> QED BY <3>1, <3>2, <3>3
    <2>4. \E i \in DOMAIN outbox' : i.tx = Tx
      BY <1>8, <1>9
    <2>5. \A i \in draft.transition_supersedes : i \in DOMAIN outbox' /\ i.tx < Tx
      BY <1>4, <1>9 DEF IInv, PlaceSound, StageSound
    <2>6. /\ WellFormed(draft) /\ draft.m = Unloaded(upcoming)
          /\ Good(upcoming) /\ Moved(manifest, upcoming)
          /\ Tx = nextTx - 1
          /\ draft.born = IF manifest.phase = "absent" THEN Tx ELSE saved.born
          /\ todo \subseteq Participant /\ \A q \in todo : Asked(q)
          /\ \E e \in draft.pending_audit_events : e.recipient = "none"
          /\ \A e \in draft.pending_audit_events : e.tx = Tx
          /\ upcoming.phase = "complete" =>
               TransitionEvent("dialogue_completed", Tx) \in draft.pending_audit_events
      BY <1>4 DEF IInv, PlaceSound, StageSound
    <2> QED BY <1>4, <1>7, <1>10, <2>1, <2>2, <2>3, <2>4, <2>5, <2>6 DEF StageSound
  <1> QED BY <1>12, <1>13, <1>14, <1>15, <1>16, <1>17, <1>18
          DEF IInv, DiskSound, PlaceSound

\* The commit makes the move: what was awaited is answered, still awaited or
\* about to be replaced, and the records staged for it are now to be shown.
LEMMA CommitRecords ==
  ASSUME IInv, Commit, NEW id \in DOMAIN outbox, manifest' = upcoming
  PROVE  MessageRecordSound(id)'
PROOF
  <1>1. /\ pc = "stage" /\ saved' = draft /\ committed' = committed \cup {Tx}
        /\ files' = files /\ final' = final /\ outbox' = outbox /\ nextTx' = nextTx
    BY DEF Commit
  <1>2. /\ manifest.phase \notin Terminal
        /\ upcoming.phase \in Collecting \cup Terminal
        /\ upcoming \in Manifest
        /\ Tx \notin committed /\ Reconciled
    BY <1>1, Staging
  <1>3. MessageRecordSound(id)
    BY DEF IInv, DiskSound, RecordsSound
  <1>4. saved'.committed_transition_id = Tx
        /\ saved'.transition_supersedes = draft.transition_supersedes
    BY <1>1 DEF Tx
  <1>5. /\ Answered(manifest, id)' = Answered(upcoming, id)
        /\ Awaited(manifest, id)' = Awaited(upcoming, id)
    BY <1>1 DEF Answered, Awaited
  <1>6. CASE id.tx = Tx
    <2>1. /\ outbox[id].status = "staged"
          /\ outbox[id].kind = RequestKind(upcoming)
          /\ outbox[id].round = upcoming.current_round
          /\ Asked(id.recipient)
      BY <1>1, <1>6 DEF IInv, PlaceSound, StageSound
    <2>2. CASE upcoming.phase \in Collecting
      <3>1. outbox[id].kind = ExpectedKind[upcoming.phase]
        BY <2>1, <2>2 DEF RequestKind, Collecting, Terminal
      <3>2. Awaited(upcoming, id)
        BY <2>1, <2>2, <3>1 DEF Awaited, Asked
      <3>3. outbox[id].kind # "complete"
        BY <2>2, <3>1, ExpectedKindType DEF Kind
      <3> QED BY <1>1, <1>3, <1>4, <1>5, <1>6, <2>1, <3>2, <3>3
              DEF MessageRecordSound
    <2>3. CASE upcoming.phase \in Terminal
      <3>1. outbox[id].kind = upcoming.phase
        BY <2>1, <2>3 DEF RequestKind
      <3>2. outbox[id].kind \notin Kind
        BY <2>3, <3>1 DEF Terminal, Kind
      <3> QED BY <1>1, <1>3, <1>4, <1>6, <2>1, <3>1, <3>2 DEF MessageRecordSound
    <2> QED BY <1>2, <2>2, <2>3
  <1>7. CASE id.tx # Tx /\ id.tx \in committed
    <2>1. /\ outbox[id].status \notin {"aborted", "orphaned", "staged"}
          /\ outbox[id].kind # "complete"
      BY <1>2, <1>3, <1>7 DEF MessageRecordSound, Reconciled, ToActivate, Terminal
    <2>2. manifest.phase # "absent"
      BY <1>7 DEF IInv, DiskSound, Numbered
    <2>3. Advances(manifest, upcoming)
      BY <1>1, <2>2, MovedOn
         DEF IInv, DiskSound, FilesSound, PlaceSound, StageSound
    <2>4. outbox[id].kind \in Kind /\ outbox[id].status \in Live =>
            \/ Answered(upcoming, id) \/ Awaited(upcoming, id)
            \/ id \in draft.transition_supersedes
      <3>1. outbox[id].status \in Live => id \notin saved.transition_supersedes
        BY <1>2 DEF Reconciled, ToSupersede
      <3>2. outbox[id].kind \in Kind /\ outbox[id].status \in Live =>
              Answered(manifest, id) \/ Awaited(manifest, id)
        BY <1>3, <1>7, <3>1 DEF MessageRecordSound
      <3> QED BY <1>1, <3>2 DEF IInv, PlaceSound, StageSound
    <2>5. ResponseIsSafe(id) => ResponseIsSafe(id)'
      <3>1. Answered(manifest, id) => Answered(upcoming, id)
        BY <2>3, AnsweredIsAnswerIn, AnswerKept DEF Advances
      <3>2. outbox[id].round < manifest.current_round =>
              outbox[id].round < upcoming.current_round
        <4>1. /\ outbox[id].round \in Nat /\ manifest.current_round \in Nat
          BY <1>3, RoundsAssumption, SavedFields
             DEF MessageRecordSound, OutboxRecord, Round, IInv, DiskSound, Manifest
        <4> QED BY <2>3, <4>1 DEF Advances
      <3>3. outbox[id].kind # "complete" /\ manifest.phase \notin Terminal
        BY <1>2, <2>1
      <3> QED BY <1>1, <3>1, <3>2, <3>3 DEF ResponseIsSafe, Answered
    <2> QED BY <1>1, <1>3, <1>4, <1>5, <1>7, <2>1, <2>4, <2>5
            DEF MessageRecordSound, Live
  <1>8. CASE id.tx # Tx /\ id.tx \notin committed
    BY <1>1, <1>3, <1>8 DEF MessageRecordSound
  <1> QED BY <1>6, <1>7, <1>8

LEMMA CommitMakesMove ==
  ASSUME IInv, Commit
  PROVE  manifest' = upcoming
PROOF
  <1>1. saved' = draft /\ files' = files
    BY DEF Commit
  <1> QED BY <1>1 DEF manifest, upcoming, Loaded

LEMMA CommitKeeps ==
  ASSUME IInv, Commit
  PROVE  IInv'
PROOF
  <1>1. /\ pc = "stage" /\ saved' = draft /\ committed' = committed \cup {Tx}
        /\ todo = {} /\ ~MustWriteFinal
        /\ pc' = "audit" /\ draft' = NothingSaved /\ msg' = msg
        /\ files' = files /\ final' = final /\ outbox' = outbox /\ audit' = audit
        /\ nextTx' = nextTx /\ faults' = faults /\ clean' = clean
    BY DEF Commit
  <1>2. manifest' = upcoming
    BY CommitMakesMove
  <1>3. /\ upcoming.phase \in Collecting \cup Terminal
        /\ draft.m.phase = upcoming.phase
        /\ Tx \in TxId /\ Tx = nextTx - 1 /\ Tx \notin committed
        /\ msg = NoMessage /\ Reconciled /\ saved.pending_audit_events = {}
    BY <1>1, Staging
  <1>4. /\ WellFormed(draft) /\ draft.m = Unloaded(upcoming) /\ Good(upcoming)
        /\ draft.born = IF manifest.phase = "absent" THEN Tx ELSE saved.born
        /\ \A id \in draft.transition_supersedes : id \in DOMAIN outbox /\ id.tx < Tx
        /\ draft.transition_supersedes # {} => \E id \in DOMAIN outbox : id.tx = Tx
        /\ \E e \in draft.pending_audit_events : e.recipient = "none"
        /\ \A e \in draft.pending_audit_events : e.tx = Tx
        /\ upcoming.phase = "complete" =>
             TransitionEvent("dialogue_completed", Tx) \in draft.pending_audit_events
        /\ \A id \in DOMAIN outbox : id.tx = Tx => outbox[id].status = "staged"
    BY <1>1 DEF IInv, PlaceSound, StageSound
  <1>5. saved'.committed_transition_id = Tx
    BY <1>1 DEF Tx
  <1>6. FilesSound'
    BY <1>1, <1>2, <1>4 DEF IInv, DiskSound, FilesSound
  <1>7. Numbered'
    <2>1. committed \subseteq 1..(nextTx - 1) /\ nextTx \in 1..(MaxTransitions + 1)
          /\ faults \in 0..MaxFaults /\ clean \in BOOLEAN
      BY DEF IInv, DiskSound, Numbered
    <2>2. \A t \in committed : t \in Int /\ 1 <= t /\ t <= Tx
      BY <1>3, <2>1
    <2>3. committed' \subseteq 1..(nextTx - 1)
      <3>1. committed' \subseteq 1..Tx
        BY <1>1, <1>3, <2>2 DEF TxId
      <3> QED BY <1>3, <3>1
    <2>4. upcoming.phase # "absent"
      BY <1>3 DEF Collecting, Terminal
    <2>5. /\ draft.born \in committed'
          /\ \A t \in committed' : draft.born <= t /\ t <= Tx
      <3>1. CASE manifest.phase = "absent"
        <4>1. committed' = {Tx} /\ draft.born = Tx
          BY <1>1, <1>4, <3>1 DEF IInv, DiskSound, Numbered
        <4> QED BY <1>3, <4>1 DEF TxId
      <3>2. CASE manifest.phase # "absent"
        <4>1. /\ draft.born = saved.born /\ saved.born \in committed
              /\ \A t \in committed : saved.born <= t
          BY <1>4, <3>2 DEF IInv, DiskSound, Numbered
        <4> QED BY <1>1, <1>3, <2>2, <4>1 DEF TxId
      <3> QED BY <3>1, <3>2
    <2> QED BY <1>1, <1>2, <1>5, <2>1, <2>3, <2>4, <2>5 DEF Numbered
  <1>8. RecordsSound'
    BY <1>1, <1>2, CommitRecords DEF RecordsSound
  <1>9. SupersedesSound'
    BY <1>1, <1>4, <1>5 DEF SupersedesSound, SupersededFirst
  <1>10. FinalSound'
    BY <1>1, <1>2, <1>3, <1>5 DEF IInv, DiskSound, FinalSound, MustWriteFinal
  <1>11. AuditSound'
    <2>1. Known' = DOMAIN audit \cup draft.pending_audit_events
          /\ Known = DOMAIN audit
      BY <1>1, <1>3 DEF Known
    <2>2. \A e \in DOMAIN audit : audit[e] = 1 /\ e.tx \in committed
      BY <2>1 DEF IInv, DiskSound, AuditSound
    <2>3. \A tx \in committed : \E e \in DOMAIN audit : e.tx = tx /\ e.recipient = "none"
      BY <2>1 DEF IInv, DiskSound, AuditSound
    <2> QED BY <1>1, <1>2, <1>4, <1>5, <2>1, <2>2, <2>3 DEF AuditSound
  <1>12. /\ MessageSound' /\ HandlerSound' /\ SweepSound' /\ StageSound'
    BY <1>1, <1>3 DEF MessageSound, HandlerSound, Places, SweepSound, StageSound
  <1>13. CleanSound'
    <2>1. clean => \A id \in DOMAIN outbox : outbox[id].status = "staged" =>
                     id.tx = saved.committed_transition_id \/ id.tx = Tx
      BY <1>1 DEF IInv, PlaceSound, CleanSound, Serving, Places, Recovering
    <2>2. \A id \in DOMAIN outbox : outbox[id].status = "staged" =>
            id.tx # saved.committed_transition_id
      BY <1>3 DEF Reconciled, ToActivate
    <2> QED BY <1>1, <1>5, <2>1, <2>2 DEF CleanSound
  <1> QED BY <1>6, <1>7, <1>8, <1>9, <1>10, <1>11, <1>12, <1>13
          DEF IInv, DiskSound, PlaceSound

-----------------------------------------------------------------------------
(* The invariant.                                                          *)

LEMMA NoManifestGood ==
  /\ NoManifest \in Manifest /\ Good(NoManifest)
  /\ NoManifest.phase = "absent" /\ NoManifest.submissions = {}
PROOF
  <1>1. (CHOOSE p \in Participant : TRUE) \in Participant
    BY ParticipantAssumption
  <1>2. 0 \in Round
    BY RoundsAssumption DEF Round
  <1>3. NoManifest \in Manifest
    BY <1>1, <1>2 DEF NoManifest, Manifest
  <1>4. /\ NoManifest.phase = "absent" /\ NoManifest.submissions = {}
        /\ NoManifest.current_round = 0
    BY DEF NoManifest
  <1> HIDE DEF NoManifest
  <1> QED BY <1>3, <1>4, EmptyHistory DEF Good, Sound, Legal

\* Whatever the files, nothing saved is no dialogue.
LEMMA NothingLoaded ==
  ASSUME OneFileEach(files)
  PROVE  Loaded(NothingSaved.m) = NoManifest
PROOF
  <1>1. NothingSaved.m = Unloaded(NoManifest)
    BY DEF NothingSaved, SavedManifest
  <1>2. Loaded(Unloaded(NoManifest)) = LoadedFrom(Unloaded(NoManifest), files)
    BY DEF Loaded, LoadedFrom
  <1> QED BY <1>1, <1>2, NoManifestGood, LoadedBack

LEMMA InitSound ==
  ASSUME Init
  PROVE  IInv /\ manifest = NoManifest
PROOF
  <1>1. /\ saved = NothingSaved /\ files = {} /\ final = 0
        /\ outbox = <<>> /\ audit = EmptyBag
        /\ pc = "idle" /\ draft = NothingSaved /\ todo = {} /\ msg = NoMessage
        /\ nextTx = 1 /\ faults = 0 /\ clean = TRUE /\ committed = {}
    BY DEF Init
  <1>2. manifest = NoManifest
    BY <1>1, NothingLoaded DEF manifest, OneFileEach
  <1>3. /\ saved.m = Unloaded(NoManifest) /\ saved.committed_transition_id = 0
        /\ saved.transition_supersedes = {} /\ saved.pending_audit_events = {}
        /\ WellFormed(saved)
    BY <1>1 DEF NothingSaved, SavedManifest, WellFormed
  <1>4. DOMAIN outbox = {} /\ DOMAIN audit = {}
    BY <1>1 DEF EmptyBag, SetToBag
  <1>5. FilesSound
    BY <1>1, <1>2, <1>3, NoManifestGood DEF FilesSound
  <1>6. Numbered /\ FinalSound
    BY <1>1, <1>2, <1>3, NoManifestGood, BoundsAssumption DEF Numbered, FinalSound
  <1>7. RecordsSound /\ SupersedesSound
    BY <1>3, <1>4 DEF RecordsSound, SupersedesSound, SupersededFirst
  <1>8. AuditSound
    BY <1>1, <1>2, <1>3, <1>4, NoManifestGood DEF AuditSound, Known
  <1>9. PlaceSound
    BY <1>1, <1>3, <1>4
       DEF PlaceSound, MessageSound, HandlerSound, Places, SweepSound, CleanSound,
           StageSound, Reconciled, ToSupersede, ToActivate
  <1> QED BY <1>2, <1>5, <1>6, <1>7, <1>8, <1>9 DEF IInv, DiskSound

LEMMA HandlerStepKeeps ==
  ASSUME IInv, HandlerStep
  PROVE  IInv'
PROOF
  <1>1. CASE Transition
    <2>1. ASSUME NEW a \in StartArguments,
                 Start(a.initiator, a.peers, a.minimum, a.rounds, a.max, a.stop)
          PROVE  IInv'
      BY <2>1, StartKeeps
    <2>2. ASSUME NEW participant \in Participant,
                 NEW kind \in {k \in Kind : IsExpected(manifest, participant, k)},
                 NEW round \in Round, NEW payload \in Payload(kind),
                 Submit(participant, kind, round, payload)
          PROVE  IInv'
      BY <2>2, SubmitKeeps
    <2>3. ASSUME NEW participant \in Participant, NEW id \in ExtensionId,
                 NEW additional \in 1..MaxCouncilRounds,
                 Extend(participant, id, additional)
          PROVE  IInv'
      BY <2>3, ExtendKeeps
    <2>4. ASSUME NEW participant \in Participant, Cancel(participant)
          PROVE  IInv'
      BY <2>4, CancelKeeps
    <2> QED BY <1>1, <2>1, <2>2, <2>3, <2>4, RefuseKeeps DEF Transition
  <1>2. CASE \E status \in Live : MarkQueuedAndDeliver(status)
    BY <1>2, MarkQueuedKeeps
  <1> QED BY <1>1, <1>2, AppendIntentKeeps, ClearIntentsKeeps, SupersedeKeeps,
             ActivateKeeps, AppendQueuedKeeps, ActivatedKeeps, WriteFinalKeeps,
             QueueKeeps, CommitKeeps, RecoverAckRecordKeeps DEF HandlerStep

LEMMA StepKeeps ==
  ASSUME IInv, [Next]_vars
  PROVE  IInv'
PROOF
  <1>1. CASE RecoveryStep
    <2>1. ASSUME NEW id \in todo, \/ RecoverOrphan(id) \/ RecoverAbort(id)
                                  \/ RecoverActive(id) \/ RecoverSkip(id)
          PROVE  IInv'
      BY <2>1, RecoverOrphanKeeps, RecoverAbortKeeps, RecoverActiveKeeps,
         RecoverSkipKeeps
    <2> QED BY <1>1, <2>1, RestartKeeps, RecoverFinalKeeps, RecoveredKeeps
            DEF RecoveryStep
  <1>2. CASE ParticipantStep
    BY <1>2, HandlingKeeps, RecoverAckIntentKeeps DEF ParticipantStep
  <1>3. CASE UNCHANGED vars
    <2>1. /\ UNCHANGED <<disk, committed>> /\ nextTx' = nextTx
          /\ faults' = faults /\ clean' = clean
          /\ UNCHANGED <<handler, Bookkeeping>>
          /\ saved' = saved /\ files' = files /\ outbox' = outbox /\ final' = final
      BY <1>3 DEF vars, Bookkeeping, disk
    <2>2. faults \in 0..MaxFaults /\ clean \in BOOLEAN
      BY DEF IInv, DiskSound, Numbered
    <2>3. DiskSound'
      BY <2>1, <2>2, StayingOut DEF IInv
    <2>4. PlaceSound'
      BY <2>1, PlaceUnmoved DEF IInv
    <2> QED BY <2>3, <2>4 DEF IInv
  <1> QED BY <1>1, <1>2, <1>3, BeginKeeps, HandlerStepKeeps, FailKeeps, CrashKeeps
          DEF Next

\* The inductive invariant holds in every reachable state: between any two
\* writes of a handler, after any exception or crash, and during recovery.
THEOREM TransactionInvariant == Spec => []IInv
PROOF
  <1>1. Init => IInv
    BY InitSound
  <1>2. IInv /\ [Next]_vars => IInv'
    BY StepKeeps
  <1> QED BY <1>1, <1>2, PTL DEF Spec

-----------------------------------------------------------------------------
(* The properties of BrokerTransactions.                                   *)

LEMMA WellTyped ==
  ASSUME IInv
  PROVE  TypeOK
PROOF
  <1>1. manifest \in Manifest /\ files \subseteq Submission
    BY SavedFields DEF IInv, DiskSound, FilesSound
  <1>2. Loaded(draft.m) \in Manifest
    <2>1. CASE pc = "stage"
      BY <2>1 DEF IInv, PlaceSound, StageSound, Good, Sound, upcoming
    <2>2. CASE pc # "stage"
      <3>1. draft = NothingSaved /\ OneFileEach(files)
        BY <2>2 DEF IInv, PlaceSound, HandlerSound, DiskSound, FilesSound, OneFileEach
      <3> QED BY <3>1, NothingLoaded, NoManifestGood
    <2> QED BY <2>1, <2>2
  <1>3. committed \subseteq TxId
    BY BoundsAssumption DEF IInv, DiskSound, Numbered, TxId
  <1>4. \A id \in DOMAIN outbox : id \in MessageId /\ outbox[id] \in OutboxRecord
    BY DEF IInv, DiskSound, RecordsSound, MessageRecordSound
  <1>5. /\ final \in 0..MaxTransitions /\ msg \in MessageId \cup {NoMessage}
        /\ nextTx \in 1..(MaxTransitions + 1) /\ faults \in 0..MaxFaults
        /\ clean \in BOOLEAN
    BY DEF IInv, DiskSound, FinalSound, Numbered, PlaceSound, MessageSound
  <1> QED BY <1>1, <1>2, <1>3, <1>4, <1>5 DEF TypeOK

LEMMA ConvergedNow ==
  ASSUME IInv
  PROVE  Converged
PROOF
  <1> SUFFICES ASSUME pc = "idle", clean
               PROVE  /\ saved.pending_audit_events = {} /\ ToSupersede = {}
                      /\ \A id \in DOMAIN outbox :
                           /\ outbox[id].status # "staged"
                           /\ manifest.phase \in Terminal /\ outbox[id].kind \in Kind
                                /\ outbox[id].status \in Live => Answered(manifest, id)
    BY DEF Converged, Answered
  <1>1. /\ saved.pending_audit_events = {} /\ Reconciled
        /\ \A id \in DOMAIN outbox : outbox[id].status = "staged" =>
             id.tx = saved.committed_transition_id
    BY DEF IInv, PlaceSound, CleanSound, Serving, Places, Recovering
  <1>2. ASSUME NEW id \in DOMAIN outbox, manifest.phase \in Terminal,
               outbox[id].kind \in Kind, outbox[id].status \in Live
        PROVE  Answered(manifest, id)
    <2>1. id.tx \in committed /\ MessageRecordSound(id)
      BY <1>2, SeenIsCommitted DEF IInv, DiskSound, RecordsSound
    <2>2. ~Awaited(manifest, id)
      BY <1>2 DEF Awaited, Terminal, Collecting
    <2>3. id \notin saved.transition_supersedes
      BY <1>1, <1>2 DEF Reconciled, ToSupersede
    <2> QED BY <1>2, <2>1, <2>2, <2>3 DEF MessageRecordSound
  <1> QED BY <1>1, <1>2 DEF Reconciled, ToActivate

\* Once the broker has recovered, and as long as no handler fails, nothing is
\* left to announce, to replace or to answer between calls.
THEOREM AlwaysConverged == Spec => []Converged
PROOF BY TransactionInvariant, ConvergedNow, PTL

\* The outbox shows what was committed and nothing else: a message is never
\* shown before its commit nor lost after it, however handlers fail.
THEOREM OutboxAlwaysSound == Spec => []OutboxSound
PROOF
  <1>1. IInv => OutboxSound
    <2> SUFFICES ASSUME IInv PROVE OutboxSound
      OBVIOUS
    <2>1. TypeOK /\ Converged
      BY WellTyped, ConvergedNow
    <2>2. CommittedNeverLost /\ AcknowledgedIsAnswered
      BY DEF IInv, DiskSound, RecordsSound, MessageRecordSound, CommittedNeverLost,
             AcknowledgedIsAnswered
    <2>3. SupersededFirst
      BY DEF IInv, DiskSound, SupersedesSound
    <2> QED BY <2>1, <2>2, <2>3 DEF OutboxSound
  <1> QED BY <1>1, TransactionInvariant, PTL

\* The log never tells of what was not committed, tells of nothing twice, and
\* misses no transition that is not still an intent of the manifest.
THEOREM AuditAlwaysOnce == Spec => []AuditedOnce
PROOF
  <1>1. IInv => AuditedOnce
    BY DEF IInv, DiskSound, AuditSound, Known, AuditedOnce
  <1> QED BY <1>1, TransactionInvariant, PTL

\* A completion notice that was committed refers to the final.json there is.
THEOREM CompletionAlwaysValid == Spec => []CompletionReferenceValid
PROOF
  <1>1. IInv => CompletionReferenceValid
    BY DEF IInv, DiskSound, FinalSound, RecordsSound, MessageRecordSound,
           CompletionReferenceValid
  <1> QED BY <1>1, TransactionInvariant, PTL

-----------------------------------------------------------------------------
(* The refinement: the commit is the step of DialogueProtocol, and no other *)
(* write of a handler, failure or recovery changes what is seen of the      *)
(* dialogue.                                                                *)

LEMMA TransitionUnseen ==
  ASSUME IInv, Transition
  PROVE  manifest' = manifest
PROOF
  <1>1. ASSUME NEW participant \in Participant, NEW kind \in Kind,
               IsExpected(manifest, participant, kind),
               NEW round \in Round, NEW payload \in Payload(kind),
               Submit(participant, kind, round, payload)
        PROVE  manifest' = manifest
    BY <1>1, SubmitFiled
  <1>2. ASSUME saved' = saved, files' = files
        PROVE  manifest' = manifest
    BY <1>2, SameManifest
  <1> QED BY <1>1, <1>2 DEF Transition, Start, Extend, Cancel, Refuse, disk

LEMMA CommitIsMove ==
  ASSUME IInv, Commit
  PROVE  Dialogue!DialogueNext
PROOF
  <1>1. manifest' = upcoming /\ pc = "stage"
    BY CommitMakesMove DEF Commit
  <1>2. Moved(manifest, upcoming) /\ manifest \in Manifest
    BY <1>1, SavedFields DEF IInv, DiskSound, PlaceSound, StageSound
  <1>3. Moved(manifest, manifest')
    BY <1>1, <1>2
  <1> QED BY <1>2, <1>3, MoveIsStep

LEMMA StepImplements ==
  ASSUME IInv, [Next]_vars
  PROVE  [Dialogue!DialogueNext]_manifest
PROOF
  <1>1. ASSUME saved' = saved, files' = files
        PROVE  manifest' = manifest
    BY <1>1, SameManifest
  <1>2. CASE HandlerStep
    <2>1. CASE ClearIntents
      <3>1. /\ saved' = [saved EXCEPT !.pending_audit_events = @ \ Selected]
            /\ files' = files
        BY <2>1 DEF ClearIntents
      <3>2. saved'.m = saved.m
        BY <3>1 DEF IInv, DiskSound, FilesSound, WellFormed
      <3> QED BY <3>1, <3>2, SameManifest
    <2>2. CASE \E status \in Live : MarkQueuedAndDeliver(status)
      BY <1>1, <2>2 DEF MarkQueuedAndDeliver
    <2>3. CASE \/ AppendIntent \/ Supersede \/ Activate \/ AppendQueued \/ Activated
               \/ WriteFinal \/ Queue \/ RecoverAckRecord
      BY <1>1, <2>3
         DEF AppendIntent, Supersede, Activate, AppendQueued, Activated,
             WriteFinal, Queue, RecoverAckRecord, disk
    <2> QED BY <1>2, <2>1, <2>2, <2>3, TransitionUnseen, CommitIsMove DEF HandlerStep
  <1>3. CASE Begin \/ Fail \/ Crash
    BY <1>1, <1>3 DEF Begin, Fail, Crash, disk
  <1>4. CASE RecoveryStep
    BY <1>1, <1>4
       DEF RecoveryStep, Restart, RecoverFinal, RecoverOrphan, RecoverAbort,
           RecoverActive, RecoverSkip, RecoverRecord, Recovered, disk
  <1>5. CASE ParticipantStep
    <2>1. ASSUME NEW id \in DOMAIN outbox, RecoverAckIntent(id)
          PROVE  manifest' = manifest
      <3>1. /\ saved' = [saved EXCEPT !.pending_audit_events = @ \cup
                           {MessageEvent("message_acknowledgement_recovered", id)}]
            /\ files' = files
        BY <2>1 DEF RecoverAckIntent
      <3>2. saved'.m = saved.m
        BY <3>1 DEF IInv, DiskSound, FilesSound, WellFormed
      <3> QED BY <3>1, <3>2, SameManifest
    <2> QED BY <1>1, <1>5, <2>1 DEF ParticipantStep, HandOver, Rearm, Acknowledge
  <1>6. CASE UNCHANGED vars
    BY <1>1, <1>6 DEF vars, disk
  <1> QED BY <1>2, <1>3, <1>4, <1>5, <1>6 DEF Next

\* Seen from its manifest and the files it names, the dialogue behaves exactly
\* as DialogueProtocol says, whatever fails between two writes.
THEOREM TransactionsImplementDialogue == Spec => ImplementsDialogue
PROOF
  <1>1. Init => Dialogue!DialogueInit
    <2>1. Dialogue!NoManifest = NoManifest
      BY DEF Dialogue!NoManifest, NoManifest
    <2> QED BY <2>1, InitSound DEF Dialogue!DialogueInit
  <1>2. IInv /\ [Next]_vars => [Dialogue!DialogueNext]_manifest
    BY StepImplements
  <1> QED BY <1>1, <1>2, TransactionInvariant, PTL
          DEF Spec, ImplementsDialogue, Dialogue!DialogueSpec
-----------------------------------------------------------------------------
(* What DialogueProtocol promises, the handlers keep with all their writes *)
(* and crashes.  This rests on the lemmas DialogueProtocolProofs rests on, *)
(* and on the refinement.                                                  *)

LEMMA StepIsMove ==
  ASSUME manifest \in Manifest, Dialogue!DialogueNext
  PROVE  Moved(manifest, manifest')
PROOF
  <1>1. ASSUME NEW initiator \in Participant, NEW peers \in SUBSET Participant,
               NEW minimum \in Round, NEW rounds \in Round, NEW max \in Round,
               NEW stop \in BOOLEAN,
               Dialogue!StartDialogue(initiator, peers, minimum, rounds, max, stop)
        PROVE  Moved(manifest, manifest')
    BY <1>1, SameHandlers DEF Dialogue!StartDialogue, Moved
  <1>2. ASSUME NEW participant \in Participant, Dialogue!SubmitBy(participant)
        PROVE  Moved(manifest, manifest')
    <2>1. PICK kind \in Kind :
            /\ IsExpected(manifest, participant, kind)
            /\ \E round \in Round, payload \in Payload(kind) :
                 Dialogue!SubmitToDialogue(participant, kind, round, payload)
      BY <1>2, SameSets, SameReading, SameHandlers DEF Dialogue!SubmitBy
    <2>2. PICK round \in Round, payload \in Payload(kind) :
            Dialogue!SubmitToDialogue(participant, kind, round, payload)
      BY <2>1
    <2>3. manifest.phase \in Collecting
      BY <2>1 DEF IsExpected
    <2>4. /\ manifest.phase # "absent"
          /\ participant \in ParticipantNames(manifest)
          /\ SubmitOutcome(manifest, participant, kind, round, payload) = "accepted"
          /\ manifest' = SubmittedManifest(manifest, participant, kind, payload)
      BY <2>2, <2>3, SameReading, SameHandlers DEF Dialogue!SubmitToDialogue
    <2> QED BY <2>1, <2>4 DEF Moved
  <1>3. ASSUME NEW participant \in Participant, NEW id \in ExtensionId,
               NEW additional \in 1..MaxCouncilRounds,
               Dialogue!ExtendDialogue(participant, id, additional)
        PROVE  Moved(manifest, manifest')
    BY <1>3, SameHandlers DEF Dialogue!ExtendDialogue, Moved
  <1>4. ASSUME NEW participant \in Participant, Dialogue!CancelDialogue(participant)
        PROVE  Moved(manifest, manifest')
    BY <1>4, SameSets, SameHandlers DEF Dialogue!CancelDialogue, Moved
  <1> QED BY <1>1, <1>2, <1>3, <1>4, SameSets DEF Dialogue!DialogueNext

Promised(m) == Good(m) /\ OnePlaceEach(m) /\ FreshContext(m)

\* Whatever handler moves the dialogue, it keeps what is promised.
LEMMA MoveKeepsPromises ==
  ASSUME NEW m, Promised(m), NEW n, Moved(m, n)
  PROVE  Promised(n)
PROOF
  <1>1. Good(m) /\ Sound(m) /\ m \in Manifest /\ OnePlaceEach(m) /\ FreshContext(m)
    BY DEF Promised, Good, Sound
  <1>2. ASSUME NEW initiator \in Participant, NEW peers \in SUBSET Participant,
               NEW minimum \in Round, NEW rounds \in Round, NEW max \in Round,
               NEW stop \in BOOLEAN,
               ValidStart(initiator, peers, minimum, rounds, max),
               n = StartedManifest(initiator, peers, minimum, rounds, max, stop)
        PROVE  Promised(n)
    BY <1>2, StartedGood DEF Promised, StartedManifest, OnePlaceEach, FreshContext
  <1>3. ASSUME NEW participant \in ParticipantNames(m), NEW kind \in Kind,
               NEW round \in Round, NEW payload \in Payload(kind),
               IsExpected(m, participant, kind),
               SubmitOutcome(m, participant, kind, round, payload) = "accepted",
               n = SubmittedManifest(m, participant, kind, payload)
        PROVE  Promised(n)
    <2>1. participant \in Participant
      BY <1>1 DEF ParticipantNames, Manifest
    <2> QED BY <1>1, <1>3, <2>1, SubmittedMoves, SubmittedPlaces DEF Promised
  <1>4. ASSUME NEW id \in ExtensionId, NEW additional \in 1..MaxCouncilRounds,
               CanExtend(m, id, additional), n = ExtendedManifest(m, id, additional)
        PROVE  Promised(n)
    BY <1>1, <1>4, ExtendedMoves DEF Promised, OnePlaceEach, FreshContext
  <1>5. ASSUME m.phase \in Collecting, n = CancelledManifest(m)
        PROVE  Promised(n)
    BY <1>1, <1>5, CancelledMoves DEF Promised, OnePlaceEach, FreshContext
  <1> QED BY <1>2, <1>3, <1>4, <1>5 DEF Moved

\* What the sets and readings of DialogueProtocol's properties are here.
LEMMA SameHistory ==
  /\ Dialogue!AfterDebate = AfterDebate
  /\ Dialogue!Everyone = ParticipantNames(manifest)
  /\ \A m, kind, round : Dialogue!Submitters(Dialogue!Target(m, kind, round))
                           = Submitters(Target(m, kind, round))
  /\ \A kind, round, participants :
       Dialogue!Closed(kind, round, participants)
         <=> ClosedIn(manifest, kind, round, participants)
PROOF BY SameReading
         DEF Dialogue!AfterDebate, AfterDebate, Dialogue!Everyone,
             Dialogue!Submitters, Submitters, Dialogue!Closed, ClosedIn

LEMMA PromisedSoFar ==
  ASSUME Promised(manifest)
  PROVE  /\ Dialogue!BarriersHold /\ Dialogue!SynthesisEarned
         /\ Dialogue!CompletionReviewed /\ Dialogue!RoundsWithinAuthority
         /\ Dialogue!RetryIsRecognised /\ Dialogue!ReopenContextFresh
PROOF
  <1>1. Dialogue!BarriersHold
    BY SameHistory DEF Promised, Good, History, Barriers, Dialogue!BarriersHold
  <1>2. Dialogue!SynthesisEarned
    BY SameHistory, SameReading
       DEF Promised, Good, History, StagesClosed, Earned, Dialogue!SynthesisEarned
  <1>3. Dialogue!CompletionReviewed
    BY SameHistory, SameReading, SameCardinality
       DEF Promised, Good, History, StagesClosed, Revised, AfterDebate,
           AfterSynthesis, Triad, Dialogue!CompletionReviewed
  <1>4. Dialogue!RoundsWithinAuthority
    BY DEF Promised, Good, Sound, Legal, Dialogue!RoundsWithinAuthority
  <1>5. Dialogue!RetryIsRecognised
    <2> SUFFICES ASSUME NEW s \in manifest.submissions,
                        NEW payload \in Payload(s.kind)
                 PROVE  Dialogue!SubmitOutcome(manifest, s.participant, s.kind,
                                               s.round, payload)
                          = IF payload = s.payload THEN "duplicate" ELSE "conflict"
      BY SameReading DEF Dialogue!RetryIsRecognised
    <2>1. manifest \in Manifest /\ OnePlaceEach(manifest)
      BY DEF Promised, Good, Sound
    <2>2. Existing(manifest, s.participant, s.kind, s.round) = {s}
      BY <2>1 DEF OnePlaceEach, Existing
    <2> QED BY <2>1, <2>2, SameHandlers DEF SubmitOutcome, Repeated
  <1>6. Dialogue!ReopenContextFresh
    BY SameReading DEF Promised, FreshContext, Dialogue!ReopenContextFresh
  <1> QED BY <1>1, <1>2, <1>3, <1>4, <1>5, <1>6

LEMMA PromisedOfSteps ==
  ASSUME Promised(manifest), Dialogue!DialogueNext
  PROVE  /\ manifest.phase # "absent" =>
              /\ manifest.submissions \subseteq manifest'.submissions
              /\ manifest.phase \in Dialogue!Terminal => manifest' = manifest
              /\ manifest'.current_round # manifest.current_round =>
                   /\ manifest'.current_round = manifest.current_round + 1
                   /\ Dialogue!Submitters(Dialogue!Target(
                        manifest', IF manifest.current_round = 0
                                   THEN "proposal" ELSE "exchange",
                        manifest.current_round)) = Dialogue!Everyone
PROOF
  <1>1. Good(manifest) /\ Moved(manifest, manifest')
    BY StepIsMove DEF Promised, Good, Sound
  <1>2. /\ manifest.phase \notin Terminal
        /\ manifest.phase # "absent" => Advances(manifest, manifest')
    BY <1>1, MovedOn
  <1> QED BY <1>2, SameSets, SameHistory DEF Advances, ClosedIn, RoundStage

\* The broker, whose handlers are many writes and may fail or crash between any
\* two, keeps every promise of the protocol whose handlers are one step.
THEOREM PromisesKept ==
  Spec => /\ [](/\ Dialogue!BarriersHold /\ Dialogue!SynthesisEarned
                /\ Dialogue!CompletionReviewed /\ Dialogue!RoundsWithinAuthority
                /\ Dialogue!RetryIsRecognised /\ Dialogue!ReopenContextFresh)
          /\ Dialogue!NoStepBackwards
PROOF
  <1>1. Dialogue!DialogueInit => Promised(manifest)
    <2>1. Dialogue!NoManifest = NoManifest
      BY DEF Dialogue!NoManifest, NoManifest
    <2>2. Promised(NoManifest)
      BY NoManifestGood DEF Promised, OnePlaceEach, FreshContext
    <2> QED BY <2>1, <2>2 DEF Dialogue!DialogueInit
  <1>2. Promised(manifest) /\ [Dialogue!DialogueNext]_manifest => Promised(manifest)'
    <2>1. ASSUME Promised(manifest), Dialogue!DialogueNext
          PROVE  Promised(manifest')
      BY <2>1, StepIsMove, MoveKeepsPromises DEF Promised, Good, Sound
    <2> QED BY <2>1
  <1> DEFINE Forward ==
        manifest.phase # "absent" =>
          /\ manifest.submissions \subseteq manifest'.submissions
          /\ manifest.phase \in Dialogue!Terminal => manifest' = manifest
          /\ manifest'.current_round # manifest.current_round =>
               /\ manifest'.current_round = manifest.current_round + 1
               /\ Dialogue!Submitters(Dialogue!Target(
                    manifest', IF manifest.current_round = 0
                               THEN "proposal" ELSE "exchange",
                    manifest.current_round)) = Dialogue!Everyone
  <1>3. Promised(manifest) /\ [Dialogue!DialogueNext]_manifest => [Forward]_manifest
    BY PromisedOfSteps
  <1>4. Promised(manifest) =>
          /\ Dialogue!BarriersHold /\ Dialogue!SynthesisEarned
          /\ Dialogue!CompletionReviewed /\ Dialogue!RoundsWithinAuthority
          /\ Dialogue!RetryIsRecognised /\ Dialogue!ReopenContextFresh
    BY PromisedSoFar
  <1> QED BY <1>1, <1>2, <1>3, <1>4, TransactionsImplementDialogue, PTL
          DEF ImplementsDialogue, Dialogue!DialogueSpec, Dialogue!NoStepBackwards
=============================================================================
