----------------------- MODULE DialogueProtocolProofs -----------------------
(***************************************************************************)
(* Proofs about a dialogue, for every set of participants, every payload   *)
(* and every bound on the number of rounds: its phase machine, that is     *)
(* DialogueProtocol, and then its claims, that is ClaimLedger.             *)
(*                                                                         *)
(* Most of it are lemmas on the operators of DialogueManifest: what a      *)
(* handler preserves of a manifest.  They are about manifests and not      *)
(* about states, so that BrokerTransactions, where a handler is many       *)
(* steps, rests on them as well.                                           *)
(*                                                                         *)
(* Neither BarriersHold nor SynthesisEarned nor CompletionReviewed is      *)
(* inductive: a step knows that the earlier stages are closed only from    *)
(* the phase it starts in, so the inductive invariant says of every phase  *)
(* which stages are closed, whom the phase waits for and why the debate    *)
(* was left.                                                               *)
(*                                                                         *)
(* LedgerSound is inductive but for the notes that the retirements rest    *)
(* on; the invariant ties them to what was said in the rounds that have    *)
(* closed.  The loop over the ledger is taken apart along the order of     *)
(* the claims: its last retirement leaves the debate that is asked for.    *)
(***************************************************************************)
EXTENDS DialogueProtocol, ClaimLedger, FiniteSetTheorems, WellFoundedInduction, TLAPS

\* The part of the inductive invariant that bounds the rounds.
Legal(m) ==
  m.phase # "absent" =>
    /\ 1 <= m.minimum_rounds
    /\ m.minimum_rounds <= m.authorized_rounds
    /\ m.authorized_rounds <= m.max_rounds
    /\ m.current_round <= m.authorized_rounds
    /\ m.initiator \notin m.peers

\* A manifest every handler can be applied to.
Sound(m) == m \in Manifest /\ Legal(m)

\* The phases and kinds are strings; what each collecting phase waits for is
\* one of the kinds.
LEMMA ExpectedKindType ==
  \A collecting \in Collecting : ExpectedKind[collecting] \in Kind
PROOF BY DEF Collecting, ExpectedKind, Kind

LEMMA PayloadType ==
  ASSUME NEW kind \in Kind, NEW payload \in Payload(kind)
  PROVE  payload \in AnyPayload
PROOF BY DEF Payload, AnyPayload, Kind, InitiatorKind

\* Moving to another phase keeps a manifest sound.
LEMMA PhaseChange ==
  ASSUME NEW m, Sound(m), m.phase # "absent",
         NEW next \in Collecting \cup Terminal,
         NEW required \in SUBSET Participant
  PROVE  /\ Sound([m EXCEPT !.phase = next, !.required_submitters = required])
         /\ Sound([m EXCEPT !.phase = next])
PROOF
  <1>1. next # "absent"
    BY DEF Collecting, Terminal
  <1>2. m \in Manifest /\ Legal(m)
    BY DEF Sound
  <1> QED BY <1>1, <1>2 DEF Sound, Legal, Manifest

LEMMA OpenRoundSound ==
  ASSUME NEW m, Sound(m), m.phase # "absent",
         NEW round \in Round, round <= m.authorized_rounds
  PROVE  Sound(OpenExchangeRound(m, round))
PROOF
  <1>1. m \in Manifest /\ Legal(m)
    BY DEF Sound
  <1>2. ParticipantNames(m) \subseteq Participant
    BY <1>1 DEF ParticipantNames, Manifest
  <1>3. OpenExchangeRound(m, round) \in Manifest
    BY <1>1, <1>2 DEF OpenExchangeRound, Manifest, Collecting
  <1>4. Legal(OpenExchangeRound(m, round))
    BY <1>1 DEF Legal, OpenExchangeRound, Manifest
  <1> QED BY <1>3, <1>4 DEF Sound

\* A sound manifest that has one more submission is sound.
LEMMA RecordSound ==
  ASSUME NEW m, Sound(m), m.phase # "absent", NEW s \in Submission
  PROVE  Sound([m EXCEPT !.submissions = @ \cup {s}])
PROOF
  <1>1. m \in Manifest /\ Legal(m)
    BY DEF Sound
  <1>2. m.submissions \cup {s} \in SUBSET Submission
    BY <1>1 DEF Manifest
  <1>3. [m EXCEPT !.submissions = @ \cup {s}] \in Manifest
    BY <1>1, <1>2 DEF Manifest
  <1>4. Legal([m EXCEPT !.submissions = @ \cup {s}])
    BY <1>1 DEF Legal, Manifest
  <1> QED BY <1>3, <1>4 DEF Sound

\* A round below the authorized number of rounds can be followed.
LEMMA NextRound ==
  ASSUME NEW m, Sound(m), m.phase # "absent",
         m.current_round < m.authorized_rounds
  PROVE  /\ m.current_round + 1 \in Round
         /\ m.current_round + 1 <= m.authorized_rounds
PROOF BY RoundsAssumption DEF Sound, Manifest, Round

\* Whatever phase a complete barrier leads to, the manifest stays sound.
LEMMA AfterBarrierSound ==
  ASSUME NEW m, Sound(m), m.phase \in Collecting
  PROVE  Sound(AfterBarrier(m))
PROOF
  <1>1. m \in Manifest /\ Legal(m)
    BY DEF Sound
  <1>2. m.phase # "absent"
    BY DEF Collecting
  <1>3. /\ ParticipantNames(m) \in SUBSET Participant
        /\ {m.initiator} \in SUBSET Participant
        /\ m.peers \in SUBSET Participant
        /\ {} \in SUBSET Participant
    BY <1>1 DEF ParticipantNames, Manifest
  <1>4. Sound(OpenConvergenceChallenge(m))
    BY <1>2, <1>3, PhaseChange DEF OpenConvergenceChallenge, Collecting
  <1>5. Sound(CompleteDialogue(m))
    BY <1>2, <1>3, PhaseChange DEF CompleteDialogue, Terminal
  <1>6. CASE m.phase = "collecting_proposals"
    <2>1. 1 \in Round /\ 1 <= m.authorized_rounds
      BY <1>1, <1>2, RoundsAssumption DEF Legal, Manifest, Round
    <2> QED BY <1>2, <1>6, <2>1, OpenRoundSound DEF AfterBarrier
  <1>7. CASE m.phase = "collecting_exchange"
    <2>1. AfterBarrier(m) = AfterExchange(m)
      BY <1>7 DEF AfterBarrier
    <2>2. m.current_round < m.authorized_rounds =>
            Sound(OpenExchangeRound(m, m.current_round + 1))
      BY <1>2, NextRound, OpenRoundSound
    <2> QED BY <1>4, <2>1, <2>2 DEF AfterExchange
  <1>8. CASE m.phase = "collecting_convergence_challenge"
    <2> DEFINE noted(r) == [m EXCEPT !.last_material_challenge_context = r]
    <2>1. ASSUME NEW r \in Round
          PROVE  /\ Sound(noted(r)) /\ noted(r).phase # "absent"
                 /\ noted(r).authorized_rounds = m.authorized_rounds
                 /\ noted(r).initiator = m.initiator
      <3>1. noted(r) \in Manifest
        BY <1>1 DEF Manifest
      <3> QED BY <1>1, <1>2, <3>1 DEF Sound, Legal, Manifest
    <2>2. ASSUME NEW r \in Round
          PROVE  Sound(OpenSynthesis(noted(r)))
      <3> HIDE DEF noted
      <3>1. {noted(r).initiator} \in SUBSET Participant
        BY <1>3, <2>1
      <3> QED BY <2>1, <3>1, PhaseChange DEF OpenSynthesis, Collecting
    <2>3. ASSUME NEW r \in Round, m.current_round < m.authorized_rounds
          PROVE  Sound(OpenExchangeRound(noted(r), m.current_round + 1))
      <3> HIDE DEF noted
      <3> QED BY <1>2, <2>1, <2>3, NextRound, OpenRoundSound
    <2>4. m.current_round \in Round /\ 0 \in Round
      BY <1>1, RoundsAssumption DEF Manifest, Round
    <2>5. \E r \in Round : AfterChallenge(m) =
            IF MaterialIssue(m) /\ m.current_round < m.authorized_rounds
            THEN OpenExchangeRound(noted(r), m.current_round + 1)
            ELSE OpenSynthesis(noted(r))
      BY <2>4 DEF AfterChallenge
    <2> HIDE DEF noted
    <2>6. Sound(AfterChallenge(m))
      BY <2>2, <2>3, <2>5
    <2> QED BY <1>8, <2>6 DEF AfterBarrier
  <1>9. CASE m.phase = "collecting_synthesis"
    BY <1>2, <1>3, <1>9, PhaseChange
       DEF AfterBarrier, OpenRepresentationChecks, Collecting
  <1>10. CASE m.phase = "collecting_representation_check"
    <2>1. Sound(OpenSynthesisRevision(m))
      BY <1>2, <1>3, PhaseChange DEF OpenSynthesisRevision, Collecting
    <2> QED BY <1>5, <1>10, <2>1 DEF AfterBarrier, AfterRepresentationChecks
  <1>11. CASE m.phase = "collecting_synthesis_revision"
    BY <1>2, <1>3, <1>11, PhaseChange DEF AfterBarrier, OpenRevisionChecks, Collecting
  <1>12. CASE m.phase = "collecting_revision_check"
    BY <1>5, <1>12 DEF AfterBarrier
  <1> QED BY <1>6, <1>7, <1>8, <1>9, <1>10, <1>11, <1>12 DEF Collecting

\* An accepted submission keeps the manifest sound.
LEMMA SubmittedSound ==
  ASSUME NEW m, Sound(m), NEW participant \in Participant, NEW kind \in Kind,
         NEW payload \in Payload(kind), IsExpected(m, participant, kind)
  PROVE  Sound(SubmittedManifest(m, participant, kind, payload))
PROOF
  <1> DEFINE round == ArtifactRound(m)
             s == [kind |-> kind, round |-> round,
                   participant |-> participant, payload |-> payload]
             recorded == [m EXCEPT !.submissions = @ \cup {s}]
  <1>1. m.phase \in Collecting /\ m.phase # "absent"
    BY DEF IsExpected, Collecting
  <1>2. round \in Round
    BY RoundsAssumption DEF ArtifactRound, Sound, Manifest, Round
  <1>3. s \in Submission
    BY <1>2, PayloadType DEF Submission
  <1> HIDE DEF s
  <1>4. Sound(recorded)
    BY <1>1, <1>3, RecordSound
  <1>5. recorded.phase = m.phase
    BY DEF Sound, Manifest
  <1>6. SubmittedManifest(m, participant, kind, payload) \in
          {recorded, AfterBarrier(recorded)}
    BY DEF SubmittedManifest, s
  <1> HIDE DEF recorded
  <1> QED BY <1>1, <1>4, <1>5, <1>6, AfterBarrierSound

\* An extension the code accepts keeps the manifest sound.
LEMMA ExtendedSound ==
  ASSUME NEW m, Sound(m), NEW id \in ExtensionId,
         NEW additional \in 1..MaxCouncilRounds, CanExtend(m, id, additional)
  PROVE  Sound(ExtendedManifest(m, id, additional))
PROOF
  <1> DEFINE entry == [id |-> id, additional_rounds |-> additional]
             authorized == [m EXCEPT !.authorized_rounds = @ + additional,
                              !.extension_operations = @ \cup {entry}]
  <1>1. m \in Manifest /\ Legal(m) /\ m.phase # "absent"
    BY DEF Sound, CanExtend
  <1>2. entry \in Extension
    BY RoundsAssumption DEF Extension, Round
  <1>3. m.authorized_rounds + additional \in Round
    BY <1>1, RoundsAssumption DEF CanExtend, Manifest, Round
  <1>4. m.extension_operations \cup {entry} \in SUBSET Extension
    BY <1>1, <1>2 DEF Manifest
  <1> HIDE DEF entry
  <1>5. authorized \in Manifest
    BY <1>1, <1>3, <1>4 DEF Manifest
  <1>6. Legal(authorized)
    BY <1>1, RoundsAssumption DEF Legal, Manifest, CanExtend, Round
  <1>7. /\ authorized.phase # "absent"
        /\ m.current_round + 1 \in Round
        /\ m.current_round + 1 <= authorized.authorized_rounds
    BY <1>1, <1>3, RoundsAssumption DEF Legal, Manifest, Round
  <1>8. ExtendedManifest(m, id, additional) \in
          {authorized, OpenExchangeRound(authorized, m.current_round + 1)}
    BY DEF ExtendedManifest, entry
  <1> HIDE DEF authorized
  <1>9. Sound(authorized)
    BY <1>5, <1>6 DEF Sound
  <1> QED BY <1>7, <1>8, <1>9, OpenRoundSound

\* A start whose arguments pass the checks yields a sound manifest.
LEMMA StartedSound ==
  ASSUME NEW initiator \in Participant, NEW peers \in SUBSET Participant,
         NEW minimum \in Round, NEW rounds \in Round, NEW max \in Round,
         NEW stop \in BOOLEAN, ValidStart(initiator, peers, minimum, rounds, max)
  PROVE  Sound(StartedManifest(initiator, peers, minimum, rounds, max, stop))
PROOF
  <1>1. 0 \in Round
    BY RoundsAssumption DEF Round
  <1> QED BY <1>1 DEF StartedManifest, ValidStart, Sound, Legal, Manifest,
                      Collecting, Round

-----------------------------------------------------------------------------
(* Which stages are closed in each phase, and why the debate was left.     *)

ClosedIn(m, kind, round, participants) ==
  Submitters(Target(m, kind, round)) = participants

\* Whom each phase waits for.
Waits(m) ==
  /\ m.phase \in {"collecting_proposals", "collecting_exchange",
                  "collecting_convergence_challenge"} =>
       m.required_submitters = ParticipantNames(m)
  /\ m.phase \in {"collecting_synthesis", "collecting_synthesis_revision"} =>
       m.required_submitters = {m.initiator}
  /\ m.phase \in {"collecting_representation_check", "collecting_revision_check"} =>
       m.required_submitters = m.peers

\* A round is open only once proposals and all earlier rounds are closed.
RoundsClosed(m) ==
  /\ m.phase = "collecting_proposals" => m.current_round = 0
  /\ m.phase \notin {"absent", "collecting_proposals", "cancelled"} =>
       1 <= m.current_round
  /\ 1 <= m.current_round => ClosedIn(m, "proposal", 0, ParticipantNames(m))
  /\ \A r \in 1..(m.current_round - 1) :
       ClosedIn(m, "exchange", r, ParticipantNames(m))

AfterSynthesis == {"collecting_representation_check",
                   "collecting_synthesis_revision",
                   "collecting_revision_check", "complete"}

\* The stages that are closed by the time a phase is reached.
StagesClosed(m) ==
  /\ m.phase \in {"collecting_convergence_challenge"} \cup AfterDebate =>
       ClosedIn(m, "exchange", m.current_round, ParticipantNames(m))
  /\ m.phase \in AfterDebate =>
       ClosedIn(m, "convergence_challenge", m.current_round, ParticipantNames(m))
  /\ m.phase \in AfterSynthesis =>
       ClosedIn(m, "synthesis", m.current_round, {m.initiator})
  /\ m.phase \in AfterSynthesis \ {"collecting_representation_check"} =>
       ClosedIn(m, "representation_check", m.current_round, m.peers)

Triad(m) == Cardinality(ParticipantNames(m)) = 3

\* A revision is under way only in a triad that asked for one.
Revised(m) ==
  /\ m.phase \in {"collecting_synthesis_revision", "collecting_revision_check"} =>
       Triad(m) /\ MaterialCorrection(m)
  /\ m.phase = "collecting_revision_check" =>
       ClosedIn(m, "synthesis_revision", m.current_round, {m.initiator})
  /\ m.phase \in Collecting \ {"collecting_synthesis_revision",
                               "collecting_revision_check"} =>
       /\ ClosedIn(m, "synthesis_revision", m.current_round, {})
       /\ ClosedIn(m, "revision_check", m.current_round, {})
  /\ m.phase = "complete" =>
       LET revised == Triad(m) /\ MaterialCorrection(m)
       IN  /\ ClosedIn(m, "synthesis_revision", m.current_round,
                       IF revised THEN {m.initiator} ELSE {})
           /\ ClosedIn(m, "revision_check", m.current_round,
                       IF revised THEN m.peers ELSE {})

\* Why the exchange was left.
Earned(m) ==
  /\ m.phase \in {"collecting_convergence_challenge"} \cup AfterDebate =>
       /\ m.current_round >= m.minimum_rounds
       /\ m.current_round < m.authorized_rounds =>
            m.stop_on_convergence /\ ConvergenceEarned(m)
  /\ m.phase \in AfterDebate /\ m.current_round < m.authorized_rounds =>
       ~MaterialIssue(m)

\* BarriersHold for a manifest.
Barriers(m) ==
  \A s \in m.submissions :
    /\ s.kind = "exchange" =>
         /\ ClosedIn(m, "proposal", 0, ParticipantNames(m))
         /\ \A r \in 1..(s.round - 1) :
              ClosedIn(m, "exchange", r, ParticipantNames(m))
    /\ s.kind = "convergence_challenge" =>
         ClosedIn(m, "exchange", s.round, ParticipantNames(m))
    /\ s.kind = "synthesis" =>
         ClosedIn(m, "convergence_challenge", s.round, ParticipantNames(m))
    /\ s.kind = "representation_check" =>
         ClosedIn(m, "synthesis", s.round, {m.initiator})
    /\ s.kind = "synthesis_revision" =>
         ClosedIn(m, "representation_check", s.round, m.peers)
    /\ s.kind = "revision_check" =>
         ClosedIn(m, "synthesis_revision", s.round, {m.initiator})

History(m) == /\ Waits(m) /\ RoundsClosed(m) /\ StagesClosed(m)
              /\ Revised(m) /\ Earned(m) /\ Barriers(m)

-----------------------------------------------------------------------------
(* Recording one submission.                                               *)

\* n is m with the submission s recorded, or at least holds the same dialogue.
Records(m, n, s) ==
  /\ n.submissions = m.submissions \cup {s}
  /\ n.initiator = m.initiator /\ n.peers = m.peers
  /\ n.current_round = m.current_round

LEMMA TargetRecorded ==
  ASSUME NEW m, NEW n, NEW s, n.submissions = m.submissions \cup {s},
         NEW kind, NEW round
  PROVE  Target(n, kind, round) =
           IF s.kind = kind /\ (kind \in RoundKeyed => s.round = round)
           THEN Target(m, kind, round) \cup {s} ELSE Target(m, kind, round)
PROOF BY DEF Target

\* A closed stage stays closed when one of its own participants, or anybody
\* at another stage, submits.
LEMMA ClosedKept ==
  ASSUME NEW m, NEW n, NEW s, n.submissions = m.submissions \cup {s},
         NEW kind, NEW round, NEW participants,
         ClosedIn(m, kind, round, participants),
         s.kind = kind => s.participant \in participants
  PROVE  ClosedIn(n, kind, round, participants)
PROOF
  <1>1. CASE s.kind = kind /\ (kind \in RoundKeyed => s.round = round)
    <2>1. Target(n, kind, round) = Target(m, kind, round) \cup {s}
      BY <1>1, TargetRecorded
    <2>2. Submitters(Target(n, kind, round)) =
            Submitters(Target(m, kind, round)) \cup {s.participant}
      BY <2>1 DEF Submitters
    <2> QED BY <1>1, <2>2 DEF ClosedIn
  <1>2. CASE ~(s.kind = kind /\ (kind \in RoundKeyed => s.round = round))
    <2>1. Target(n, kind, round) = Target(m, kind, round)
      BY <1>2, TargetRecorded
    <2> QED BY <2>1 DEF ClosedIn
  <1> QED BY <1>1, <1>2

\* What a submission at another stage cannot change.
LEMMA OtherKindKept ==
  ASSUME NEW m, NEW n, NEW s, Records(m, n, s),
         n.minimum_rounds = m.minimum_rounds
  PROVE  /\ s.kind # "exchange" => ConvergenceEarned(n) = ConvergenceEarned(m)
         /\ s.kind # "convergence_challenge" => MaterialIssue(n) = MaterialIssue(m)
         /\ s.kind # "representation_check" =>
              MaterialCorrection(n) = MaterialCorrection(m)
PROOF
  <1>1. ASSUME NEW kind, s.kind # kind
        PROVE  Target(n, kind, n.current_round) = Target(m, kind, m.current_round)
    BY <1>1, TargetRecorded DEF Records
  <1> QED BY <1>1 DEF Records, ConvergenceEarned, MaterialIssue, MaterialCorrection

\* An accepted submission comes from someone its phase waits for, and finds
\* the stage before it closed.
LEMMA RecordHistory ==
  ASSUME NEW m, NEW n, NEW s, NEW participant, NEW kind,
         History(m), IsExpected(m, participant, kind),
         participant \in ParticipantNames(m),
         s.kind = kind, s.participant = participant, s.round = ArtifactRound(m),
         Records(m, n, s),
         n.phase = m.phase,
         n.required_submitters = m.required_submitters,
         n.minimum_rounds = m.minimum_rounds,
         n.authorized_rounds = m.authorized_rounds,
         n.stop_on_convergence = m.stop_on_convergence
  PROVE  History(n)
PROOF
  <1>1. /\ m.phase \in Collecting
        /\ kind = ExpectedKind[m.phase]
        /\ kind \in InitiatorKind => participant = m.initiator
        /\ kind \in PeerKind => participant \in m.peers
    BY DEF IsExpected
  <1>2. /\ Records(m, n, s)
        /\ n.submissions = m.submissions \cup {s}
        /\ n.phase = m.phase
        /\ n.required_submitters = m.required_submitters
        /\ n.minimum_rounds = m.minimum_rounds
        /\ n.authorized_rounds = m.authorized_rounds
        /\ n.stop_on_convergence = m.stop_on_convergence
        /\ ParticipantNames(n) = ParticipantNames(m)
    BY DEF Records, ParticipantNames
  <1>3. s.kind = kind /\ s.participant = participant /\ s.round = ArtifactRound(m)
    OBVIOUS
  <1>4. /\ s.kind = "synthesis" => s.participant = m.initiator
        /\ s.kind = "synthesis_revision" => s.participant = m.initiator
        /\ s.kind = "representation_check" => s.participant \in m.peers
        /\ s.kind = "revision_check" => s.participant \in m.peers
        /\ s.participant \in ParticipantNames(m)
    BY <1>1, <1>3 DEF InitiatorKind, PeerKind
  <1>5. s.kind = ExpectedKind[m.phase] /\ m.phase \in Collecting
    BY <1>1, <1>3
  <1>6. ASSUME NEW k, NEW r, NEW X, ClosedIn(m, k, r, X),
               s.kind = k => s.participant \in X
        PROVE  ClosedIn(n, k, r, X)
    BY <1>2, <1>6, ClosedKept
  <1>7. Waits(n)
    BY <1>2 DEF History, Waits, Records
  <1>8. RoundsClosed(n)
    BY <1>2, <1>4, <1>6 DEF History, RoundsClosed, Records
  <1>9. StagesClosed(n)
    BY <1>2, <1>4, <1>6 DEF History, StagesClosed, Records
  <1>10. Revised(n)
    <2>1. m.phase \in {"collecting_synthesis_revision", "collecting_revision_check"}
            => Triad(n) /\ MaterialCorrection(n)
      <3>1. m.phase \in {"collecting_synthesis_revision", "collecting_revision_check"}
              => s.kind # "representation_check"
        BY <1>5 DEF Collecting, ExpectedKind
      <3> QED BY <1>2, <3>1, OtherKindKept DEF History, Revised, Triad
    <2>2. m.phase = "collecting_revision_check" =>
            ClosedIn(n, "synthesis_revision", n.current_round, {n.initiator})
      BY <1>2, <1>4, <1>6 DEF History, Revised, Records
    <2>3. m.phase \in Collecting \ {"collecting_synthesis_revision",
                                    "collecting_revision_check"} =>
            s.kind \notin {"synthesis_revision", "revision_check"}
      BY <1>5 DEF Collecting, ExpectedKind
    <2>4. m.phase \in Collecting \ {"collecting_synthesis_revision",
                                    "collecting_revision_check"} =>
            /\ ClosedIn(n, "synthesis_revision", n.current_round, {})
            /\ ClosedIn(n, "revision_check", n.current_round, {})
      BY <1>2, <1>6, <2>3 DEF History, Revised, Records
    <2>5. m.phase # "complete"
      BY <1>1 DEF Collecting
    <2> QED BY <1>2, <2>1, <2>2, <2>4, <2>5 DEF Revised
  <1>11. Earned(n)
    <2>1. m.phase \in {"collecting_convergence_challenge"} \cup AfterDebate
            => s.kind # "exchange"
      BY <1>5 DEF Collecting, ExpectedKind, AfterDebate
    <2>2. m.phase \in AfterDebate => s.kind # "convergence_challenge"
      BY <1>5 DEF Collecting, ExpectedKind, AfterDebate
    <2> QED BY <1>2, <2>1, <2>2, OtherKindKept DEF History, Earned, Records
  <1>12. Barriers(n)
    <2>1. ASSUME NEW old \in m.submissions
          PROVE  /\ old.kind = "exchange" =>
                     /\ ClosedIn(n, "proposal", 0, ParticipantNames(n))
                     /\ \A r \in 1..(old.round - 1) :
                          ClosedIn(n, "exchange", r, ParticipantNames(n))
                 /\ old.kind = "convergence_challenge" =>
                     ClosedIn(n, "exchange", old.round, ParticipantNames(n))
                 /\ old.kind = "synthesis" =>
                     ClosedIn(n, "convergence_challenge", old.round, ParticipantNames(n))
                 /\ old.kind = "representation_check" =>
                     ClosedIn(n, "synthesis", old.round, {n.initiator})
                 /\ old.kind = "synthesis_revision" =>
                     ClosedIn(n, "representation_check", old.round, n.peers)
                 /\ old.kind = "revision_check" =>
                     ClosedIn(n, "synthesis_revision", old.round, {n.initiator})
      BY <1>2, <1>4, <1>6, <2>1 DEF History, Barriers, Records
    <2>2. s.kind # "proposal" => s.round = n.current_round
      BY <1>2, <1>3, <1>5 DEF ArtifactRound, ExpectedKind, Records
    <2>3. /\ s.kind = "exchange" => m.phase = "collecting_exchange"
          /\ s.kind = "convergence_challenge" =>
               m.phase = "collecting_convergence_challenge"
          /\ s.kind = "synthesis" => m.phase = "collecting_synthesis"
          /\ s.kind = "representation_check" =>
               m.phase = "collecting_representation_check"
          /\ s.kind = "synthesis_revision" =>
               m.phase = "collecting_synthesis_revision"
          /\ s.kind = "revision_check" => m.phase = "collecting_revision_check"
      BY <1>5 DEF Collecting, ExpectedKind
    <2>4. /\ s.kind = "exchange" =>
               /\ ClosedIn(n, "proposal", 0, ParticipantNames(n))
               /\ \A r \in 1..(s.round - 1) :
                    ClosedIn(n, "exchange", r, ParticipantNames(n))
          /\ s.kind = "convergence_challenge" =>
               ClosedIn(n, "exchange", s.round, ParticipantNames(n))
          /\ s.kind = "synthesis" =>
               ClosedIn(n, "convergence_challenge", s.round, ParticipantNames(n))
          /\ s.kind = "representation_check" =>
               ClosedIn(n, "synthesis", s.round, {n.initiator})
          /\ s.kind = "synthesis_revision" =>
               ClosedIn(n, "representation_check", s.round, n.peers)
          /\ s.kind = "revision_check" =>
               ClosedIn(n, "synthesis_revision", s.round, {n.initiator})
      BY <1>2, <1>8, <1>9, <1>10, <2>2, <2>3
         DEF RoundsClosed, StagesClosed, Revised, AfterDebate, AfterSynthesis
    <2> QED BY <1>2, <2>1, <2>4 DEF Barriers, Records
  <1> QED BY <1>7, <1>8, <1>9, <1>10, <1>11, <1>12 DEF History

-----------------------------------------------------------------------------
(* Moving to the next phase.                                               *)

\* n is m in another phase, maybe of a later round: nothing else the
\* invariant reads has changed.
Moves(m, n) ==
  /\ n.submissions = m.submissions
  /\ n.initiator = m.initiator /\ n.peers = m.peers
  /\ n.minimum_rounds = m.minimum_rounds
  /\ n.stop_on_convergence = m.stop_on_convergence

LEMMA MovesKeepTargets ==
  ASSUME NEW m, NEW n, Moves(m, n)
  PROVE  /\ ParticipantNames(n) = ParticipantNames(m)
         /\ Triad(n) = Triad(m)
         /\ \A kind, round : Target(n, kind, round) = Target(m, kind, round)
         /\ \A kind, round, participants :
              ClosedIn(n, kind, round, participants)
                = ClosedIn(m, kind, round, participants)
         /\ Barriers(m) => Barriers(n)
PROOF
  <1>1. ParticipantNames(n) = ParticipantNames(m) /\ Triad(n) = Triad(m)
    BY DEF Moves, ParticipantNames, Triad
  <1>2. \A kind, round : Target(n, kind, round) = Target(m, kind, round)
    BY DEF Moves, Target
  <1>3. \A kind, round, participants :
          ClosedIn(n, kind, round, participants)
            = ClosedIn(m, kind, round, participants)
    BY <1>2 DEF ClosedIn
  <1>4. Barriers(m) => Barriers(n)
    BY <1>1, <1>3 DEF Barriers, Moves
  <1> QED BY <1>1, <1>2, <1>3, <1>4

\* In the same round, what was found in the submissions is still found.
LEMMA SameRoundKept ==
  ASSUME NEW m, NEW n, Moves(m, n), n.current_round = m.current_round
  PROVE  /\ ConvergenceEarned(n) = ConvergenceEarned(m)
         /\ MaterialIssue(n) = MaterialIssue(m)
         /\ MaterialCorrection(n) = MaterialCorrection(m)
PROOF BY MovesKeepTargets
         DEF ConvergenceEarned, MaterialIssue, MaterialCorrection, Moves

\* What each Open operator sets and keeps.
LEMMA OpenFields ==
  ASSUME NEW m, m \in Manifest, NEW round
  PROVE  /\ LET n == OpenExchangeRound(m, round)
            IN  /\ Moves(m, n) /\ n.phase = "collecting_exchange"
                /\ n.current_round = round
                /\ n.authorized_rounds = m.authorized_rounds
                /\ n.required_submitters = ParticipantNames(m)
         /\ LET n == OpenConvergenceChallenge(m)
            IN  /\ Moves(m, n) /\ n.phase = "collecting_convergence_challenge"
                /\ n.current_round = m.current_round
                /\ n.authorized_rounds = m.authorized_rounds
                /\ n.required_submitters = ParticipantNames(m)
         /\ LET n == OpenSynthesis(m)
            IN  /\ Moves(m, n) /\ n.phase = "collecting_synthesis"
                /\ n.current_round = m.current_round
                /\ n.authorized_rounds = m.authorized_rounds
                /\ n.required_submitters = {m.initiator}
         /\ LET n == OpenRepresentationChecks(m)
            IN  /\ Moves(m, n) /\ n.phase = "collecting_representation_check"
                /\ n.current_round = m.current_round
                /\ n.authorized_rounds = m.authorized_rounds
                /\ n.required_submitters = m.peers
         /\ LET n == OpenSynthesisRevision(m)
            IN  /\ Moves(m, n) /\ n.phase = "collecting_synthesis_revision"
                /\ n.current_round = m.current_round
                /\ n.authorized_rounds = m.authorized_rounds
                /\ n.required_submitters = {m.initiator}
         /\ LET n == OpenRevisionChecks(m)
            IN  /\ Moves(m, n) /\ n.phase = "collecting_revision_check"
                /\ n.current_round = m.current_round
                /\ n.authorized_rounds = m.authorized_rounds
                /\ n.required_submitters = m.peers
         /\ LET n == CompleteDialogue(m)
            IN  /\ Moves(m, n) /\ n.phase = "complete"
                /\ n.current_round = m.current_round
                /\ n.authorized_rounds = m.authorized_rounds
PROOF BY DEF Manifest, Moves, OpenExchangeRound, OpenConvergenceChallenge,
             OpenSynthesis, OpenRepresentationChecks, OpenSynthesisRevision,
             OpenRevisionChecks, CompleteDialogue

\* A further round may be opened once everyone has closed the current one.
LEMMA OpenRoundHistory ==
  ASSUME NEW m, NEW n, History(m), Moves(m, n),
         m.current_round \in Nat,
         m.phase \in Collecting,
         m.phase \notin AfterSynthesis,
         m.phase = "collecting_proposals" =>
           ClosedIn(m, "proposal", 0, ParticipantNames(m)),
         m.phase # "collecting_proposals" =>
           ClosedIn(m, "exchange", m.current_round, ParticipantNames(m)),
         n.phase = "collecting_exchange",
         n.current_round = m.current_round + 1,
         n.required_submitters = ParticipantNames(m)
  PROVE  History(n)
PROOF
  <1>1. /\ ParticipantNames(n) = ParticipantNames(m)
        /\ \A kind, round, participants :
             ClosedIn(n, kind, round, participants)
               = ClosedIn(m, kind, round, participants)
        /\ Barriers(n)
    BY MovesKeepTargets DEF History
  <1>2. Waits(n)
    BY <1>1 DEF Waits
  <1>3. RoundsClosed(n)
    <2>1. ClosedIn(m, "proposal", 0, ParticipantNames(m))
      BY DEF History, RoundsClosed, Collecting
    <2>2. \A r \in 1..(n.current_round - 1) :
            ClosedIn(m, "exchange", r, ParticipantNames(m))
      BY DEF History, RoundsClosed
    <2>3. 1 <= n.current_round
      OBVIOUS
    <2> QED BY <1>1, <2>1, <2>2, <2>3 DEF RoundsClosed
  <1>4. StagesClosed(n) /\ Earned(n)
    BY DEF StagesClosed, Earned, AfterDebate, AfterSynthesis
  <1>5. Revised(n)
    <2>1. /\ ClosedIn(m, "synthesis_revision", m.current_round, {})
          /\ ClosedIn(m, "revision_check", m.current_round, {})
      BY DEF History, Revised, AfterSynthesis, Collecting
    <2>2. \A round : /\ ClosedIn(m, "synthesis_revision", round, {})
                     /\ ClosedIn(m, "revision_check", round, {})
      BY <2>1 DEF ClosedIn, Target, RoundKeyed
    <2> QED BY <1>1, <2>2 DEF Revised
  <1> QED BY <1>1, <1>2, <1>3, <1>4, <1>5 DEF History

\* The stage m waits for is closed.
BarrierComplete(m) ==
  ClosedIn(m, ExpectedKind[m.phase], ArtifactRound(m), m.required_submitters)

LEMMA AfterExchangeHistory ==
  ASSUME NEW m, Sound(m), History(m), m.phase = "collecting_exchange",
         BarrierComplete(m)
  PROVE  History(AfterExchange(m))
PROOF
  <1>1. m \in Manifest /\ Legal(m) /\ m.current_round \in Nat
    BY RoundsAssumption DEF Sound, Manifest, Round
  <1>2. ClosedIn(m, "exchange", m.current_round, ParticipantNames(m))
    BY DEF BarrierComplete, ExpectedKind, ArtifactRound, History, Waits
  <1>3. History(OpenExchangeRound(m, m.current_round + 1))
    BY <1>1, <1>2, OpenFields, OpenRoundHistory DEF Collecting, AfterSynthesis
  <1>4. ASSUME \/ m.stop_on_convergence /\ ConvergenceEarned(m)
               \/ ~(m.current_round < m.authorized_rounds)
        PROVE  History(OpenConvergenceChallenge(m))
    <2> DEFINE n == OpenConvergenceChallenge(m)
    <2>1. /\ Moves(m, n) /\ n.phase = "collecting_convergence_challenge"
          /\ n.current_round = m.current_round
          /\ n.authorized_rounds = m.authorized_rounds
          /\ n.required_submitters = ParticipantNames(m)
      BY <1>1, OpenFields
    <2> HIDE DEF n
    <2>2. /\ ParticipantNames(n) = ParticipantNames(m)
          /\ \A kind, round, participants :
               ClosedIn(n, kind, round, participants)
                 = ClosedIn(m, kind, round, participants)
          /\ Barriers(n)
      BY <2>1, MovesKeepTargets DEF History
    <2>3. Waits(n)
      BY <2>1, <2>2 DEF Waits
    <2>4. RoundsClosed(n)
      BY <2>1, <2>2 DEF History, RoundsClosed
    <2>5. StagesClosed(n)
      BY <1>2, <2>1, <2>2 DEF StagesClosed, AfterDebate, AfterSynthesis
    <2>6. Revised(n)
      BY <2>1, <2>2 DEF History, Revised, Collecting
    <2>7. Earned(n)
      <3>1. m.current_round >= m.minimum_rounds
        BY <1>1, <1>4 DEF ConvergenceEarned, Legal, Manifest, Round
      <3>2. m.current_round < m.authorized_rounds =>
              m.stop_on_convergence /\ ConvergenceEarned(n)
        BY <1>4, <2>1, SameRoundKept
      <3> QED BY <2>1, <3>1, <3>2 DEF Earned, AfterDebate, Moves
    <2> QED BY <2>2, <2>3, <2>4, <2>5, <2>6, <2>7 DEF History, n
  <1> QED BY <1>3, <1>4 DEF AfterExchange

LEMMA AfterChallengeHistory ==
  ASSUME NEW m, Sound(m), History(m),
         m.phase = "collecting_convergence_challenge", BarrierComplete(m)
  PROVE  History(AfterChallenge(m))
PROOF
  <1>1. m \in Manifest /\ Legal(m) /\ m.current_round \in Round
    BY DEF Sound, Manifest
  <1>2. m.current_round \in Nat /\ 0 \in Round
    BY <1>1, RoundsAssumption DEF Round
  <1>3. /\ ClosedIn(m, "convergence_challenge", m.current_round, ParticipantNames(m))
        /\ ClosedIn(m, "exchange", m.current_round, ParticipantNames(m))
    BY DEF BarrierComplete, ExpectedKind, ArtifactRound, History, Waits, StagesClosed
  <1> DEFINE noted(r) == [m EXCEPT !.last_material_challenge_context = r]
  <1>4. ASSUME NEW r \in Round
        PROVE  /\ Moves(m, noted(r)) /\ noted(r) \in Manifest
               /\ noted(r).current_round = m.current_round
               /\ noted(r).authorized_rounds = m.authorized_rounds
    BY <1>1 DEF Moves, Manifest
  <1>5. \E r \in Round : AfterChallenge(m) =
          IF MaterialIssue(m) /\ m.current_round < m.authorized_rounds
          THEN OpenExchangeRound(noted(r), m.current_round + 1)
          ELSE OpenSynthesis(noted(r))
    BY <1>1, <1>2 DEF AfterChallenge
  <1> HIDE DEF noted
  <1>6. ASSUME NEW r \in Round
        PROVE  History(OpenExchangeRound(noted(r), m.current_round + 1))
    <2> DEFINE n == OpenExchangeRound(noted(r), m.current_round + 1)
    <2>1. /\ Moves(m, n) /\ n.phase = "collecting_exchange"
          /\ n.current_round = m.current_round + 1
          /\ n.required_submitters = ParticipantNames(m)
      BY <1>4, OpenFields DEF Moves, ParticipantNames
    <2> HIDE DEF n
    <2>2. History(n)
      BY <1>2, <1>3, <2>1, OpenRoundHistory DEF Collecting, AfterSynthesis
    <2> QED BY <2>2 DEF n
  <1>7. ASSUME NEW r \in Round,
               ~(MaterialIssue(m) /\ m.current_round < m.authorized_rounds)
        PROVE  History(OpenSynthesis(noted(r)))
    <2> DEFINE n == OpenSynthesis(noted(r))
    <2>1. /\ Moves(m, n) /\ n.phase = "collecting_synthesis"
          /\ n.current_round = m.current_round
          /\ n.authorized_rounds = m.authorized_rounds
          /\ n.required_submitters = {n.initiator}
      BY <1>4, OpenFields DEF Moves
    <2> HIDE DEF n
    <2>2. /\ ParticipantNames(n) = ParticipantNames(m)
          /\ \A kind, round, participants :
               ClosedIn(n, kind, round, participants)
                 = ClosedIn(m, kind, round, participants)
          /\ Barriers(n)
      BY <2>1, MovesKeepTargets DEF History
    <2>3. Waits(n)
      BY <2>1 DEF Waits
    <2>4. RoundsClosed(n)
      BY <2>1, <2>2 DEF History, RoundsClosed
    <2>5. StagesClosed(n)
      BY <1>3, <2>1, <2>2 DEF StagesClosed, AfterDebate, AfterSynthesis
    <2>6. Revised(n)
      BY <2>1, <2>2 DEF History, Revised, Collecting
    <2>7. Earned(n)
      <3>1. /\ ConvergenceEarned(n) = ConvergenceEarned(m)
            /\ MaterialIssue(n) = MaterialIssue(m)
        BY <2>1, SameRoundKept
      <3> QED BY <1>7, <2>1, <3>1 DEF History, Earned, AfterDebate, Moves
    <2> QED BY <2>2, <2>3, <2>4, <2>5, <2>6, <2>7 DEF History, n
  <1> QED BY <1>5, <1>6, <1>7

\* The phases of the synthesis and its checks stay in the current round.
LEMMA AfterDebateHistory ==
  ASSUME NEW m, NEW n, Sound(m), History(m), BarrierComplete(m), Moves(m, n),
         n.current_round = m.current_round,
         n.authorized_rounds = m.authorized_rounds,
         Waits(n),
         \/ /\ m.phase = "collecting_synthesis"
            /\ n.phase = "collecting_representation_check"
         \/ /\ m.phase = "collecting_representation_check"
            /\ n.phase = "collecting_synthesis_revision"
            /\ Triad(m) /\ MaterialCorrection(m)
         \/ /\ m.phase = "collecting_representation_check"
            /\ n.phase = "complete"
            /\ ~(Triad(m) /\ MaterialCorrection(m))
         \/ /\ m.phase = "collecting_synthesis_revision"
            /\ n.phase = "collecting_revision_check"
         \/ /\ m.phase = "collecting_revision_check"
            /\ n.phase = "complete"
  PROVE  History(n)
PROOF
  <1>1. /\ ParticipantNames(n) = ParticipantNames(m)
        /\ Triad(n) = Triad(m)
        /\ \A kind, round, participants :
             ClosedIn(n, kind, round, participants)
               = ClosedIn(m, kind, round, participants)
        /\ Barriers(n)
    BY MovesKeepTargets DEF History
  <1>2. /\ ConvergenceEarned(n) = ConvergenceEarned(m)
        /\ MaterialIssue(n) = MaterialIssue(m)
        /\ MaterialCorrection(n) = MaterialCorrection(m)
    BY SameRoundKept
  <1>3. n.initiator = m.initiator /\ n.peers = m.peers
    BY DEF Moves
  <1>4. /\ m.phase = "collecting_synthesis" =>
             ClosedIn(m, "synthesis", m.current_round, {m.initiator})
        /\ m.phase = "collecting_representation_check" =>
             ClosedIn(m, "representation_check", m.current_round, m.peers)
        /\ m.phase = "collecting_synthesis_revision" =>
             ClosedIn(m, "synthesis_revision", m.current_round, {m.initiator})
        /\ m.phase = "collecting_revision_check" =>
             ClosedIn(m, "revision_check", m.current_round, m.peers)
    BY DEF BarrierComplete, ExpectedKind, ArtifactRound, History, Waits
  <1>5. RoundsClosed(n)
    BY <1>1 DEF History, RoundsClosed
  <1>6. StagesClosed(n)
    BY <1>1, <1>3, <1>4 DEF History, StagesClosed, AfterDebate, AfterSynthesis
  <1>7. Revised(n)
    BY <1>1, <1>2, <1>3, <1>4 DEF History, Revised, Collecting
  <1>8. Earned(n)
    BY <1>2 DEF History, Earned, AfterDebate, Moves
  <1> QED BY <1>1, <1>5, <1>6, <1>7, <1>8 DEF History

\* Whatever phase a complete barrier leads to, the history stays in order.
LEMMA AfterBarrierHistory ==
  ASSUME NEW m, Sound(m), History(m), m.phase \in Collecting, BarrierComplete(m)
  PROVE  History(AfterBarrier(m))
PROOF
  <1>1. m \in Manifest /\ m.current_round \in Nat
    BY RoundsAssumption DEF Sound, Manifest, Round
  <1>2. CASE m.phase = "collecting_proposals"
    <2>1. m.current_round = 0
      BY <1>2 DEF History, RoundsClosed
    <2>2. ClosedIn(m, "proposal", 0, ParticipantNames(m))
      BY <1>2 DEF BarrierComplete, ExpectedKind, ArtifactRound, History, Waits
    <2>3. History(OpenExchangeRound(m, 1))
      BY <1>1, <1>2, <2>1, <2>2, OpenFields, OpenRoundHistory
         DEF AfterSynthesis
    <2> QED BY <1>2, <2>3 DEF AfterBarrier
  <1>3. CASE m.phase = "collecting_exchange"
    BY <1>3, AfterExchangeHistory DEF AfterBarrier
  <1>4. CASE m.phase = "collecting_convergence_challenge"
    BY <1>4, AfterChallengeHistory DEF AfterBarrier
  <1>5. CASE m.phase = "collecting_synthesis"
    <2>1. Waits(OpenRepresentationChecks(m))
      BY <1>1, OpenFields DEF Waits, Moves
    <2>2. History(OpenRepresentationChecks(m))
      BY <1>1, <1>5, <2>1, OpenFields, AfterDebateHistory
    <2> QED BY <1>5, <2>2 DEF AfterBarrier
  <1>6. CASE m.phase = "collecting_representation_check"
    <2>1. Waits(OpenSynthesisRevision(m)) /\ Waits(CompleteDialogue(m))
      BY <1>1, OpenFields DEF Waits, Moves
    <2>2. Triad(m) /\ MaterialCorrection(m) => History(OpenSynthesisRevision(m))
      BY <1>1, <1>6, <2>1, OpenFields, AfterDebateHistory
    <2>3. ~(Triad(m) /\ MaterialCorrection(m)) => History(CompleteDialogue(m))
      BY <1>1, <1>6, <2>1, OpenFields, AfterDebateHistory
    <2>4. History(AfterRepresentationChecks(m))
      BY <2>2, <2>3 DEF AfterRepresentationChecks, Triad
    <2> QED BY <1>6, <2>4 DEF AfterBarrier
  <1>7. CASE m.phase = "collecting_synthesis_revision"
    <2>1. Waits(OpenRevisionChecks(m))
      BY <1>1, OpenFields DEF Waits, Moves
    <2>2. History(OpenRevisionChecks(m))
      BY <1>1, <1>7, <2>1, OpenFields, AfterDebateHistory
    <2> QED BY <1>7, <2>2 DEF AfterBarrier
  <1>8. CASE m.phase = "collecting_revision_check"
    <2>1. Waits(CompleteDialogue(m))
      BY <1>1, OpenFields DEF Waits
    <2>2. History(CompleteDialogue(m))
      BY <1>1, <1>8, <2>1, OpenFields, AfterDebateHistory
    <2> QED BY <1>8, <2>2 DEF AfterBarrier
  <1> QED BY <1>2, <1>3, <1>4, <1>5, <1>6, <1>7, <1>8 DEF Collecting

-----------------------------------------------------------------------------
(* The handlers.                                                           *)

\* An accepted submission is recorded, and the phase is left only when the
\* stage it waited for is then closed.
LEMMA SubmittedRecords ==
  ASSUME NEW m, Sound(m), History(m), NEW participant \in Participant,
         NEW kind \in Kind, NEW payload \in Payload(kind),
         participant \in ParticipantNames(m), IsExpected(m, participant, kind)
  PROVE  \E recorded, s :
           LET n == SubmittedManifest(m, participant, kind, payload)
           IN  /\ Records(m, recorded, s)
               /\ Sound(recorded) /\ History(recorded)
               /\ recorded.phase \in Collecting
               /\ \/ n = recorded
                  \/ n = AfterBarrier(recorded) /\ BarrierComplete(recorded)
PROOF
  <1> DEFINE round == ArtifactRound(m)
             s == [kind |-> kind, round |-> round,
                   participant |-> participant, payload |-> payload]
             recorded == [m EXCEPT !.submissions = @ \cup {s}]
  <1>1. m \in Manifest /\ m.phase \in Collecting /\ kind = ExpectedKind[m.phase]
    BY DEF Sound, IsExpected
  <1>2. s \in Submission
    BY <1>1, RoundsAssumption, PayloadType
       DEF Submission, ArtifactRound, Manifest, Round
  <1>3. s.kind = kind /\ s.participant = participant /\ s.round = round
    OBVIOUS
  <1> HIDE DEF s
  <1>4. Sound(recorded)
    BY <1>1, <1>2, RecordSound DEF Collecting
  <1>5. /\ Records(m, recorded, s)
        /\ recorded.phase = m.phase
        /\ recorded.required_submitters = m.required_submitters
        /\ recorded.minimum_rounds = m.minimum_rounds
        /\ recorded.authorized_rounds = m.authorized_rounds
        /\ recorded.stop_on_convergence = m.stop_on_convergence
    BY <1>1 DEF Records, Manifest
  <1>6. SubmittedManifest(m, participant, kind, payload) =
          IF Submitters(Target(recorded, kind, round)) = m.required_submitters
          THEN AfterBarrier(recorded) ELSE recorded
    BY DEF SubmittedManifest, s
  <1> HIDE DEF recorded
  <1>7. History(recorded)
    BY <1>3, <1>5, RecordHistory
  <1>8. Submitters(Target(recorded, kind, round)) = m.required_submitters
          => BarrierComplete(recorded)
    BY <1>1, <1>5 DEF BarrierComplete, ClosedIn, ArtifactRound, Records
  <1> QED BY <1>1, <1>4, <1>5, <1>6, <1>7, <1>8

LEMMA SubmittedHistory ==
  ASSUME NEW m, Sound(m), History(m), NEW participant \in Participant,
         NEW kind \in Kind, NEW payload \in Payload(kind),
         participant \in ParticipantNames(m), IsExpected(m, participant, kind)
  PROVE  History(SubmittedManifest(m, participant, kind, payload))
PROOF BY SubmittedRecords, AfterBarrierHistory

LEMMA ExtendedHistory ==
  ASSUME NEW m, Sound(m), History(m), NEW id \in ExtensionId,
         NEW additional \in 1..MaxCouncilRounds, CanExtend(m, id, additional)
  PROVE  History(ExtendedManifest(m, id, additional))
PROOF
  <1> DEFINE authorized == [m EXCEPT !.authorized_rounds = @ + additional,
                              !.extension_operations = @ \cup
                                {[id |-> id, additional_rounds |-> additional]}]
             n == OpenExchangeRound(authorized, m.current_round + 1)
  <1>1. m \in Manifest /\ m.current_round \in Nat
    BY RoundsAssumption DEF Sound, Manifest, Round
  <1>2. /\ Moves(m, authorized)
        /\ authorized.phase = m.phase
        /\ authorized.current_round = m.current_round
        /\ authorized.required_submitters = m.required_submitters
    BY <1>1 DEF Moves, Manifest
  <1>3. CASE m.phase = "collecting_exchange"
    <2>1. ExtendedManifest(m, id, additional) = authorized
      BY <1>3 DEF ExtendedManifest
    <2> HIDE DEF authorized
    <2>2. /\ ParticipantNames(authorized) = ParticipantNames(m)
          /\ \A kind, round, participants :
               ClosedIn(authorized, kind, round, participants)
                 = ClosedIn(m, kind, round, participants)
          /\ Barriers(authorized)
      BY <1>2, MovesKeepTargets DEF History
    <2>3. Waits(authorized) /\ RoundsClosed(authorized)
      BY <1>2, <1>3, <2>2 DEF History, Waits, RoundsClosed
    <2>4. StagesClosed(authorized) /\ Earned(authorized)
      BY <1>2, <1>3 DEF StagesClosed, Earned, AfterDebate, AfterSynthesis
    <2>5. Revised(authorized)
      BY <1>2, <1>3, <2>2 DEF History, Revised, Collecting
    <2> QED BY <2>1, <2>2, <2>3, <2>4, <2>5 DEF History
  <1>4. CASE m.phase = "collecting_synthesis"
    <2>1. ExtendedManifest(m, id, additional) = n
      BY <1>4 DEF ExtendedManifest
    <2>2. /\ Moves(m, n) /\ n.phase = "collecting_exchange"
          /\ n.current_round = m.current_round + 1
          /\ n.required_submitters = ParticipantNames(m)
      BY <1>1 DEF OpenExchangeRound, Moves, Manifest, ParticipantNames
    <2> HIDE DEF n
    <2>3. ClosedIn(m, "exchange", m.current_round, ParticipantNames(m))
      BY <1>4 DEF History, StagesClosed, AfterDebate
    <2>4. History(n)
      BY <1>1, <1>4, <2>2, <2>3, OpenRoundHistory DEF Collecting, AfterSynthesis
    <2> QED BY <2>1, <2>4
  <1> QED BY <1>3, <1>4 DEF CanExtend

LEMMA CancelledHistory ==
  ASSUME NEW m, Sound(m), History(m), m.phase \in Collecting
  PROVE  History(CancelledManifest(m))
PROOF
  <1> DEFINE n == CancelledManifest(m)
  <1>1. /\ Moves(m, n) /\ n.phase = "cancelled"
        /\ n.current_round = m.current_round
    BY DEF CancelledManifest, Moves, Sound, Manifest
  <1> HIDE DEF n
  <1>2. /\ ParticipantNames(n) = ParticipantNames(m)
        /\ \A kind, round, participants :
             ClosedIn(n, kind, round, participants)
               = ClosedIn(m, kind, round, participants)
        /\ Barriers(n)
    BY <1>1, MovesKeepTargets DEF History
  <1>3. Waits(n) /\ StagesClosed(n) /\ Revised(n) /\ Earned(n)
    BY <1>1 DEF Waits, StagesClosed, Revised, Earned, Collecting, AfterDebate,
                AfterSynthesis
  <1>4. RoundsClosed(n)
    BY <1>1, <1>2 DEF History, RoundsClosed
  <1> QED BY <1>2, <1>3, <1>4 DEF History, n

\* A dialogue with no submission yet has a history in order.
LEMMA EmptyHistory ==
  ASSUME NEW m, m.submissions = {}, m.current_round = 0,
         m.phase \in {"absent", "collecting_proposals"},
         m.phase = "collecting_proposals" =>
           m.required_submitters = ParticipantNames(m)
  PROVE  History(m)
PROOF
  <1>1. \A kind, round : ClosedIn(m, kind, round, {})
    BY DEF ClosedIn, Target, Submitters
  <1> QED BY <1>1 DEF History, Waits, RoundsClosed, StagesClosed, Revised, Earned,
                      Barriers, AfterDebate, AfterSynthesis, Collecting

-----------------------------------------------------------------------------
(* What no step may do.                                                    *)

\* The stage that must be closed before the round after the current one opens.
RoundStage(m) == IF m.current_round = 0 THEN "proposal" ELSE "exchange"

\* n is a later state of the dialogue m: everything recorded is kept, and a
\* new round is the next one and finds the current one closed.
Advances(m, n) ==
  /\ m.submissions \subseteq n.submissions
  /\ ParticipantNames(n) = ParticipantNames(m)
  /\ n.current_round # m.current_round =>
       /\ n.current_round = m.current_round + 1
       /\ ClosedIn(n, RoundStage(m), m.current_round, ParticipantNames(m))

LEMMA NextRoundAdvances ==
  ASSUME NEW m, NEW n, Sound(m), History(m), Moves(m, n),
         \/ n.current_round = m.current_round
         \/ /\ n.current_round = m.current_round + 1
            /\ m.phase \in {"collecting_proposals", "collecting_exchange"}
            /\ BarrierComplete(m)
         \/ /\ n.current_round = m.current_round + 1
            /\ m.phase \in {"collecting_convergence_challenge",
                            "collecting_synthesis"}
  PROVE  Advances(m, n)
PROOF
  <1>1. /\ ParticipantNames(n) = ParticipantNames(m)
        /\ m.submissions \subseteq n.submissions
        /\ \A kind, round, participants :
             ClosedIn(n, kind, round, participants)
               = ClosedIn(m, kind, round, participants)
    BY MovesKeepTargets DEF Moves
  <1>2. /\ m.phase = "collecting_proposals" => m.current_round = 0
        /\ m.phase \in {"collecting_exchange", "collecting_convergence_challenge",
                        "collecting_synthesis"} => m.current_round # 0
    BY DEF History, RoundsClosed
  <1>3. \/ n.current_round = m.current_round
        \/ ClosedIn(m, RoundStage(m), m.current_round, ParticipantNames(m))
    BY <1>2 DEF BarrierComplete, RoundStage, ExpectedKind, ArtifactRound, History,
                Waits, StagesClosed, AfterDebate
  <1> QED BY <1>1, <1>3 DEF Advances

LEMMA AfterBarrierAdvances ==
  ASSUME NEW m, Sound(m), History(m), m.phase \in Collecting, BarrierComplete(m)
  PROVE  Advances(m, AfterBarrier(m))
PROOF
  <1>1. m \in Manifest
    BY DEF Sound
  <1>2. CASE m.phase = "collecting_proposals"
    <2>1. m.current_round = 0
      BY <1>2 DEF History, RoundsClosed
    <2> QED BY <1>1, <1>2, <2>1, OpenFields, NextRoundAdvances DEF AfterBarrier
  <1>3. CASE m.phase = "collecting_exchange"
    BY <1>1, <1>3, OpenFields, NextRoundAdvances DEF AfterBarrier, AfterExchange
  <1>4. CASE m.phase = "collecting_convergence_challenge"
    <2> DEFINE n == AfterBarrier(m)
    <2>1. /\ Moves(m, n)
          /\ n.current_round \in {m.current_round, m.current_round + 1}
      BY <1>1, <1>4 DEF AfterBarrier, AfterChallenge, OpenExchangeRound,
                        OpenSynthesis, Moves, Manifest
    <2> HIDE DEF n
    <2>2. Advances(m, n)
      BY <1>4, <2>1, NextRoundAdvances
    <2> QED BY <2>2 DEF n
  <1>5. CASE m.phase = "collecting_synthesis"
    BY <1>1, <1>5, OpenFields, NextRoundAdvances DEF AfterBarrier
  <1>6. CASE m.phase = "collecting_representation_check"
    BY <1>1, <1>6, OpenFields, NextRoundAdvances
       DEF AfterBarrier, AfterRepresentationChecks
  <1>7. CASE m.phase = "collecting_synthesis_revision"
    BY <1>1, <1>7, OpenFields, NextRoundAdvances DEF AfterBarrier
  <1>8. CASE m.phase = "collecting_revision_check"
    BY <1>1, <1>8, OpenFields, NextRoundAdvances DEF AfterBarrier
  <1> QED BY <1>2, <1>3, <1>4, <1>5, <1>6, <1>7, <1>8 DEF Collecting

LEMMA SubmittedAdvances ==
  ASSUME NEW m, Sound(m), History(m), NEW participant \in Participant,
         NEW kind \in Kind, NEW payload \in Payload(kind),
         participant \in ParticipantNames(m), IsExpected(m, participant, kind)
  PROVE  Advances(m, SubmittedManifest(m, participant, kind, payload))
PROOF
  <1> DEFINE n == SubmittedManifest(m, participant, kind, payload)
  <1>1. PICK recorded, s :
          /\ Records(m, recorded, s)
          /\ Sound(recorded) /\ History(recorded)
          /\ recorded.phase \in Collecting
          /\ \/ n = recorded
             \/ n = AfterBarrier(recorded) /\ BarrierComplete(recorded)
    BY SubmittedRecords
  <1>2. CASE n = recorded
    BY <1>1, <1>2 DEF Records, Advances, ParticipantNames
  <1>3. CASE n # recorded
    <2>1. Advances(recorded, n)
      BY <1>1, <1>3, AfterBarrierAdvances
    <2> QED BY <1>1, <2>1 DEF Records, Advances, RoundStage, ParticipantNames
  <1> QED BY <1>2, <1>3

LEMMA ExtendedAdvances ==
  ASSUME NEW m, Sound(m), History(m), NEW id \in ExtensionId,
         NEW additional \in 1..MaxCouncilRounds, CanExtend(m, id, additional)
  PROVE  Advances(m, ExtendedManifest(m, id, additional))
PROOF
  <1> DEFINE n == ExtendedManifest(m, id, additional)
  <1>1. /\ Moves(m, n)
        /\ \/ n.current_round = m.current_round
           \/ /\ m.phase = "collecting_synthesis"
              /\ n.current_round = m.current_round + 1
    BY DEF ExtendedManifest, OpenExchangeRound, Moves, Sound, Manifest
  <1> HIDE DEF n
  <1>2. Advances(m, n)
    BY <1>1, NextRoundAdvances
  <1> QED BY <1>2 DEF n

-----------------------------------------------------------------------------
(* One submission in each place, and the context of the last challenge.    *)

\* Nobody stands twice in the same place of the same stage.
OnePlaceEach(m) ==
  \A s, t \in m.submissions :
    s.kind = t.kind /\ s.round = t.round /\ s.participant = t.participant => s = t

\* ReopenContextFresh for a manifest.
FreshContext(m) ==
  m.phase = "collecting_synthesis" =>
    m.last_material_challenge_context =
      IF MaterialIssue(m) THEN m.current_round ELSE 0

\* Whatever phase a complete barrier leads to, the submissions stay, and the
\* synthesis is opened with the context of the challenge just held.
LEMMA AfterBarrierContext ==
  ASSUME NEW m, Sound(m), m.phase \in Collecting
  PROVE  /\ AfterBarrier(m).submissions = m.submissions
         /\ FreshContext(AfterBarrier(m))
PROOF
  <1> DEFINE n == AfterBarrier(m)
  <1>1. m \in Manifest
    BY DEF Sound
  <1>2. CASE m.phase = "collecting_convergence_challenge"
    <2> DEFINE context == IF MaterialIssue(m) THEN m.current_round ELSE 0
               noted == [m EXCEPT !.last_material_challenge_context = context]
    <2>1. /\ noted \in Manifest /\ Moves(m, noted)
          /\ noted.current_round = m.current_round
          /\ noted.last_material_challenge_context = context
      BY <1>1, RoundsAssumption DEF Manifest, Moves, Round
    <2>2. n \in {OpenExchangeRound(noted, m.current_round + 1), OpenSynthesis(noted)}
      BY <1>2 DEF AfterBarrier, AfterChallenge
    <2> HIDE DEF noted, n
    <2>3. CASE n = OpenExchangeRound(noted, m.current_round + 1)
      BY <1>2, <2>1, <2>3, OpenFields DEF Moves, FreshContext, n
    <2>4. CASE n = OpenSynthesis(noted)
      <3>1. /\ Moves(noted, n) /\ n.current_round = m.current_round
            /\ n.last_material_challenge_context = context
        BY <2>1, <2>4, OpenFields DEF OpenSynthesis, Manifest
      <3>2. Moves(m, n)
        BY <2>1, <3>1 DEF Moves
      <3>3. MaterialIssue(n) = MaterialIssue(m)
        BY <3>1, <3>2, SameRoundKept
      <3> QED BY <3>1, <3>2, <3>3 DEF Moves, FreshContext, n
    <2> QED BY <2>2, <2>3, <2>4
  <1>3. CASE m.phase # "collecting_convergence_challenge"
    <2>1. /\ n.submissions = m.submissions
          /\ n.phase # "collecting_synthesis"
      BY <1>1, <1>3, OpenFields
         DEF AfterBarrier, AfterExchange, AfterRepresentationChecks, Collecting, Moves
    <2> QED BY <2>1 DEF FreshContext
  <1> QED BY <1>2, <1>3

LEMMA SubmittedPlaces ==
  ASSUME NEW m, Sound(m), OnePlaceEach(m), FreshContext(m),
         NEW participant \in Participant, NEW kind \in Kind, NEW round \in Round,
         NEW payload \in Payload(kind), IsExpected(m, participant, kind),
         SubmitOutcome(m, participant, kind, round, payload) = "accepted"
  PROVE  /\ OnePlaceEach(SubmittedManifest(m, participant, kind, payload))
         /\ FreshContext(SubmittedManifest(m, participant, kind, payload))
PROOF
  <1> DEFINE s == [kind |-> kind, round |-> ArtifactRound(m),
                   participant |-> participant, payload |-> payload]
             recorded == [m EXCEPT !.submissions = @ \cup {s}]
             n == SubmittedManifest(m, participant, kind, payload)
  <1>1. m \in Manifest /\ m.phase \in Collecting /\ kind = ExpectedKind[m.phase]
    BY DEF Sound, IsExpected
  <1>2. /\ round = ArtifactRound(m)
        /\ Existing(m, participant, kind, ArtifactRound(m)) = {}
    BY DEF SubmitOutcome, Repeated
  <1>3. s \in Submission
    BY <1>1, RoundsAssumption, PayloadType
       DEF Submission, ArtifactRound, Manifest, Round
  <1>4. /\ s.kind = kind /\ s.participant = participant
        /\ s.round = ArtifactRound(m)
    OBVIOUS
  <1> HIDE DEF s
  <1>5. Sound(recorded)
    BY <1>1, <1>3, RecordSound DEF Collecting
  <1>6. /\ Records(m, recorded, s)
        /\ recorded.phase = m.phase
        /\ recorded.minimum_rounds = m.minimum_rounds
        /\ recorded.last_material_challenge_context
             = m.last_material_challenge_context
    BY <1>1 DEF Records, Manifest
  <1>7. n \in {recorded, AfterBarrier(recorded)}
    BY DEF SubmittedManifest, s
  <1> HIDE DEF recorded, n
  <1>8. n.submissions = m.submissions \cup {s}
    BY <1>1, <1>5, <1>6, <1>7, AfterBarrierContext DEF Records
  <1>9. OnePlaceEach(n)
    BY <1>2, <1>4, <1>8 DEF OnePlaceEach, Existing
  <1>10. FreshContext(recorded)
    <2>1. m.phase = "collecting_synthesis" => s.kind # "convergence_challenge"
      BY <1>1, <1>4 DEF ExpectedKind
    <2> QED BY <1>6, <2>1, OtherKindKept DEF FreshContext, Records
  <1>11. FreshContext(n)
    BY <1>1, <1>5, <1>6, <1>7, <1>10, AfterBarrierContext
  <1> QED BY <1>9, <1>11 DEF n

-----------------------------------------------------------------------------
(* The theorems about DialogueProtocol.                                    *)

DialogueInv == Sound(dialogue) /\ History(dialogue)

\* In every reachable state the manifest is well formed and its history in
\* order: the inductive invariant of the dialogue.
THEOREM HistoryInvariant == DialogueSpec => []DialogueInv
PROOF
  <1>1. DialogueInit => DialogueInv
    <2> SUFFICES ASSUME DialogueInit PROVE History(dialogue) /\ Sound(dialogue)
      BY DEF DialogueInv
    <2>1. (CHOOSE p \in Participant : TRUE) \in Participant
      BY ParticipantAssumption
    <2>2. NoManifest \in Manifest /\ Legal(NoManifest)
      BY <2>1, RoundsAssumption DEF NoManifest, Manifest, Round, Legal
    <2>3. History(NoManifest)
      BY EmptyHistory DEF NoManifest
    <2> QED BY <2>2, <2>3 DEF DialogueInit, Sound
  <1>2. DialogueInv /\ [DialogueNext]_dialogue => DialogueInv'
    <2> SUFFICES ASSUME Sound(dialogue), History(dialogue), [DialogueNext]_dialogue
                 PROVE  Sound(dialogue') /\ History(dialogue')
      BY DEF DialogueInv
    <2>1. ASSUME NEW initiator \in Participant, NEW peers \in SUBSET Participant,
                 NEW minimum \in Round, NEW rounds \in Round, NEW max \in Round,
                 NEW stop \in BOOLEAN,
                 StartDialogue(initiator, peers, minimum, rounds, max, stop)
          PROVE  Sound(dialogue') /\ History(dialogue')
      <3>1. Sound(dialogue')
        BY <2>1, StartedSound DEF StartDialogue
      <3>2. History(StartedManifest(initiator, peers, minimum, rounds, max, stop))
        BY EmptyHistory DEF StartedManifest, ParticipantNames
      <3> QED BY <2>1, <3>1, <3>2 DEF StartDialogue
    <2>2. ASSUME NEW participant \in Participant, SubmitBy(participant)
          PROVE  Sound(dialogue') /\ History(dialogue')
      <3>1. PICK kind \in Kind :
              /\ IsExpected(dialogue, participant, kind)
              /\ \E round \in Round, payload \in Payload(kind) :
                   SubmitToDialogue(participant, kind, round, payload)
        BY <2>2 DEF SubmitBy
      <3>2. PICK round \in Round, payload \in Payload(kind) :
              SubmitToDialogue(participant, kind, round, payload)
        BY <3>1
      <3> QED BY <3>1, <3>2, SubmittedSound, SubmittedHistory DEF SubmitToDialogue
    <2>3. ASSUME NEW participant \in Participant, NEW id \in ExtensionId,
                 NEW additional \in 1..MaxCouncilRounds,
                 ExtendDialogue(participant, id, additional)
          PROVE  Sound(dialogue') /\ History(dialogue')
      BY <2>3, ExtendedSound, ExtendedHistory DEF ExtendDialogue
    <2>4. ASSUME NEW participant \in Participant, CancelDialogue(participant)
          PROVE  Sound(dialogue') /\ History(dialogue')
      <3>1. dialogue.phase # "absent"
        BY <2>4 DEF CancelDialogue, Collecting
      <3>2. Sound(CancelledManifest(dialogue))
        BY <3>1, PhaseChange DEF CancelledManifest, Terminal
      <3> QED BY <2>4, <3>2, CancelledHistory DEF CancelDialogue
    <2>5. CASE UNCHANGED dialogue
      BY <2>5
    <2> QED BY <2>1, <2>2, <2>3, <2>4, <2>5 DEF DialogueNext
  <1> QED BY <1>1, <1>2, PTL DEF DialogueSpec

\* The manifest is always well formed, however many rounds and participants.
THEOREM TypeCorrect == DialogueSpec => []DialogueTypeOK
PROOF
  <1>1. DialogueInv => DialogueTypeOK
    BY DEF DialogueInv, Sound, DialogueTypeOK
  <1> QED BY <1>1, HistoryInvariant, PTL

\* The debate never runs past what the user authorized, and the authorized
\* rounds never past the maximum agreed at the start.
THEOREM RoundsAuthorized == DialogueSpec => []RoundsWithinAuthority
PROOF
  <1>1. DialogueInv => RoundsWithinAuthority
    BY DEF DialogueInv, Sound, Legal, RoundsWithinAuthority
  <1> QED BY <1>1, HistoryInvariant, PTL

\* No contribution is ever recorded while an earlier stage is open.
THEOREM BarriersAlwaysHold == DialogueSpec => []BarriersHold
PROOF
  <1>1. DialogueInv => BarriersHold
    BY DEF DialogueInv, History, Barriers, BarriersHold, ClosedIn, Closed, Everyone
  <1> QED BY <1>1, HistoryInvariant, PTL

\* The debate is only ever left for a reason the user accepted.
THEOREM SynthesisAlwaysEarned == DialogueSpec => []SynthesisEarned
PROOF
  <1>1. DialogueInv => SynthesisEarned
    BY DEF DialogueInv, History, StagesClosed, Earned, SynthesisEarned, ClosedIn,
           Closed, Everyone
  <1> QED BY <1>1, HistoryInvariant, PTL

\* No dialogue completes unreviewed, and a triad is revised exactly when a
\* correction was asked for.
THEOREM CompletionAlwaysReviewed == DialogueSpec => []CompletionReviewed
PROOF
  <1>1. DialogueInv => CompletionReviewed
    BY DEF DialogueInv, History, StagesClosed, Revised, CompletionReviewed, ClosedIn,
           Closed, Everyone, AfterDebate, AfterSynthesis, Triad
  <1> QED BY <1>1, HistoryInvariant, PTL

\* No step withdraws or alters a recorded submission, leaves a terminal phase,
\* skips a round, or leaves one that is still open.
THEOREM NeverBackwards == DialogueSpec => NoStepBackwards
PROOF
  <1> DEFINE Forward ==
        dialogue.phase # "absent" =>
          /\ Advances(dialogue, dialogue')
          /\ dialogue.phase \in Terminal => dialogue' = dialogue
  <1>1. DialogueInv /\ [DialogueNext]_dialogue => [Forward]_dialogue
    <2> SUFFICES ASSUME Sound(dialogue), History(dialogue), DialogueNext,
                        dialogue.phase # "absent"
                 PROVE  /\ Advances(dialogue, dialogue')
                        /\ dialogue.phase \notin Terminal
      BY DEF DialogueInv
    <2>1. ASSUME NEW initiator \in Participant, NEW peers \in SUBSET Participant,
                 NEW minimum \in Round, NEW rounds \in Round, NEW max \in Round,
                 NEW stop \in BOOLEAN,
                 StartDialogue(initiator, peers, minimum, rounds, max, stop)
          PROVE  FALSE
      BY <2>1 DEF StartDialogue
    <2>2. ASSUME NEW participant \in Participant, SubmitBy(participant)
          PROVE  /\ Advances(dialogue, dialogue')
                 /\ dialogue.phase \notin Terminal
      <3>1. PICK kind \in Kind :
              /\ IsExpected(dialogue, participant, kind)
              /\ \E round \in Round, payload \in Payload(kind) :
                   SubmitToDialogue(participant, kind, round, payload)
        BY <2>2 DEF SubmitBy
      <3>2. PICK round \in Round, payload \in Payload(kind) :
              SubmitToDialogue(participant, kind, round, payload)
        BY <3>1
      <3>3. dialogue.phase \notin Terminal
        BY <3>1 DEF IsExpected, Collecting, Terminal
      <3> QED BY <3>1, <3>2, <3>3, SubmittedAdvances DEF SubmitToDialogue
    <2>3. ASSUME NEW participant \in Participant, NEW id \in ExtensionId,
                 NEW additional \in 1..MaxCouncilRounds,
                 ExtendDialogue(participant, id, additional)
          PROVE  /\ Advances(dialogue, dialogue')
                 /\ dialogue.phase \notin Terminal
      BY <2>3, ExtendedAdvances DEF ExtendDialogue, CanExtend, Terminal
    <2>4. ASSUME NEW participant \in Participant, CancelDialogue(participant)
          PROVE  /\ Advances(dialogue, dialogue')
                 /\ dialogue.phase \notin Terminal
      <3>1. dialogue.phase \notin Terminal
        BY <2>4 DEF CancelDialogue, Collecting, Terminal
      <3>2. /\ Moves(dialogue, dialogue')
            /\ dialogue'.current_round = dialogue.current_round
        BY <2>4 DEF CancelDialogue, CancelledManifest, Moves, Sound, Manifest
      <3>3. Advances(dialogue, dialogue')
        BY <3>2, NextRoundAdvances
      <3> QED BY <3>1, <3>3
    <2> QED BY <2>1, <2>2, <2>3, <2>4 DEF DialogueNext
  <1>2. [Forward]_dialogue =>
          [dialogue.phase # "absent" =>
             /\ dialogue.submissions \subseteq dialogue'.submissions
             /\ dialogue.phase \in Terminal => dialogue' = dialogue
             /\ dialogue'.current_round # dialogue.current_round =>
                  /\ dialogue'.current_round = dialogue.current_round + 1
                  /\ Submitters(Target(dialogue', IF dialogue.current_round = 0
                                                  THEN "proposal" ELSE "exchange",
                                       dialogue.current_round)) = Everyone
          ]_dialogue
    BY DEF Advances, ClosedIn, RoundStage, Everyone
  <1> HIDE DEF Forward
  <1> QED BY <1>1, <1>2, HistoryInvariant, PTL DEF DialogueSpec, NoStepBackwards

PlacesAndContext == OnePlaceEach(dialogue) /\ FreshContext(dialogue)

\* Every submission stands alone in its place, and the synthesis phase holds
\* the context of the last challenge.
THEOREM PlacesInvariant == DialogueSpec => []PlacesAndContext
PROOF
  <1>1. DialogueInit => PlacesAndContext
    BY DEF DialogueInit, PlacesAndContext, NoManifest, OnePlaceEach, FreshContext
  <1>2. DialogueInv /\ PlacesAndContext /\ [DialogueNext]_dialogue => PlacesAndContext'
    <2> SUFFICES ASSUME Sound(dialogue), OnePlaceEach(dialogue),
                        FreshContext(dialogue), [DialogueNext]_dialogue
                 PROVE  OnePlaceEach(dialogue') /\ FreshContext(dialogue')
      BY DEF DialogueInv, PlacesAndContext
    <2>1. ASSUME NEW initiator \in Participant, NEW peers \in SUBSET Participant,
                 NEW minimum \in Round, NEW rounds \in Round, NEW max \in Round,
                 NEW stop \in BOOLEAN,
                 StartDialogue(initiator, peers, minimum, rounds, max, stop)
          PROVE  OnePlaceEach(dialogue') /\ FreshContext(dialogue')
      BY <2>1 DEF StartDialogue, StartedManifest, OnePlaceEach, FreshContext
    <2>2. ASSUME NEW participant \in Participant, SubmitBy(participant)
          PROVE  OnePlaceEach(dialogue') /\ FreshContext(dialogue')
      <3>1. PICK kind \in Kind :
              /\ IsExpected(dialogue, participant, kind)
              /\ \E round \in Round, payload \in Payload(kind) :
                   SubmitToDialogue(participant, kind, round, payload)
        BY <2>2 DEF SubmitBy
      <3>2. PICK round \in Round, payload \in Payload(kind) :
              SubmitToDialogue(participant, kind, round, payload)
        BY <3>1
      <3> QED BY <3>1, <3>2, SubmittedPlaces DEF SubmitToDialogue
    <2>3. ASSUME NEW participant \in Participant, NEW id \in ExtensionId,
                 NEW additional \in 1..MaxCouncilRounds,
                 ExtendDialogue(participant, id, additional)
          PROVE  OnePlaceEach(dialogue') /\ FreshContext(dialogue')
      <3>1. /\ dialogue'.submissions = dialogue.submissions
            /\ dialogue'.phase = "collecting_exchange"
        BY <2>3 DEF ExtendDialogue, CanExtend, ExtendedManifest, OpenExchangeRound,
                    Sound, Manifest
      <3> QED BY <3>1 DEF OnePlaceEach, FreshContext
    <2>4. ASSUME NEW participant \in Participant, CancelDialogue(participant)
          PROVE  OnePlaceEach(dialogue') /\ FreshContext(dialogue')
      <3>1. /\ dialogue'.submissions = dialogue.submissions
            /\ dialogue'.phase = "cancelled"
        BY <2>4 DEF CancelDialogue, CancelledManifest, Sound, Manifest
      <3> QED BY <3>1 DEF OnePlaceEach, FreshContext
    <2>5. CASE UNCHANGED dialogue
      BY <2>5
    <2> QED BY <2>1, <2>2, <2>3, <2>4, <2>5 DEF DialogueNext
  <1> QED BY <1>1, <1>2, HistoryInvariant, PTL DEF DialogueSpec

\* A submission sent again is told it was a duplicate, and another payload in
\* its place is refused, whatever phase and round the dialogue is in by then.
THEOREM RetryAlwaysRecognised == DialogueSpec => []RetryIsRecognised
PROOF
  <1>1. PlacesAndContext => RetryIsRecognised
    <2> SUFFICES ASSUME OnePlaceEach(dialogue), NEW s \in dialogue.submissions,
                        NEW payload \in Payload(s.kind)
                 PROVE  SubmitOutcome(dialogue, s.participant, s.kind, s.round, payload)
                          = IF payload = s.payload THEN "duplicate" ELSE "conflict"
      BY DEF PlacesAndContext, RetryIsRecognised
    <2>1. Existing(dialogue, s.participant, s.kind, s.round) = {s}
      BY DEF OnePlaceEach, Existing
    <2> QED BY <2>1 DEF SubmitOutcome, Repeated
  <1> QED BY <1>1, PlacesInvariant, PTL

\* A round reopened by an extension is never handed the context of an earlier
\* challenge than the last one.
THEOREM ReopenContextAlwaysFresh == DialogueSpec => []ReopenContextFresh
PROOF
  <1>1. PlacesAndContext => ReopenContextFresh
    BY DEF PlacesAndContext, FreshContext, ReopenContextFresh
  <1> QED BY <1>1, PlacesInvariant, PTL

-----------------------------------------------------------------------------
(* The order of the ledger and the batch of a challenge                    *)

\* A nonempty set of natural numbers has a least member.
LEMMA LeastIn ==
  ASSUME NEW T, T \subseteq Nat, T # {}
  PROVE  \E m \in T : \A t \in T : m <= t
<1>1. PICK m \in T : \A t \in T : <<t, m>> \notin OpToRel(<, Nat)
  BY WFMin, NatLessThanWellFounded, Zenon
<1>2. \A t \in T : ~(t < m)
  BY <1>1, Zenon DEF OpToRel
<1>3. QED BY <1>2

\* A bounded one has a greatest member.
LEMMA GreatestIn ==
  ASSUME NEW k \in Nat, NEW T, T \subseteq 1..k, T # {}
  PROVE  \E m \in T : \A t \in T : t <= m
<1> DEFINE Below == {k - t : t \in T}
<1>1. Below \subseteq Nat /\ Below # {}
  <2>1. \A t \in T : k - t \in Nat
    OBVIOUS
  <2>2. QED BY <2>1
<1>2. PICK x \in Below : \A y \in Below : x <= y
  <2> HIDE DEF Below
  <2> QED BY <1>1, LeastIn
<1>3. PICK m \in T : x = k - m
  OBVIOUS
<1>4. \A t \in T : k - m <= k - t
  BY <1>2, <1>3
<1>5. QED BY <1>4

\* A claim is a pair of numbers, and none of them is NoClaim.
LEMMA ClaimIsPair ==
  /\ NoClaim \notin Claim
  /\ \A c \in Claim : c[1] \in 1..N /\ c[2] \in 1..MaxClaims /\ c = <<c[1], c[2]>>
PROOF BY DEF Claim, NoClaim

\* Some claims have a first one.
LEMMA FirstOf ==
  ASSUME NEW S, S \subseteq Claim, S # {}
  PROVE  \E x \in S : \A d \in S \ {x} : Earlier(x, d)
<1> USE LedgerAssumption
<1> DEFINE Places == {c[2] : c \in S}
<1>1. PICK q \in Places : \A t \in Places : q <= t
  <2>1. Places \subseteq Nat /\ Places # {}
    BY ClaimIsPair
  <2> HIDE DEF Places
  <2> QED BY <2>1, LeastIn
<1> DEFINE Makers == {c[1] : c \in {d \in S : d[2] = q}}
<1>2. PICK p \in Makers : \A t \in Makers : p <= t
  <2>1. Makers \subseteq Nat /\ Makers # {}
    BY ClaimIsPair
  <2> HIDE DEF Makers
  <2> QED BY <2>1, LeastIn
<1>3. PICK x \in S : x[2] = q /\ x[1] = p
  BY <1>2
<1>4. ASSUME NEW d \in S \ {x} PROVE Earlier(x, d)
  <2>1. q <= d[2] /\ (d[2] = q => p <= d[1])
    BY <1>1, <1>2
  <2>2. d[2] # q \/ d[1] # p
    BY <1>3, ClaimIsPair
  <2>3. {p, q, d[1], d[2]} \subseteq Nat
    BY <1>3, ClaimIsPair
  <2>4. QED BY <1>3, <2>1, <2>2, <2>3 DEF Earlier
<1>5. QED BY <1>4

\* Some claims have a last one.
LEMMA LastOf ==
  ASSUME NEW S, S \subseteq Claim, S # {}
  PROVE  \E x \in S : \A d \in S \ {x} : Earlier(d, x)
<1> USE LedgerAssumption
<1> DEFINE Places == {c[2] : c \in S}
<1>1. PICK q \in Places : \A t \in Places : t <= q
  <2>1. Places \subseteq 1..MaxClaims /\ Places # {}
    BY ClaimIsPair
  <2> HIDE DEF Places
  <2> QED BY <2>1, GreatestIn
<1> DEFINE Makers == {c[1] : c \in {d \in S : d[2] = q}}
<1>2. PICK p \in Makers : \A t \in Makers : t <= p
  <2>1. Makers \subseteq 1..N /\ Makers # {} /\ N \in Nat
    BY ClaimIsPair
  <2> HIDE DEF Makers
  <2> QED BY <2>1, GreatestIn
<1>3. PICK x \in S : x[2] = q /\ x[1] = p
  BY <1>2
<1>4. ASSUME NEW d \in S \ {x} PROVE Earlier(d, x)
  <2>1. d[2] <= q /\ (d[2] = q => d[1] <= p)
    BY <1>1, <1>2
  <2>2. d[2] # q \/ d[1] # p
    BY <1>3, ClaimIsPair
  <2>3. {p, q, d[1], d[2]} \subseteq Nat
    BY <1>3, ClaimIsPair
  <2>4. QED BY <1>3, <2>1, <2>2, <2>3 DEF Earlier
<1>5. QED BY <1>4

\* No claim is earlier than another one that is earlier than it.
LEMMA EarlierIsStrict ==
  ASSUME NEW c \in Claim, NEW d \in Claim, Earlier(c, d)
  PROVE  ~Earlier(d, c) /\ c # d
<1>1. {c[1], c[2], d[1], d[2]} \subseteq Nat
  BY ClaimIsPair, LedgerAssumption
<1>2. QED BY <1>1 DEF Earlier

\* More claims leave no less of a debate.
LEMMA DebatableMonotone ==
  ASSUME NEW S, NEW T, S \subseteq T, Debatable(S)
  PROVE  Debatable(T)
PROOF BY DEF Debatable

\* However low the ceiling, the first claims of two participants are active.
LEMMA AllocatedDebatable ==
  ASSUME NEW claims, claims \subseteq Claim, <<1, 1>> \in claims, <<2, 1>> \in claims,
         NEW ceiling \in 2..MaxRaw
  PROVE  Debatable(Allocated(claims, ceiling))
<1> USE LedgerAssumption
<1>1. {d \in claims : Earlier(d, <<1, 1>>)} = {}
  BY ClaimIsPair DEF Earlier
<1>2. {d \in claims : Earlier(d, <<2, 1>>)} = {<<1, 1>>}
  BY ClaimIsPair DEF Earlier
<1>3. <<1, 1>> \in Allocated(claims, ceiling)
  <2>1. Cardinality({d \in claims : Earlier(d, <<1, 1>>)}) = 0
    BY <1>1, FS_EmptySet
  <2>2. QED BY <2>1 DEF Allocated
<1>4. <<2, 1>> \in Allocated(claims, ceiling)
  <2>1. Cardinality({d \in claims : Earlier(d, <<2, 1>>)}) = 1
    BY <1>2, FS_Singleton
  <2>2. QED BY <2>1 DEF Allocated
<1>5. QED BY <1>3, <1>4 DEF Debatable, Origin

\* The last claim to go leaves a debate, and with it all of the batch are gone.
LEMMA BatchLeavesDebate ==
  ASSUME claim_ledger \subseteq Claim, Debatable(claim_ledger),
         NEW gone \in SUBSET claim_ledger, Retires(gone)
  PROVE  Debatable(claim_ledger \ gone)
<1>1. CASE gone = {}
  BY <1>1 DEF Debatable
<1>2. CASE gone # {}
  <2>1. PICK x \in gone : \A d \in gone \ {x} : Earlier(d, x)
    BY <1>2, LastOf
  <2>2. Debatable(claim_ledger \ ({d \in gone : Earlier(d, x)} \cup {x}))
    BY DEF Retires
  <2>3. {d \in gone : Earlier(d, x)} \cup {x} = gone
    BY <2>1
  <2>4. QED BY <2>2, <2>3
<1>3. QED BY <1>1, <1>2

\* Claims that Earlier orders are ordered by their rank.
Rank(c) == 4 * c[2] + c[1]

LEMMA RankOrders ==
  ASSUME NEW c \in Claim, NEW d \in Claim
  PROVE  /\ Rank(c) \in Nat
         /\ Earlier(c, d) <=> Rank(c) < Rank(d)
         /\ Rank(c) = Rank(d) => c = d
<1>1. /\ c[1] \in 1..3 /\ d[1] \in 1..3 /\ c[2] \in Nat /\ d[2] \in Nat
      /\ c[1] = d[1] /\ c[2] = d[2] => c = d
  BY ClaimIsPair, LedgerAssumption
<1>2. QED BY <1>1 DEF Rank, Earlier

\* What the loop decides of a claim, given what has gone before it.
Goes(c, before) ==
  /\ c \in Candidates \ Protected
  /\ verdicts[c].of \notin Unanimous("duplicate") \cup before
  /\ Debatable(claim_ledger \ (before \cup {c}))

\* The loop has decided about the claims up to the rank n.
Decided(n, gone) ==
  \A c \in claim_ledger : Rank(c) <= n =>
    (c \in gone <=> Goes(c, {d \in gone : Earlier(d, c)}))

\* One more claim can be decided without a change to what went before.
LEMMA DecideNext ==
  ASSUME claim_ledger \subseteq Claim, NEW n \in Nat,
         NEW gone \in SUBSET {c \in claim_ledger : Rank(c) <= n}, Decided(n, gone)
  PROVE  \E more \in SUBSET {c \in claim_ledger : Rank(c) <= n + 1} : Decided(n + 1, more)
<1>1. \A c \in claim_ledger : Rank(c) \in Nat
  BY RankOrders
<1>2. gone \in SUBSET {c \in claim_ledger : Rank(c) <= n + 1}
  BY <1>1
<1>3. CASE \A c \in claim_ledger : Rank(c) # n + 1
  <2>1. Decided(n + 1, gone)
    BY <1>1, <1>3 DEF Decided
  <2>2. QED BY <1>2, <2>1
<1>4. ASSUME NEW x \in claim_ledger, Rank(x) = n + 1
      PROVE  \E more \in SUBSET {c \in claim_ledger : Rank(c) <= n + 1} : Decided(n + 1, more)
  <2>1. \A c \in claim_ledger : Rank(c) <= n + 1 => c = x \/ Rank(c) <= n
    BY <1>1, <1>4, RankOrders
  <2>2. x \notin gone
    BY <1>4
  <2>3. \A c \in claim_ledger : Rank(c) <= n + 1 => ~Earlier(x, c)
    BY <1>1, <1>4, RankOrders
  <2>4. CASE Goes(x, {d \in gone : Earlier(d, x)})
    <3> DEFINE more == gone \cup {x}
    <3>1. \A c \in claim_ledger : Rank(c) <= n + 1 =>
            {d \in more : Earlier(d, c)} = {d \in gone : Earlier(d, c)}
      BY <2>3
    <3>2. \A c \in claim_ledger : Rank(c) <= n => c # x
      BY <1>1, <1>4
    <3>3. Decided(n + 1, more)
      <4>1. ASSUME NEW c \in claim_ledger, Rank(c) <= n + 1
            PROVE  c \in more <=> Goes(c, {d \in more : Earlier(d, c)})
        <5>1. {d \in more : Earlier(d, c)} = {d \in gone : Earlier(d, c)}
          BY <3>1, <4>1
        <5>2. c \in more <=> Goes(c, {d \in gone : Earlier(d, c)})
          <6>1. CASE c = x
            BY <2>4, <6>1
          <6>2. CASE c # x
            BY <2>1, <4>1, <6>2 DEF Decided
          <6>3. QED BY <6>1, <6>2
        <5>3. QED BY <5>1, <5>2
      <4> HIDE DEF more
      <4>2. QED BY <4>1 DEF Decided
    <3>4. more \in SUBSET {c \in claim_ledger : Rank(c) <= n + 1}
      BY <1>1, <1>2, <1>4
    <3>5. QED BY <3>3, <3>4
  <2>5. CASE ~Goes(x, {d \in gone : Earlier(d, x)})
    <3>1. Decided(n + 1, gone)
      BY <2>1, <2>2, <2>5 DEF Decided
    <3>2. QED BY <1>2, <3>1
  <2>6. QED BY <2>4, <2>5
<1>5. QED BY <1>3, <1>4

\* However far the loop gets, there is a batch it has decided on.
LEMMA DecidedUpTo ==
  ASSUME claim_ledger \subseteq Claim, NEW n \in Nat
  PROVE  \E gone \in SUBSET {c \in claim_ledger : Rank(c) <= n} : Decided(n, gone)
<1> DEFINE Stuck == {k \in Nat :
             ~\E gone \in SUBSET {c \in claim_ledger : Rank(c) <= k} : Decided(k, gone)}
<1>1. Stuck = {}
  <2> SUFFICES ASSUME Stuck # {} PROVE FALSE
    OBVIOUS
  <2>1. PICK k \in Stuck : \A t \in Stuck : k <= t
    <3>1. Stuck \subseteq Nat
      OBVIOUS
    <3> HIDE DEF Stuck
    <3>2. QED BY <3>1, LeastIn
  <2>2. CASE k = 0
    <3>1. \A c \in claim_ledger : ~(Rank(c) <= 0)
      BY ClaimIsPair, LedgerAssumption DEF Rank
    <3>2. Decided(0, {})
      BY <3>1 DEF Decided
    <3>3. QED BY <2>2, <3>2
  <2>3. CASE k # 0
    <3>1. k - 1 \in Nat /\ k - 1 \notin Stuck /\ (k - 1) + 1 = k
      BY <2>1, <2>3
    <3>2. PICK gone \in SUBSET {c \in claim_ledger : Rank(c) <= k - 1} : Decided(k - 1, gone)
      BY <3>1
    <3>3. \E more \in SUBSET {c \in claim_ledger : Rank(c) <= (k - 1) + 1} :
            Decided((k - 1) + 1, more)
      BY <3>1, <3>2, DecideNext
    <3>4. QED BY <3>1, <3>3
  <2>4. QED BY <2>2, <2>3
<1>2. QED BY <1>1

\* There is a batch to retire whenever a challenge passes.
LEMMA BatchExists ==
  ASSUME claim_ledger \subseteq Claim
  PROVE  \E gone \in SUBSET claim_ledger : Retires(gone)
<1> DEFINE last == 4 * MaxClaims + 3
<1>1. last \in Nat /\ \A c \in claim_ledger : Rank(c) <= last
  BY ClaimIsPair, LedgerAssumption DEF Rank
<1> HIDE DEF last
<1>2. PICK gone \in SUBSET {c \in claim_ledger : Rank(c) <= last} : Decided(last, gone)
  BY <1>1, DecidedUpTo
<1>3. Retires(gone)
  BY <1>1, <1>2 DEF Decided, Retires, Goes
<1>4. QED BY <1>3

\* There are no two.
LEMMA BatchIsUnique ==
  ASSUME claim_ledger \subseteq Claim,
         NEW gone \in SUBSET claim_ledger, Retires(gone),
         NEW other \in SUBSET claim_ledger, Retires(other)
  PROVE  gone = other
<1> DEFINE Differ == (gone \ other) \cup (other \ gone)
<1> SUFFICES ASSUME Differ # {} PROVE FALSE
  OBVIOUS
<1>1. PICK x \in Differ : \A d \in Differ \ {x} : Earlier(x, d)
  <2>1. Differ \subseteq Claim
    OBVIOUS
  <2> HIDE DEF Differ
  <2> QED BY <2>1, FirstOf
<1>2. {d \in gone : Earlier(d, x)} = {d \in other : Earlier(d, x)}
  BY <1>1, EarlierIsStrict
<1>3. x \in gone <=> x \in other
  <2>1. x \in claim_ledger
    OBVIOUS
  <2>2. QED BY <2>1, <1>2 DEF Retires
<1>4. QED BY <1>3

\* What Retires describes is what the loop of _apply_safe_retirements computes: whatever
\* the verdicts, there is one batch, and no choice.
THEOREM BatchDetermined ==
  ASSUME claim_ledger \subseteq Claim
  PROVE  \E gone \in SUBSET claim_ledger :
           /\ Retires(gone)
           /\ \A other \in SUBSET claim_ledger : Retires(other) => other = gone
<1>1. PICK gone \in SUBSET claim_ledger : Retires(gone)
  BY BatchExists
<1>2. QED BY <1>1, BatchIsUnique

-----------------------------------------------------------------------------
(* The inductive invariant of the ledger                                   *)

\* Before the proposals are in nothing is noted.
Unstarted ==
  phase = "collecting_proposals" =>
    /\ current_round = 0 /\ raw_claim_ledger = {}
    /\ \A c \in Claim : retirement_pending[c] = NotPending /\ streak[c] = 0

\* A debate is in a round that was authorized.
RoundsGranted ==
  phase # "collecting_proposals" => current_round \in 1..authorized_rounds

\* A batch is retired on leaving the debate, so the next one is of a later round.
RetiredBefore ==
  \A r \in retired_claims :
    r.round < current_round \/ (phase = "collecting_synthesis" /\ r.round = current_round)

\* The verdicts under challenge are about active claims, and counted.
VerdictsFit ==
  phase = "collecting_convergence_challenge" =>
    \A c \in claim_ledger :
      /\ verdicts[c].of \in (claim_ledger \cup {NoClaim}) \ {c}
      /\ verdicts[c].says = "free" <=> streak[c] # 0

\* The last round all have answered.
LastClosed == IF phase = "collecting_exchange" THEN current_round - 1 ELSE current_round

\* What retirement_pending notes of an active claim is its streak: it names the last
\* closed round if the claim has one, and is confirmed if that is two rounds long.
StreaksNoted ==
  \A c \in claim_ledger :
    /\ retirement_pending[c].round <= LastClosed
    /\ streak[c] # 0 <=> LastClosed # 0 /\ retirement_pending[c].round = LastClosed
    /\ streak[c] # 0 => (retirement_pending[c].confirmed <=> streak[c] = 2)

LedgerInv ==
  LedgerSound /\ Unstarted /\ RoundsGranted /\ RetiredBefore /\ VerdictsFit /\ StreaksNoted

-----------------------------------------------------------------------------
(* The claims under challenge                                              *)

\* Of a claim under challenge: what it is a duplicate of is another active claim, and
\* it is a candidate exactly when it has earned it.
LEMMA UnderChallenge ==
  ASSUME LedgerInv, phase = "collecting_convergence_challenge", NEW c \in claim_ledger
  PROVE  /\ verdicts[c].says = "duplicate" => verdicts[c].of \in claim_ledger \ {c}
         /\ verdicts[c].says # "duplicate" => verdicts[c].of = NoClaim
         /\ c \in Candidates <=> HasEarned(c)
<1>1. c \in Claim /\ verdicts[c] \in Verdict
  BY DEF LedgerInv, LedgerSound, LedgerTypeOK
<1>2. /\ verdicts[c].of \in (claim_ledger \cup {NoClaim}) \ {c}
      /\ verdicts[c].says = "free" <=> streak[c] # 0
  BY DEF LedgerInv, VerdictsFit
<1>3. /\ verdicts[c].says = "duplicate" => verdicts[c].of \in Claim
      /\ verdicts[c].says # "duplicate" => verdicts[c].of = NoClaim
      /\ verdicts[c].says \in {"material", "free", "evidenced", "duplicate"}
  BY <1>1 DEF Verdict
<1>4. ASSUME verdicts[c].says = "free" PROVE Confirmed(c) <=> streak[c] = 2
  <2>1. streak[c] # 0
    BY <1>2, <1>4
  <2>2. /\ current_round # 0 /\ retirement_pending[c].round = current_round
        /\ retirement_pending[c].confirmed <=> streak[c] = 2
    BY <2>1 DEF LedgerInv, StreaksNoted, LastClosed
  <2>3. current_round \in Nat
    BY LedgerAssumption DEF LedgerInv, LedgerSound, LedgerTypeOK
  <2>4. QED BY <2>2, <2>3 DEF Confirmed
<1>5. QED
  <2>1. c \in Candidates <=> HasEarned(c)
    BY <1>3, <1>4 DEF Candidates, Unanimous, HasEarned
  <2>2. QED BY <2>1, <1>2, <1>3, ClaimIsPair

\* A batch takes only claims that have earned it and are not kept.
LEMMA BatchEarned ==
  ASSUME LedgerInv, phase = "collecting_convergence_challenge",
         NEW gone \in SUBSET claim_ledger, Retires(gone), NEW c \in gone
  PROVE  HasEarned(c) /\ ~Kept(c)
<1>1. /\ c \in Candidates \ Protected
      /\ verdicts[c].of \notin Unanimous("duplicate")
  BY DEF Retires
<1>2. HasEarned(c)
  BY <1>1, UnderChallenge
<1>3. ~Kept(c)
  <2>1. \A d \in claim_ledger : verdicts[d].says = "duplicate" => verdicts[d].of # c
    BY <1>1 DEF Protected, Unanimous
  <2>2. verdicts[c].says = "duplicate" => verdicts[verdicts[c].of].says # "duplicate"
    BY <1>1, UnderChallenge DEF Unanimous
  <2>3. QED BY <2>1, <2>2 DEF Kept
<1>4. QED BY <1>2, <1>3

\* What has earned it and stays is kept, or the rest would be no debate without it.
LEMMA EarnedGoes ==
  ASSUME LedgerInv, phase = "collecting_convergence_challenge",
         NEW gone \in SUBSET claim_ledger, Retires(gone),
         NEW c \in claim_ledger, HasEarned(c), c \notin gone, ~Kept(c)
  PROVE  ~Debatable((claim_ledger \ gone) \ {c})
<1> DEFINE before == {d \in gone : Earlier(d, c)}
<1>1. c \in Candidates
  BY UnderChallenge
<1>2. c \notin Protected
  BY DEF Kept, Protected, Unanimous
<1>3. verdicts[c].of \notin Unanimous("duplicate")
  <2>1. ASSUME verdicts[c].of \in Unanimous("duplicate") PROVE FALSE
    <3>1. verdicts[c].of \in claim_ledger /\ verdicts[verdicts[c].of].says = "duplicate"
      BY <2>1 DEF Unanimous
    <3>2. NoClaim \notin claim_ledger
      BY ClaimIsPair DEF LedgerInv, LedgerSound, LedgerTypeOK
    <3>3. verdicts[c].says = "duplicate"
      BY <3>1, <3>2, UnderChallenge
    <3>4. QED BY <3>1, <3>3 DEF Kept
  <2>2. QED BY <2>1
<1>4. verdicts[c].of \notin gone
  <2>1. ASSUME verdicts[c].of \in gone PROVE FALSE
    <3>1. NoClaim \notin gone
      BY ClaimIsPair DEF LedgerInv, LedgerSound, LedgerTypeOK
    <3>2. verdicts[c].says = "duplicate"
      BY <2>1, <3>1, UnderChallenge
    <3>3. verdicts[c].of \in Protected
      BY <3>2 DEF Protected, Unanimous
    <3>4. QED BY <2>1, <3>3 DEF Retires
  <2>2. QED BY <2>1
<1>5. ~Debatable(claim_ledger \ (before \cup {c}))
  BY <1>1, <1>2, <1>3, <1>4 DEF Retires
<1>6. (claim_ledger \ gone) \ {c} \subseteq claim_ledger \ (before \cup {c})
  OBVIOUS
<1>7. QED BY <1>5, <1>6, DebatableMonotone

-----------------------------------------------------------------------------
(* The invariant                                                           *)

\* What the parts of the invariant say of single variables and claims.
LEMMA LedgerFacts ==
  ASSUME LedgerInv
  PROVE  /\ {current_round, authorized_rounds, MaxRounds} \subseteq Nat
         /\ current_round <= MaxRounds /\ authorized_rounds <= MaxRounds
         /\ 0 < authorized_rounds
         /\ claim_ledger \subseteq Claim /\ parked_claims \subseteq Claim
         /\ retirement_pending \in [Claim -> [round : 0..MaxRounds, confirmed : BOOLEAN]]
         /\ verdicts \in [Claim -> Verdict]
         /\ streak \in [Claim -> 0..2]
         /\ \A c \in Claim : retirement_pending[c].round \in Nat /\ streak[c] \in 0..2
PROOF BY LedgerAssumption DEF LedgerInv, LedgerSound, LedgerTypeOK

LEMMA UnassessedType == Unassessed \in [Claim -> Verdict]
PROOF BY DEF Unassessed, Material, Verdict

LEMMA LedgerStarts ==
  ASSUME LedgerInit
  PROVE  LedgerInv
<1> USE LedgerAssumption DEF LedgerInit
<1>1. LedgerTypeOK
  <2>1. NotPending \in [round : 0..MaxRounds, confirmed : BOOLEAN]
    BY DEF NotPending
  <2>2. retirement_pending \in [Claim -> [round : 0..MaxRounds, confirmed : BOOLEAN]]
    BY <2>1
  <2>3. streak \in [Claim -> 0..2] /\ verdicts \in [Claim -> Verdict]
    BY UnassessedType
  <2>4. /\ raw_claim_ledger \subseteq Claim /\ claim_ledger \subseteq raw_claim_ledger
        /\ parked_claims \subseteq raw_claim_ledger
        /\ retired_claims \subseteq [claim : raw_claim_ledger, round : 1..MaxRounds,
                                    duplicate_of : raw_claim_ledger \cup {NoClaim}]
    OBVIOUS
  <2>5. /\ phase = "collecting_proposals" /\ last_material_challenge_context = FALSE
        /\ current_round = 0 /\ authorized_rounds \in 1..MaxRounds /\ MaxRounds \in Nat
    OBVIOUS
  <2>6. current_round \in 0..MaxRounds
    BY <2>5
  <2>7. last_material_challenge_context \in BOOLEAN
    BY <2>5, Zenon
  <2>8. QED BY <2>2, <2>3, <2>4, <2>5, <2>6, <2>7, Zenon DEF LedgerTypeOK
<1>2. Conserved /\ DuplicatesLead
  BY DEF Conserved, RetiredClaims, DuplicatesLead
<1>3. LedgerSound
  BY <1>1, <1>2 DEF LedgerSound
<1>4. Unstarted /\ RoundsGranted /\ RetiredBefore /\ VerdictsFit
  BY DEF Unstarted, RoundsGranted, RetiredBefore, VerdictsFit
<1>5. StreaksNoted
  BY DEF StreaksNoted
<1>6. QED BY <1>3, <1>4, <1>5 DEF LedgerInv

LEMMA BuildKeepsInv ==
  ASSUME LedgerInv, BuildLedger
  PROVE  LedgerInv'
<1> USE LedgerAssumption
<1>0. PICK size \in 2..N, ceiling \in 2..MaxRaw :
        \E contributed \in [1..size -> 1..MaxClaims] :
          /\ raw_claim_ledger' = {c \in (1..size) \X (1..MaxClaims) : c[2] <= contributed[c[1]]}
          /\ claim_ledger' = Allocated(raw_claim_ledger', ceiling)
          /\ parked_claims' = raw_claim_ledger' \ claim_ledger'
  BY DEF BuildLedger
<1>1. PICK contributed \in [1..size -> 1..MaxClaims] :
        /\ raw_claim_ledger' = {c \in (1..size) \X (1..MaxClaims) : c[2] <= contributed[c[1]]}
        /\ claim_ledger' = Allocated(raw_claim_ledger', ceiling)
        /\ parked_claims' = raw_claim_ledger' \ claim_ledger'
  BY <1>0
<1>2. raw_claim_ledger' \subseteq Claim
  BY <1>1 DEF Claim
<1>3. Debatable(claim_ledger)'
  <2>1. 1 \in 1..size /\ 2 \in 1..size /\ 1 \in 1..MaxClaims
    OBVIOUS
  <2>2. contributed[1] >= 1 /\ contributed[2] >= 1
    BY <2>1
  <2>3. <<1, 1>> \in raw_claim_ledger' /\ <<2, 1>> \in raw_claim_ledger'
    BY <1>1, <2>1, <2>2
  <2>4. Debatable(Allocated(raw_claim_ledger', ceiling))
    BY <1>2, <2>3, AllocatedDebatable
  <2>5. Debatable(claim_ledger')
    BY <1>1, <2>4
  <2>6. QED BY <2>5 DEF Debatable
<1>4. claim_ledger' \subseteq raw_claim_ledger'
  BY <1>1 DEF Allocated
<1>5. /\ phase = "collecting_proposals"
      /\ phase' = "collecting_exchange" /\ current_round' = 1
      /\ authorized_rounds' = authorized_rounds
      /\ UNCHANGED <<retired_claims, retirement_pending, last_material_challenge_context,
                     verdicts, streak>>
  BY DEF BuildLedger
<1>6. retired_claims = {} /\ retired_claims' = {}
  <2>1. raw_claim_ledger = {}
    BY <1>5 DEF LedgerInv, Unstarted
  <2>2. retired_claims \subseteq [claim : {}, round : 1..MaxRounds, duplicate_of : {NoClaim}]
    BY <2>1 DEF LedgerInv, LedgerSound, LedgerTypeOK
  <2>3. QED BY <2>2, <1>5
<1>7. LedgerTypeOK'
  BY <1>1, <1>2, <1>4, <1>5, <1>6 DEF LedgerInv, LedgerSound, LedgerTypeOK
<1>8. Conserved'
  BY <1>1, <1>4, <1>6 DEF Conserved, RetiredClaims
<1>9. DuplicatesLead'
  BY <1>6 DEF DuplicatesLead
<1>10. Unstarted' /\ VerdictsFit' /\ RetiredBefore'
  BY <1>5, <1>6 DEF Unstarted, VerdictsFit, RetiredBefore
<1>11. RoundsGranted'
  BY <1>5, LedgerFacts DEF RoundsGranted
<1>12. StreaksNoted'
  <2>1. LastClosed' = 0
    BY <1>5 DEF LastClosed
  <2>2. \A c \in claim_ledger' : retirement_pending'[c] = NotPending /\ streak'[c] = 0
    BY <1>2, <1>4, <1>5 DEF LedgerInv, Unstarted
  <2>3. QED BY <2>1, <2>2 DEF StreaksNoted, NotPending
<1>13. LedgerSound'
  BY <1>3, <1>7, <1>8, <1>9 DEF LedgerSound
<1>14. QED BY <1>10, <1>11, <1>12, <1>13 DEF LedgerInv

\* What the round that closes says of an active claim and what is noted of it.
LEMMA RoundNoted ==
  ASSUME LedgerInv, phase = "collecting_exchange",
         NEW choice \in Assessments, NEW said, said = Assessed(choice),
         NEW c \in claim_ledger
  PROVE  /\ said[c] \in Verdict
         /\ said[c].of \in (claim_ledger \cup {NoClaim}) \ {c}
         /\ said[c].says = "free" <=> InARow(said)[c] # 0
         /\ Noted(said)[c].round <= current_round
         /\ InARow(said)[c] # 0 <=> Noted(said)[c].round = current_round
         /\ InARow(said)[c] # 0 => (Noted(said)[c].confirmed <=> InARow(said)[c] = 2)
<1> USE LedgerAssumption
<1>1. c \in Claim
  BY LedgerFacts
<1>2. /\ choice[c] \in Verdict /\ choice[c].of \in claim_ledger \cup {NoClaim}
      /\ choice[c].of # c
  BY DEF Assessments
<1>3. said[c] = choice[c]
  BY <1>1 DEF Assessed
<1>4. InARow(said)[c] = IF said[c].says # "free" THEN 0 ELSE IF streak[c] = 0 THEN 1 ELSE 2
  BY <1>1 DEF InARow
<1>5. /\ current_round \in Nat /\ current_round >= 1
      /\ retirement_pending[c].round \in Nat
      /\ retirement_pending[c].round <= current_round - 1
      /\ streak[c] # 0 <=> /\ current_round - 1 # 0
                          /\ retirement_pending[c].round = current_round - 1
  <2>1. LastClosed = current_round - 1
    BY DEF LastClosed
  <2>2. current_round \in 1..authorized_rounds
    BY DEF LedgerInv, RoundsGranted
  <2>3. QED BY <1>1, <2>1, <2>2, LedgerFacts DEF LedgerInv, StreaksNoted
<1>6. Confirmed(c) <=> streak[c] # 0
  BY <1>5 DEF Confirmed
<1>7. CASE said[c].says = "material"
  <2>1. Noted(said)[c] = NotPending
    BY <1>1, <1>7 DEF Noted
  <2>2. QED BY <1>2, <1>3, <1>4, <1>5, <1>7, <2>1 DEF NotPending
<1>8. CASE said[c].says = "free"
  <2>1. Noted(said)[c] = [round |-> current_round, confirmed |-> Confirmed(c)]
    BY <1>1, <1>8 DEF Noted
  <2>2. Noted(said)[c].round = current_round /\ (Noted(said)[c].confirmed <=> Confirmed(c))
    BY <2>1
  <2>3. QED BY <1>2, <1>3, <1>4, <1>5, <1>6, <1>8, <2>2
<1>9. CASE said[c].says \notin {"material", "free"}
  <2>1. Noted(said)[c] = retirement_pending[c]
    BY <1>1, <1>9 DEF Noted
  <2>2. QED BY <1>2, <1>3, <1>4, <1>5, <1>9, <2>1
<1>10. QED BY <1>7, <1>8, <1>9

\* What is noted keeps its type.
LEMMA NotedType ==
  ASSUME LedgerInv, NEW said \in [Claim -> Verdict]
  PROVE  /\ Noted(said) \in [Claim -> [round : 0..MaxRounds, confirmed : BOOLEAN]]
         /\ InARow(said) \in [Claim -> 0..2]
<1>1. \A c \in Claim : Confirmed(c) \in BOOLEAN
  BY LedgerFacts DEF Confirmed
<1>2. \A c \in Claim : Noted(said)[c] \in [round : 0..MaxRounds, confirmed : BOOLEAN]
  BY <1>1, LedgerFacts DEF Noted, NotPending
<1>3. Noted(said) = [c \in Claim |-> Noted(said)[c]]
  BY DEF Noted
<1>4. Noted(said) \in [Claim -> [round : 0..MaxRounds, confirmed : BOOLEAN]]
  BY <1>2, <1>3
<1>5. QED BY <1>4 DEF InARow

LEMMA CloseKeepsInv ==
  ASSUME LedgerInv, CloseExchange
  PROVE  LedgerInv'
<1> USE LedgerAssumption
<1>1. PICK choice \in Assessments :
        /\ retirement_pending' = Noted(Assessed(choice))
        /\ streak' = InARow(Assessed(choice))
        /\ \/ /\ phase' = "collecting_convergence_challenge" /\ current_round' = current_round
              /\ verdicts' = Assessed(choice)
           \/ current_round < authorized_rounds /\ OpenExchange /\ verdicts' = Unassessed
  BY DEF CloseExchange
<1> DEFINE said == Assessed(choice)
<1>2. /\ phase = "collecting_exchange"
      /\ UNCHANGED <<authorized_rounds, raw_claim_ledger, claim_ledger, parked_claims,
                     retired_claims, last_material_challenge_context>>
  BY DEF CloseExchange
<1>3. said \in [Claim -> Verdict]
  BY DEF Assessed, Assessments, Material, Verdict
<1>4. /\ retirement_pending' = Noted(said) /\ streak' = InARow(said)
      /\ phase' \in {"collecting_convergence_challenge", "collecting_exchange"}
      /\ verdicts' \in {said, Unassessed}
      /\ phase' = "collecting_convergence_challenge" => verdicts' = said
      /\ current_round' \in Nat /\ 1 <= current_round' /\ current_round' <= authorized_rounds
      /\ current_round <= current_round'
      /\ LastClosed' = current_round
  <2>1. current_round \in 1..authorized_rounds
    BY <1>2 DEF LedgerInv, RoundsGranted
  <2>2. QED BY <1>1, <2>1, LedgerFacts DEF OpenExchange, LastClosed
<1> HIDE DEF said
<1>5. LedgerTypeOK'
  <2>1. verdicts' \in [Claim -> Verdict]
    BY <1>3, <1>4, UnassessedType
  <2>2. /\ retirement_pending' \in [Claim -> [round : 0..MaxRounds, confirmed : BOOLEAN]]
        /\ streak' \in [Claim -> 0..2]
    BY <1>3, <1>4, NotedType
  <2>3. current_round' \in 0..MaxRounds
    BY <1>4, LedgerFacts
  <2>4. QED BY <1>2, <1>4, <2>1, <2>2, <2>3 DEF LedgerInv, LedgerSound, LedgerTypeOK
<1>6. LedgerSound'
  <2>1. Conserved' /\ DuplicatesLead'
    BY <1>2 DEF LedgerInv, LedgerSound, Conserved, RetiredClaims, DuplicatesLead
  <2>2. Debatable(claim_ledger)'
    BY <1>2 DEF LedgerInv, LedgerSound, Debatable
  <2>3. QED BY <1>5, <2>1, <2>2 DEF LedgerSound
<1>7. Unstarted' /\ RoundsGranted'
  BY <1>2, <1>4, LedgerFacts DEF Unstarted, RoundsGranted
<1>8. RetiredBefore'
  <2>1. \A r \in retired_claims : r.round < current_round /\ r.round \in Nat
    BY <1>2 DEF LedgerInv, LedgerSound, LedgerTypeOK, RetiredBefore
  <2>2. QED BY <1>2, <1>4, <2>1, LedgerFacts DEF RetiredBefore
<1>9. \A c \in claim_ledger :
        /\ said[c] \in Verdict
        /\ said[c].of \in (claim_ledger \cup {NoClaim}) \ {c}
        /\ said[c].says = "free" <=> streak'[c] # 0
        /\ retirement_pending'[c].round <= current_round
        /\ streak'[c] # 0 <=> retirement_pending'[c].round = current_round
        /\ streak'[c] # 0 => (retirement_pending'[c].confirmed <=> streak'[c] = 2)
  BY <1>2, <1>4, RoundNoted DEF said
<1>10. VerdictsFit'
  BY <1>2, <1>4, <1>9 DEF VerdictsFit
<1>11. StreaksNoted'
  <2>1. current_round # 0
    BY <1>2 DEF LedgerInv, RoundsGranted
  <2>2. QED BY <1>2, <1>4, <1>9, <2>1 DEF StreaksNoted
<1>12. QED BY <1>6, <1>7, <1>8, <1>10, <1>11 DEF LedgerInv

LEMMA MaterialKeepsInv ==
  ASSUME LedgerInv, ChallengeMaterial
  PROVE  LedgerInv'
<1> USE LedgerAssumption
<1>1. /\ phase = "collecting_convergence_challenge"
      /\ last_material_challenge_context' = TRUE
      /\ verdicts' = Unassessed
      /\ UNCHANGED <<authorized_rounds, raw_claim_ledger, claim_ledger, parked_claims,
                     retired_claims, retirement_pending, streak>>
  BY DEF ChallengeMaterial
<1>2. /\ phase' \in {"collecting_exchange", "collecting_synthesis"}
      /\ current_round' \in Nat /\ 1 <= current_round' /\ current_round' <= authorized_rounds
      /\ current_round <= current_round'
      /\ LastClosed' = LastClosed /\ LastClosed = current_round
  <2>1. current_round \in 1..authorized_rounds
    BY <1>1 DEF LedgerInv, RoundsGranted
  <2>2. CASE current_round < authorized_rounds
    BY <1>1, <2>1, <2>2, LedgerFacts DEF ChallengeMaterial, OpenExchange, LastClosed
  <2>3. CASE ~(current_round < authorized_rounds)
    BY <1>1, <2>1, <2>3, LedgerFacts DEF ChallengeMaterial, ToSynthesis, LastClosed
  <2>4. QED BY <2>2, <2>3
<1>3. LedgerTypeOK'
  <2>1. current_round' \in 0..MaxRounds
    BY <1>2, LedgerFacts
  <2>2. QED BY <1>1, <1>2, <2>1, UnassessedType DEF LedgerInv, LedgerSound, LedgerTypeOK
<1>4. LedgerSound'
  <2>1. Conserved' /\ DuplicatesLead'
    BY <1>1 DEF LedgerInv, LedgerSound, Conserved, RetiredClaims, DuplicatesLead
  <2>2. Debatable(claim_ledger)'
    BY <1>1 DEF LedgerInv, LedgerSound, Debatable
  <2>3. QED BY <1>3, <2>1, <2>2 DEF LedgerSound
<1>5. Unstarted' /\ RoundsGranted' /\ VerdictsFit'
  BY <1>1, <1>2, LedgerFacts DEF Unstarted, RoundsGranted, VerdictsFit
<1>6. RetiredBefore'
  <2>1. \A r \in retired_claims : r.round < current_round /\ r.round \in Nat
    BY <1>1 DEF LedgerInv, LedgerSound, LedgerTypeOK, RetiredBefore
  <2>2. QED BY <1>1, <1>2, <2>1, LedgerFacts DEF RetiredBefore
<1>7. StreaksNoted'
  BY <1>1, <1>2 DEF LedgerInv, StreaksNoted
<1>8. QED BY <1>4, <1>5, <1>6, <1>7 DEF LedgerInv

LEMMA ExtendKeepsInv ==
  ASSUME LedgerInv, ExtendRounds
  PROVE  LedgerInv'
<1> USE LedgerAssumption
<1>1. /\ phase \in {"collecting_exchange", "collecting_synthesis"}
      /\ UNCHANGED <<raw_claim_ledger, claim_ledger, parked_claims, retired_claims,
                     retirement_pending, last_material_challenge_context, verdicts, streak>>
      /\ authorized_rounds' \in 1..MaxRounds /\ authorized_rounds < authorized_rounds'
  BY LedgerFacts DEF ExtendRounds
<1>2. /\ phase' = "collecting_exchange"
      /\ current_round' \in Nat /\ 1 <= current_round' /\ current_round' <= authorized_rounds'
      /\ LastClosed' = LastClosed /\ LastClosed = current_round' - 1
      /\ phase = "collecting_exchange" => current_round' = current_round
      /\ phase = "collecting_synthesis" => current_round' = current_round + 1
  <2>1. current_round \in 1..authorized_rounds
    BY <1>1 DEF LedgerInv, RoundsGranted
  <2>2. CASE phase = "collecting_synthesis"
    BY <1>1, <2>1, <2>2, LedgerFacts DEF ExtendRounds, OpenExchange, LastClosed
  <2>3. CASE phase = "collecting_exchange"
    BY <1>1, <2>1, <2>3, LedgerFacts DEF ExtendRounds, LastClosed
  <2>4. QED BY <1>1, <2>2, <2>3
<1>3. LedgerTypeOK'
  <2>1. current_round' \in 0..MaxRounds
    BY <1>1, <1>2, LedgerFacts
  <2>2. QED BY <1>1, <1>2, <2>1 DEF LedgerInv, LedgerSound, LedgerTypeOK
<1>4. LedgerSound'
  <2>1. Conserved' /\ DuplicatesLead'
    BY <1>1 DEF LedgerInv, LedgerSound, Conserved, RetiredClaims, DuplicatesLead
  <2>2. Debatable(claim_ledger)'
    BY <1>1 DEF LedgerInv, LedgerSound, Debatable
  <2>3. QED BY <1>3, <2>1, <2>2 DEF LedgerSound
<1>5. Unstarted' /\ RoundsGranted' /\ VerdictsFit'
  BY <1>1, <1>2 DEF Unstarted, RoundsGranted, VerdictsFit
<1>6. RetiredBefore'
  <2>1. \A r \in retired_claims : r.round \in Nat
    BY DEF LedgerInv, LedgerSound, LedgerTypeOK
  <2>2. \A r \in retired_claims :
          r.round < current_round \/ (phase = "collecting_synthesis" /\ r.round = current_round)
    BY DEF LedgerInv, RetiredBefore
  <2>3. \A r \in retired_claims : r.round < current_round'
    BY <1>1, <1>2, <2>1, <2>2, LedgerFacts
  <2>4. QED BY <1>1, <2>3 DEF RetiredBefore
<1>7. StreaksNoted'
  BY <1>1, <1>2 DEF LedgerInv, StreaksNoted
<1>8. QED BY <1>4, <1>5, <1>6, <1>7 DEF LedgerInv

\* What a passed challenge leaves noted of a claim that stays is what was noted.
LEMMA NotedStays ==
  ASSUME LedgerInv, phase = "collecting_convergence_challenge",
         NEW c \in claim_ledger, c \notin Candidates
  PROVE  \/ Noted(verdicts)[c] = retirement_pending[c]
         \/ Noted(verdicts)[c] = NotPending /\ streak[c] = 0
         \/ /\ Noted(verdicts)[c] = [round |-> current_round, confirmed |-> FALSE]
            /\ streak[c] = 1
<1> USE LedgerAssumption
<1>1. c \in Claim /\ streak[c] \in 0..2
  BY LedgerFacts
<1>2. verdicts[c].says = "free" <=> streak[c] # 0
  BY DEF LedgerInv, VerdictsFit
<1>3. CASE verdicts[c].says = "material"
  BY <1>1, <1>2, <1>3 DEF Noted
<1>4. CASE verdicts[c].says = "free"
  <2>1. Noted(verdicts)[c] = [round |-> current_round, confirmed |-> Confirmed(c)]
    BY <1>1, <1>4 DEF Noted
  <2>2. Confirmed(c) = FALSE
    BY <1>4 DEF Candidates, Unanimous, Confirmed
  <2>3. streak[c] # 2
    BY <1>4, UnderChallenge DEF HasEarned
  <2>4. streak[c] = 1
    BY <1>1, <1>2, <1>4, <2>3
  <2>5. Noted(verdicts)[c] = [round |-> current_round, confirmed |-> FALSE]
    BY <2>1, <2>2
  <2>6. QED BY <2>4, <2>5
<1>5. CASE verdicts[c].says # "material" /\ verdicts[c].says # "free"
  BY <1>1, <1>5 DEF Noted
<1>6. QED BY <1>3, <1>4, <1>5

\* A batch moves its claims from the active to the retired ones.
LEMMA BatchConserves ==
  ASSUME LedgerInv, phase = "collecting_convergence_challenge",
         NEW gone \in SUBSET claim_ledger, Retires(gone),
         retired_claims' = retired_claims \cup {RetiredEntry(c) : c \in gone},
         claim_ledger' = claim_ledger \ gone,
         UNCHANGED <<raw_claim_ledger, parked_claims>>
  PROVE  Conserved' /\ DuplicatesLead'
<1> DEFINE added == {RetiredEntry(c) : c \in gone}
<1>1. /\ \A r \in added : /\ r.claim \in gone /\ r.round = current_round
                          /\ r.duplicate_of = verdicts[r.claim].of
                          /\ r = RetiredEntry(r.claim)
      /\ \A c \in gone : RetiredEntry(c) \in added /\ RetiredEntry(c).claim = c
      /\ \A c \in gone : RetiredEntry(c).round = current_round
  BY DEF RetiredEntry
<1>2. retired_claims' = retired_claims \cup added
  OBVIOUS
<1> HIDE DEF added
<1>3. /\ claim_ledger \cup parked_claims \cup RetiredClaims = raw_claim_ledger
      /\ claim_ledger \cap parked_claims = {}
      /\ RetiredClaims \cap (claim_ledger \cup parked_claims) = {}
      /\ \A r, s \in retired_claims : r.claim = s.claim => r = s
  BY DEF LedgerInv, LedgerSound, Conserved
<1>4. RetiredClaims' = RetiredClaims \cup gone
  BY <1>1, <1>2 DEF RetiredClaims
<1>5. \A r, s \in retired_claims' : r.claim = s.claim => r = s
  <2>1. \A r \in retired_claims : r.claim \notin gone
    BY <1>3 DEF RetiredClaims
  <2>2. ASSUME NEW r \in retired_claims', NEW s \in retired_claims', r.claim = s.claim
        PROVE  r = s
    <3>1. CASE r \in retired_claims /\ s \in retired_claims
      BY <1>3, <2>2, <3>1
    <3>2. CASE r \in added /\ s \in added
      BY <1>1, <2>2, <3>2
    <3>3. QED BY <1>1, <1>2, <2>1, <2>2, <3>1, <3>2
  <2>3. QED BY <2>2
<1>6. Conserved'
  <2>1. /\ claim_ledger' \cup parked_claims' \cup RetiredClaims' = raw_claim_ledger'
        /\ claim_ledger' \cap parked_claims' = {}
        /\ RetiredClaims' \cap (claim_ledger' \cup parked_claims') = {}
    BY <1>3, <1>4
  <2>2. QED BY <1>5, <2>1 DEF Conserved
<1>7. ASSUME NEW r \in retired_claims', r.duplicate_of # NoClaim
      PROVE  \/ r.duplicate_of \in claim_ledger'
             \/ \E s \in retired_claims' : s.claim = r.duplicate_of /\ s.round > r.round
  <2>1. CASE r \in added
    <3>1. r.claim \in gone /\ r.duplicate_of = verdicts[r.claim].of
      BY <1>1, <2>1
    <3>2. r.claim \in claim_ledger /\ verdicts[r.claim].of # NoClaim
      BY <1>7, <3>1
    <3>3. verdicts[r.claim].says = "duplicate" /\ verdicts[r.claim].of \in claim_ledger
      BY <3>2, UnderChallenge
    <3>4. verdicts[r.claim].of \in Protected
      BY <3>2, <3>3 DEF Protected, Unanimous
    <3>5. verdicts[r.claim].of \notin gone
      BY <3>4 DEF Retires
    <3>6. QED BY <3>1, <3>3, <3>5
  <2>2. CASE r \in retired_claims
    <3>1. r.round \in Nat /\ current_round \in Nat /\ r.round < current_round
      BY <2>2, LedgerFacts, LedgerAssumption
         DEF LedgerInv, RetiredBefore, LedgerSound, LedgerTypeOK
    <3>2. CASE r.duplicate_of \in claim_ledger
      <4>1. CASE r.duplicate_of \in gone
        <5>1. RetiredEntry(r.duplicate_of) \in retired_claims'
          BY <1>1, <1>2, <4>1
        <5>2. /\ RetiredEntry(r.duplicate_of).claim = r.duplicate_of
              /\ RetiredEntry(r.duplicate_of).round = current_round
          BY <1>1, <4>1
        <5>3. RetiredEntry(r.duplicate_of).round > r.round
          BY <3>1, <5>2
        <5>4. QED BY <5>1, <5>2, <5>3
      <4>2. QED BY <3>2, <4>1
    <3>3. CASE \E s \in retired_claims : s.claim = r.duplicate_of /\ s.round > r.round
      BY <1>2, <3>3
    <3>4. QED BY <1>7, <2>2, <3>2, <3>3 DEF LedgerInv, LedgerSound, DuplicatesLead
  <2>3. QED BY <1>2, <2>1, <2>2
<1>8. DuplicatesLead'
  BY <1>7 DEF DuplicatesLead
<1>9. QED BY <1>6, <1>8

LEMMA PassedKeepsInv ==
  ASSUME LedgerInv, ChallengePassed
  PROVE  LedgerInv'
<1> USE LedgerAssumption
<1>1. PICK gone \in SUBSET claim_ledger :
        /\ Retires(gone)
        /\ retired_claims' = retired_claims \cup {RetiredEntry(c) : c \in gone}
        /\ claim_ledger' = claim_ledger \ gone
        /\ retirement_pending' = [c \in Claim |->
             IF c \in gone THEN NotPending
             ELSE IF c \in Candidates THEN retirement_pending[c] ELSE Noted(verdicts)[c]]
  BY DEF ChallengePassed, CommitRetirements
<1>2. /\ phase = "collecting_convergence_challenge"
      /\ phase' = "collecting_synthesis" /\ current_round' = current_round
      /\ last_material_challenge_context' = FALSE
      /\ verdicts' = Unassessed
      /\ UNCHANGED <<authorized_rounds, raw_claim_ledger, parked_claims, streak>>
  BY DEF ChallengePassed, ToSynthesis
<1>3. current_round \in 1..authorized_rounds /\ current_round \in 1..MaxRounds
  BY <1>2, LedgerFacts DEF LedgerInv, RoundsGranted
<1>4. claim_ledger \subseteq Claim /\ gone \subseteq Claim
  BY LedgerFacts
<1>5. LedgerTypeOK'
  <2>1. retirement_pending' \in [Claim -> [round : 0..MaxRounds, confirmed : BOOLEAN]]
    <3>1. NotPending \in [round : 0..MaxRounds, confirmed : BOOLEAN]
      BY DEF NotPending
    <3>2. Noted(verdicts) \in [Claim -> [round : 0..MaxRounds, confirmed : BOOLEAN]]
      BY NotedType, LedgerFacts
    <3>3. QED BY <1>1, <3>1, <3>2, LedgerFacts
  <2>2. \A c \in gone : RetiredEntry(c) \in [claim : raw_claim_ledger, round : 1..MaxRounds,
                                             duplicate_of : raw_claim_ledger \cup {NoClaim}]
    <3>1. claim_ledger \subseteq raw_claim_ledger
      BY DEF LedgerInv, LedgerSound, LedgerTypeOK
    <3>2. \A c \in gone : verdicts[c].of \in claim_ledger \cup {NoClaim}
      BY <1>2 DEF LedgerInv, VerdictsFit
    <3>3. QED BY <1>3, <3>1, <3>2 DEF RetiredEntry
  <2>3. retired_claims' \subseteq [claim : raw_claim_ledger, round : 1..MaxRounds,
                                   duplicate_of : raw_claim_ledger \cup {NoClaim}]
    BY <1>1, <2>2 DEF LedgerInv, LedgerSound, LedgerTypeOK
  <2>4. QED BY <1>1, <1>2, <2>1, <2>3, UnassessedType DEF LedgerInv, LedgerSound, LedgerTypeOK
<1>6. LedgerSound'
  <2>1. Conserved' /\ DuplicatesLead'
    BY <1>1, <1>2, BatchConserves
  <2>2. Debatable(claim_ledger \ gone)
    BY <1>1, <1>2, <1>4, BatchLeavesDebate DEF LedgerInv, LedgerSound
  <2>3. Debatable(claim_ledger)'
    BY <1>1, <2>2 DEF Debatable
  <2>4. QED BY <1>5, <2>1, <2>3 DEF LedgerSound
<1>7. Unstarted' /\ RoundsGranted' /\ VerdictsFit'
  BY <1>2, <1>3 DEF Unstarted, RoundsGranted, VerdictsFit
<1>8. RetiredBefore'
  <2>1. \A r \in retired_claims : r.round < current_round
    BY <1>2 DEF LedgerInv, RetiredBefore
  <2>2. \A c \in gone : RetiredEntry(c).round = current_round
    BY DEF RetiredEntry
  <2>3. QED BY <1>1, <1>2, <2>1, <2>2 DEF RetiredBefore
<1>9. ASSUME NEW c \in claim_ledger \ gone
      PROVE  /\ retirement_pending'[c].round <= current_round
             /\ streak[c] # 0 <=> retirement_pending'[c].round = current_round
             /\ streak[c] # 0 => (retirement_pending'[c].confirmed <=> streak[c] = 2)
  <2>1. /\ retirement_pending[c].round <= current_round
        /\ streak[c] # 0 <=> retirement_pending[c].round = current_round
        /\ streak[c] # 0 => (retirement_pending[c].confirmed <=> streak[c] = 2)
    BY <1>2, <1>3 DEF LedgerInv, StreaksNoted, LastClosed
  <2>2. retirement_pending'[c] =
          IF c \in Candidates THEN retirement_pending[c] ELSE Noted(verdicts)[c]
    BY <1>1, <1>4
  <2>3. CASE retirement_pending'[c] = retirement_pending[c]
    BY <2>1, <2>3
  <2>4. CASE retirement_pending'[c] = NotPending /\ streak[c] = 0
    BY <1>3, <2>4 DEF NotPending
  <2>5. CASE /\ retirement_pending'[c] = [round |-> current_round, confirmed |-> FALSE]
             /\ streak[c] = 1
    BY <1>3, <2>5
  <2>6. QED BY <1>2, <2>2, <2>3, <2>4, <2>5, NotedStays
<1>10. StreaksNoted'
  <2>1. LastClosed' = current_round /\ current_round # 0
    BY <1>2, <1>3 DEF LastClosed
  <2>2. streak' = streak /\ claim_ledger' = claim_ledger \ gone
    BY <1>1, <1>2
  <2>3. QED BY <1>9, <2>1, <2>2 DEF StreaksNoted
<1>11. QED BY <1>6, <1>7, <1>8, <1>10 DEF LedgerInv

LEMMA LedgerStutters ==
  ASSUME LedgerInv, UNCHANGED ledgerVars
  PROVE  LedgerInv'
<1>1. LedgerTypeOK'
  BY DEF ledgerVars, LedgerInv, LedgerSound, LedgerTypeOK
<1>2. Conserved' /\ DuplicatesLead'
  BY DEF ledgerVars, LedgerInv, LedgerSound, Conserved, RetiredClaims, DuplicatesLead
<1>3. LedgerSound'
  BY <1>1, <1>2 DEF ledgerVars, LedgerInv, LedgerSound, Debatable
<1>4. Unstarted' /\ RoundsGranted' /\ RetiredBefore' /\ VerdictsFit'
  BY DEF ledgerVars, LedgerInv, Unstarted, RoundsGranted, RetiredBefore, VerdictsFit
<1>5. StreaksNoted'
  BY DEF ledgerVars, LedgerInv, StreaksNoted, LastClosed
<1>6. QED BY <1>3, <1>4, <1>5 DEF LedgerInv

-----------------------------------------------------------------------------
(* What holds of the ledger                                                *)

\* In every reachable state the notes of the retirements agree with what was said in
\* the rounds that have closed, besides LedgerSound.
THEOREM LedgerInvariant == LedgerSpec => []LedgerInv
<1>1. LedgerInit => LedgerInv
  BY LedgerStarts
<1>2. LedgerInv /\ [LedgerNext]_ledgerVars => LedgerInv'
  <2> SUFFICES ASSUME LedgerInv, [LedgerNext]_ledgerVars PROVE LedgerInv'
    OBVIOUS
  <2>1. CASE BuildLedger
    BY <2>1, BuildKeepsInv
  <2>2. CASE CloseExchange
    BY <2>2, CloseKeepsInv
  <2>3. CASE ChallengeMaterial
    BY <2>3, MaterialKeepsInv
  <2>4. CASE ChallengePassed
    BY <2>4, PassedKeepsInv
  <2>5. CASE ExtendRounds
    BY <2>5, ExtendKeepsInv
  <2>6. CASE UNCHANGED ledgerVars
    BY <2>6, LedgerStutters
  <2>7. QED BY <2>1, <2>2, <2>3, <2>4, <2>5, <2>6 DEF LedgerNext
<1>3. QED BY <1>1, <1>2, PTL DEF LedgerSpec

\* For a dyad and a triad, any claims, any ceiling and any verdicts, over any number
\* of rounds: no claim is lost or counted twice, a duplicate leads to what it
\* duplicates, and every participant finds a claim of a peer to answer to.
THEOREM LedgerAlwaysSound == LedgerSpec => []LedgerSound
<1>1. LedgerInv => LedgerSound
  BY DEF LedgerInv
<1>2. QED BY <1>1, LedgerInvariant, PTL

\* Exactly the claims that earned it leave the ledger, when a challenge of the round
\* passes, but for those that are kept or without which there would be no debate.
THEOREM RetirementAlwaysEarned == LedgerSpec => RetirementEarned
<1> DEFINE leaving == claim_ledger \ claim_ledger'
           passed == /\ phase = "collecting_convergence_challenge"
                     /\ phase' = "collecting_synthesis"
                     /\ ~last_material_challenge_context'
           A == /\ \A c \in leaving : passed /\ HasEarned(c) /\ ~Kept(c)
                /\ passed => \A c \in claim_ledger : HasEarned(c) =>
                     c \in leaving \/ Kept(c) \/ ~Debatable(claim_ledger' \ {c})
<1>1. ASSUME LedgerInv, [LedgerNext]_ledgerVars PROVE [A]_ledgerVars
  <2>1. CASE UNCHANGED ledgerVars
    BY <2>1
  <2>2. CASE BuildLedger
    <3>1. leaving = {} /\ ~passed
      BY <1>1, <2>2 DEF BuildLedger, LedgerInv, LedgerSound, LedgerTypeOK, Unstarted
    <3> HIDE DEF leaving, passed
    <3>2. QED BY <3>1
  <2>3. CASE CloseExchange \/ ExtendRounds
    <3>1. leaving = {} /\ ~passed
      BY <2>3 DEF CloseExchange, ExtendRounds
    <3> HIDE DEF leaving, passed
    <3>2. QED BY <3>1
  <2>4. CASE ChallengeMaterial
    <3>1. leaving = {} /\ ~passed
      BY <2>4 DEF ChallengeMaterial
    <3> HIDE DEF leaving, passed
    <3>2. QED BY <3>1
  <2>5. CASE ChallengePassed
    <3>1. passed
      BY <2>5 DEF ChallengePassed, ToSynthesis
    <3>2. PICK gone \in SUBSET claim_ledger :
            Retires(gone) /\ claim_ledger' = claim_ledger \ gone
      BY <2>5 DEF ChallengePassed, CommitRetirements
    <3>3. leaving = gone
      BY <3>2
    <3>4. phase = "collecting_convergence_challenge"
      BY <3>1
    <3> HIDE DEF leaving, passed
    <3>5. \A c \in leaving : HasEarned(c) /\ ~Kept(c)
      BY <1>1, <3>2, <3>3, <3>4, BatchEarned
    <3>6. ASSUME NEW c \in claim_ledger, HasEarned(c), c \notin leaving, ~Kept(c)
          PROVE  ~Debatable(claim_ledger' \ {c})
      <4>1. ~Debatable((claim_ledger \ gone) \ {c})
        BY <1>1, <3>2, <3>3, <3>4, <3>6, EarnedGoes
      <4>2. QED BY <3>2, <4>1
    <3>7. QED BY <3>1, <3>5, <3>6
  <2>6. QED BY <1>1, <2>1, <2>2, <2>3, <2>4, <2>5 DEF LedgerNext
<1>2. QED BY <1>1, LedgerInvariant, PTL DEF LedgerSpec, RetirementEarned

-----------------------------------------------------------------------------
(* What ClaimLedger knows of the dialogue                                  *)

\* The phases in which claims can still be retired, or the debate be reopened.
LedgerPhases == {"collecting_proposals", "collecting_exchange",
                 "collecting_convergence_challenge", "collecting_synthesis"}

\* What ClaimLedger keeps of the context of a challenge.
HasContext(m) == m.last_material_challenge_context # 0

\* OpenExchange and ToSynthesis of ClaimLedger, for the manifests before and after.
NextRoundOpens(m, n) ==
  n.phase = "collecting_exchange" /\ n.current_round = m.current_round + 1

DebateEnds(m, n) ==
  n.phase = "collecting_synthesis" /\ n.current_round = m.current_round

SamePolicy(m, n) ==
  n.authorized_rounds = m.authorized_rounds /\ n.max_rounds = m.max_rounds

\* What the actions of ClaimLedger do to phase, rounds and context.
BuildsLedger(m, n) ==
  /\ m.phase = "collecting_proposals" /\ m.current_round = 0 /\ NextRoundOpens(m, n)
  /\ SamePolicy(m, n) /\ HasContext(n) = HasContext(m)

ClosesExchange(m, n) ==
  /\ m.phase = "collecting_exchange"
  /\ \/ n.phase = "collecting_convergence_challenge" /\ n.current_round = m.current_round
     \/ m.current_round < m.authorized_rounds /\ NextRoundOpens(m, n)
  /\ SamePolicy(m, n) /\ HasContext(n) = HasContext(m)

FindsMaterial(m, n) ==
  /\ m.phase = "collecting_convergence_challenge"
  /\ IF m.current_round < m.authorized_rounds THEN NextRoundOpens(m, n) ELSE DebateEnds(m, n)
  /\ SamePolicy(m, n) /\ HasContext(n)

PassesChallenge(m, n) ==
  /\ m.phase = "collecting_convergence_challenge" /\ DebateEnds(m, n)
  /\ SamePolicy(m, n) /\ ~HasContext(n)

ExtendsRounds(m, n) ==
  /\ m.phase \in {"collecting_exchange", "collecting_synthesis"}
  /\ m.authorized_rounds < n.authorized_rounds /\ n.authorized_rounds <= m.max_rounds
  /\ n.max_rounds = m.max_rounds /\ HasContext(n) = HasContext(m)
  /\ IF m.phase = "collecting_synthesis" THEN NextRoundOpens(m, n)
     ELSE n.phase = m.phase /\ n.current_round = m.current_round

\* A submission that closes nothing.
LeavesLedger(m, n) ==
  /\ n.phase = m.phase /\ n.current_round = m.current_round
  /\ SamePolicy(m, n) /\ HasContext(n) = HasContext(m)

\* One of the steps of ClaimLedger, as far as the phase and the rounds go.
LedgerMoves(m, n) ==
  \/ BuildsLedger(m, n) \/ ClosesExchange(m, n) \/ FindsMaterial(m, n)
  \/ PassesChallenge(m, n) \/ ExtendsRounds(m, n) \/ LeavesLedger(m, n)

\* The debate begins as LedgerInit says.
LedgerBegins(n) ==
  /\ n.phase = "collecting_proposals" /\ n.current_round = 0 /\ ~HasContext(n)
  /\ 1 <= n.authorized_rounds /\ n.authorized_rounds <= n.max_rounds

\* Past the last of its phases the ledger is not touched again.
FollowedByLedger(m, n) ==
  \/ m.phase = "absent" /\ LedgerBegins(n)
  \/ m.phase \in LedgerPhases /\ LedgerMoves(m, n)
  \/ m.phase # "absent" /\ n.phase \notin {"absent"} \cup LedgerPhases

\* Whether the ledger follows depends only on what it knows of a manifest.
LEMMA SameToLedger ==
  ASSUME NEW m, NEW r, NEW n, FollowedByLedger(r, n),
         r.phase = m.phase, r.current_round = m.current_round,
         r.authorized_rounds = m.authorized_rounds, r.max_rounds = m.max_rounds,
         r.last_material_challenge_context = m.last_material_challenge_context
  PROVE  FollowedByLedger(m, n)
PROOF
  <1>1. HasContext(r) = HasContext(m)
    BY DEF HasContext
  <1>2. ASSUME LedgerMoves(r, n) PROVE LedgerMoves(m, n)
    BY <1>1, <1>2
       DEF LedgerMoves, BuildsLedger, ClosesExchange, FindsMaterial, PassesChallenge,
           ExtendsRounds, LeavesLedger, NextRoundOpens, DebateEnds, SamePolicy
  <1> QED BY <1>2 DEF FollowedByLedger

LEMMA AfterBarrierFollowed ==
  ASSUME NEW m, m \in Manifest, m.phase \in Collecting,
         m.phase = "collecting_proposals" => m.current_round = 0,
         m.phase # "collecting_proposals" => 1 <= m.current_round
  PROVE  FollowedByLedger(m, AfterBarrier(m))
PROOF
  <1> DEFINE n == AfterBarrier(m)
  <1>1. m.current_round \in Nat /\ m.authorized_rounds \in Nat
    BY RoundsAssumption DEF Manifest, Round
  <1>3. CASE m.phase = "collecting_proposals"
    <2>1. n = OpenExchangeRound(m, 1)
      BY <1>3 DEF AfterBarrier
    <2>2. /\ n.phase = "collecting_exchange" /\ n.current_round = m.current_round + 1
          /\ SamePolicy(m, n) /\ HasContext(n) = HasContext(m)
      BY <1>1, <1>3, <2>1 DEF OpenExchangeRound, Manifest, SamePolicy, HasContext
    <2> HIDE DEF n
    <2>3. BuildsLedger(m, n)
      BY <1>3, <2>2 DEF BuildsLedger, NextRoundOpens
    <2> QED BY <1>3, <2>3 DEF FollowedByLedger, LedgerMoves, LedgerPhases, n
  <1>4. CASE m.phase = "collecting_exchange"
    <2>1. \/ n = OpenConvergenceChallenge(m)
          \/ m.current_round < m.authorized_rounds /\ n = OpenExchangeRound(m, m.current_round + 1)
      BY <1>4 DEF AfterBarrier, AfterExchange
    <2>2. /\ \/ /\ n.phase = "collecting_convergence_challenge"
                /\ n.current_round = m.current_round
             \/ /\ m.current_round < m.authorized_rounds
                /\ n.phase = "collecting_exchange" /\ n.current_round = m.current_round + 1
          /\ SamePolicy(m, n) /\ HasContext(n) = HasContext(m)
      BY <1>1, <2>1
         DEF OpenExchangeRound, OpenConvergenceChallenge, Manifest, SamePolicy, HasContext
    <2> HIDE DEF n
    <2>3. ClosesExchange(m, n)
      BY <1>4, <2>2 DEF ClosesExchange, NextRoundOpens
    <2> QED BY <1>4, <2>3 DEF FollowedByLedger, LedgerMoves, LedgerPhases, n
  <1>5. CASE m.phase = "collecting_convergence_challenge"
    <2> DEFINE context == IF MaterialIssue(m) THEN m.current_round ELSE 0
               noted == [m EXCEPT !.last_material_challenge_context = context]
    <2>1. /\ noted \in Manifest /\ noted.current_round = m.current_round
          /\ noted.last_material_challenge_context = context
          /\ SamePolicy(m, noted)
      BY <1>1, RoundsAssumption DEF Manifest, Round, SamePolicy
    <2>2. n = IF MaterialIssue(m) /\ m.current_round < m.authorized_rounds
              THEN OpenExchangeRound(noted, m.current_round + 1) ELSE OpenSynthesis(noted)
      BY <1>5 DEF AfterBarrier, AfterChallenge
    <2>3. context # 0 <=> MaterialIssue(m)
      BY <1>1, <1>5
    <2> HIDE DEF context, noted, n
    <2>4. /\ IF MaterialIssue(m) /\ m.current_round < m.authorized_rounds
             THEN n.phase = "collecting_exchange" /\ n.current_round = m.current_round + 1
             ELSE n.phase = "collecting_synthesis" /\ n.current_round = m.current_round
          /\ SamePolicy(m, n)
          /\ n.last_material_challenge_context = context
      BY <2>1, <2>2 DEF OpenExchangeRound, OpenSynthesis, Manifest, SamePolicy
    <2>5. CASE MaterialIssue(m)
      <3>1. FindsMaterial(m, n)
        BY <1>5, <2>3, <2>4, <2>5 DEF FindsMaterial, NextRoundOpens, DebateEnds, HasContext
      <3> QED BY <1>5, <3>1 DEF FollowedByLedger, LedgerMoves, LedgerPhases, n
    <2>6. CASE ~MaterialIssue(m)
      <3>1. PassesChallenge(m, n)
        BY <1>5, <2>3, <2>4, <2>6 DEF PassesChallenge, DebateEnds, HasContext
      <3> QED BY <1>5, <3>1 DEF FollowedByLedger, LedgerMoves, LedgerPhases, n
    <2> QED BY <2>5, <2>6
  <1>6. CASE m.phase \notin {"collecting_proposals", "collecting_exchange",
                             "collecting_convergence_challenge"}
    <2>1. n.phase \in {"collecting_representation_check", "collecting_synthesis_revision",
                       "collecting_revision_check", "complete"}
      BY <1>1, <1>6
         DEF AfterBarrier, AfterRepresentationChecks, OpenRepresentationChecks,
             OpenSynthesisRevision, OpenRevisionChecks, CompleteDialogue, Collecting, Manifest
    <2> HIDE DEF n
    <2>2. m.phase # "absent"
      BY DEF Collecting
    <2>3. FollowedByLedger(m, n)
      BY <2>1, <2>2 DEF FollowedByLedger, LedgerPhases
    <2> QED BY <2>3 DEF n
  <1> QED BY <1>3, <1>4, <1>5, <1>6

LEMMA SubmittedFollowed ==
  ASSUME NEW m, Sound(m), History(m), NEW participant \in Participant,
         NEW kind \in Kind, NEW payload \in Payload(kind),
         participant \in ParticipantNames(m), IsExpected(m, participant, kind)
  PROVE  FollowedByLedger(m, SubmittedManifest(m, participant, kind, payload))
PROOF
  <1> DEFINE s == [kind |-> kind, round |-> ArtifactRound(m),
                   participant |-> participant, payload |-> payload]
             recorded == [m EXCEPT !.submissions = @ \cup {s}]
             n == SubmittedManifest(m, participant, kind, payload)
  <1>1. m \in Manifest /\ m.phase \in Collecting
    BY DEF Sound, IsExpected
  <1>2. /\ recorded.phase = m.phase /\ recorded.current_round = m.current_round
        /\ recorded.authorized_rounds = m.authorized_rounds
        /\ recorded.max_rounds = m.max_rounds
        /\ recorded.last_material_challenge_context = m.last_material_challenge_context
    BY <1>1 DEF Manifest
  <1>3. recorded \in Manifest
    <2>1. s \in Submission
      BY <1>1, RoundsAssumption, PayloadType DEF Submission, ArtifactRound, Manifest, Round
    <2> HIDE DEF s
    <2> QED BY <1>1, <2>1 DEF Manifest
  <1>4. /\ m.phase = "collecting_proposals" => m.current_round = 0
        /\ m.phase # "collecting_proposals" => 1 <= m.current_round
    BY <1>1 DEF History, RoundsClosed, Collecting
  <1>5. n \in {recorded, AfterBarrier(recorded)}
    BY DEF SubmittedManifest
  <1> HIDE DEF recorded, n
  <1>6. CASE n = recorded
    <2>1. LeavesLedger(m, n)
      BY <1>2, <1>6 DEF LeavesLedger, SamePolicy, HasContext
    <2>2. m.phase # "absent" /\ n.phase = m.phase
      BY <1>1, <1>2, <1>6 DEF Collecting
    <2>3. FollowedByLedger(m, n)
      BY <2>1, <2>2 DEF FollowedByLedger, LedgerMoves
    <2> QED BY <2>3 DEF n
  <1>7. CASE n = AfterBarrier(recorded)
    <2>1. FollowedByLedger(recorded, n)
      BY <1>1, <1>2, <1>3, <1>4, <1>7, AfterBarrierFollowed
    <2>2. FollowedByLedger(m, n)
      BY <1>2, <2>1, SameToLedger
    <2> QED BY <2>2 DEF n
  <1> QED BY <1>5, <1>6, <1>7

LEMMA ExtendedFollowed ==
  ASSUME NEW m, Sound(m), NEW id \in ExtensionId,
         NEW additional \in 1..MaxCouncilRounds, CanExtend(m, id, additional)
  PROVE  FollowedByLedger(m, ExtendedManifest(m, id, additional))
PROOF
  <1> DEFINE authorized == [m EXCEPT !.authorized_rounds = @ + additional,
                              !.extension_operations = @ \cup
                                {[id |-> id, additional_rounds |-> additional]}]
             n == ExtendedManifest(m, id, additional)
  <1>1. /\ m \in Manifest /\ m.authorized_rounds \in Nat /\ m.max_rounds \in Nat
        /\ m.phase \in {"collecting_exchange", "collecting_synthesis"}
        /\ m.authorized_rounds + additional <= m.max_rounds
    BY RoundsAssumption DEF Sound, Manifest, Round, CanExtend
  <1>2. /\ authorized.phase = m.phase /\ authorized.current_round = m.current_round
        /\ authorized.authorized_rounds = m.authorized_rounds + additional
        /\ authorized.max_rounds = m.max_rounds
        /\ authorized.last_material_challenge_context = m.last_material_challenge_context
        /\ OpenExchangeRound(authorized, m.current_round + 1).phase = "collecting_exchange"
        /\ OpenExchangeRound(authorized, m.current_round + 1).current_round
             = m.current_round + 1
        /\ OpenExchangeRound(authorized, m.current_round + 1).authorized_rounds
             = authorized.authorized_rounds
        /\ OpenExchangeRound(authorized, m.current_round + 1).max_rounds
             = authorized.max_rounds
        /\ OpenExchangeRound(authorized, m.current_round + 1).last_material_challenge_context
             = authorized.last_material_challenge_context
    BY <1>1 DEF Manifest, OpenExchangeRound
  <1>3. n = IF m.phase = "collecting_synthesis"
            THEN OpenExchangeRound(authorized, m.current_round + 1) ELSE authorized
    BY DEF ExtendedManifest
  <1> HIDE DEF authorized, n
  <1>4. /\ m.authorized_rounds < n.authorized_rounds /\ n.authorized_rounds <= m.max_rounds
        /\ n.max_rounds = m.max_rounds
        /\ n.last_material_challenge_context = m.last_material_challenge_context
        /\ IF m.phase = "collecting_synthesis"
           THEN n.phase = "collecting_exchange" /\ n.current_round = m.current_round + 1
           ELSE n.phase = m.phase /\ n.current_round = m.current_round
    BY <1>1, <1>2, <1>3
  <1>5. ExtendsRounds(m, n)
    BY <1>1, <1>4 DEF ExtendsRounds, NextRoundOpens, HasContext
  <1> QED BY <1>1, <1>5 DEF FollowedByLedger, LedgerMoves, LedgerPhases, n

\* Every step of a dialogue is one ClaimLedger knows: the debate begins as LedgerBegins
\* says, each step of it is one of LedgerMoves, and once it is left behind no step leads
\* back to it.
THEOREM LedgerFollowsDialogue ==
  DialogueSpec => [][FollowedByLedger(dialogue, dialogue')]_dialogue
PROOF
  <1>1. DialogueInv /\ [DialogueNext]_dialogue
          => [FollowedByLedger(dialogue, dialogue')]_dialogue
    <2> SUFFICES ASSUME Sound(dialogue), History(dialogue), DialogueNext
                 PROVE  FollowedByLedger(dialogue, dialogue')
      BY DEF DialogueInv
    <2>1. ASSUME NEW initiator \in Participant, NEW peers \in SUBSET Participant,
                 NEW minimum \in Round, NEW rounds \in Round, NEW max \in Round,
                 NEW stop \in BOOLEAN,
                 StartDialogue(initiator, peers, minimum, rounds, max, stop)
          PROVE  FollowedByLedger(dialogue, dialogue')
      <3>1. /\ dialogue.phase = "absent"
            /\ dialogue'.phase = "collecting_proposals" /\ dialogue'.current_round = 0
            /\ dialogue'.last_material_challenge_context = 0
            /\ dialogue'.authorized_rounds = rounds /\ dialogue'.max_rounds = max
        BY <2>1 DEF StartDialogue, StartedManifest
      <3>2. 1 <= minimum /\ minimum <= rounds /\ rounds <= max
        BY <2>1 DEF StartDialogue, ValidStart
      <3>3. 1 <= rounds
        BY <3>2, RoundsAssumption DEF Round
      <3> QED BY <3>1, <3>2, <3>3 DEF FollowedByLedger, LedgerBegins, HasContext
    <2>2. ASSUME NEW participant \in Participant, SubmitBy(participant)
          PROVE  FollowedByLedger(dialogue, dialogue')
      <3>1. PICK kind \in Kind :
              /\ IsExpected(dialogue, participant, kind)
              /\ \E round \in Round, payload \in Payload(kind) :
                   SubmitToDialogue(participant, kind, round, payload)
        BY <2>2 DEF SubmitBy
      <3>2. PICK round \in Round, payload \in Payload(kind) :
              SubmitToDialogue(participant, kind, round, payload)
        BY <3>1
      <3> QED BY <3>1, <3>2, SubmittedFollowed DEF SubmitToDialogue
    <2>3. ASSUME NEW participant \in Participant, NEW id \in ExtensionId,
                 NEW additional \in 1..MaxCouncilRounds,
                 ExtendDialogue(participant, id, additional)
          PROVE  FollowedByLedger(dialogue, dialogue')
      BY <2>3, ExtendedFollowed DEF ExtendDialogue
    <2>4. ASSUME NEW participant \in Participant, CancelDialogue(participant)
          PROVE  FollowedByLedger(dialogue, dialogue')
      <3>1. dialogue.phase # "absent"
        BY <2>4 DEF CancelDialogue, Collecting
      <3>2. dialogue'.phase = "cancelled"
        BY <2>4 DEF CancelDialogue, CancelledManifest, Sound, Manifest
      <3> QED BY <3>1, <3>2 DEF FollowedByLedger, LedgerPhases
    <2> QED BY <2>1, <2>2, <2>3, <2>4 DEF DialogueNext
  <1> QED BY <1>1, HistoryInvariant, PTL DEF DialogueSpec

\* What ClaimLedger knows, as a manifest.
Ledgered ==
  [phase |-> phase, current_round |-> current_round,
   authorized_rounds |-> authorized_rounds, max_rounds |-> MaxRounds,
   last_material_challenge_context |-> IF last_material_challenge_context THEN 1 ELSE 0]

\* The steps named above are those of ClaimLedger: it begins as LedgerBegins says and
\* makes no others.
THEOREM LedgerKeepsToItsMoves ==
  LedgerSpec => LedgerBegins(Ledgered) /\ [][LedgerMoves(Ledgered, Ledgered')]_ledgerVars
PROOF
  <1>1. LedgerInit => LedgerBegins(Ledgered)
    BY LedgerAssumption DEF LedgerInit, LedgerBegins, Ledgered, HasContext
  <1>2. LedgerInv /\ [LedgerNext]_ledgerVars => [LedgerMoves(Ledgered, Ledgered')]_ledgerVars
    <2> SUFFICES ASSUME LedgerInv, LedgerNext PROVE LedgerMoves(Ledgered, Ledgered')
      OBVIOUS
    <2>1. /\ Ledgered.phase = phase /\ Ledgered'.phase = phase'
          /\ Ledgered.current_round = current_round /\ Ledgered'.current_round = current_round'
          /\ Ledgered.authorized_rounds = authorized_rounds
          /\ Ledgered'.authorized_rounds = authorized_rounds'
          /\ Ledgered.max_rounds = MaxRounds /\ Ledgered'.max_rounds = MaxRounds
      BY DEF Ledgered
    <2>2. /\ HasContext(Ledgered) <=> last_material_challenge_context
          /\ HasContext(Ledgered') <=> last_material_challenge_context'
      BY DEF Ledgered, HasContext
    <2>3. HasContext(Ledgered) \in BOOLEAN /\ HasContext(Ledgered') \in BOOLEAN
      BY DEF HasContext
    <2> HIDE DEF Ledgered
    <2>4. CASE BuildLedger
      <3>1. current_round = 0
        BY <2>4 DEF BuildLedger, LedgerInv, Unstarted
      <3>2. BuildsLedger(Ledgered, Ledgered')
        BY <2>1, <2>2, <2>3, <2>4, <3>1 DEF BuildLedger, BuildsLedger, NextRoundOpens, SamePolicy
      <3> QED BY <3>2 DEF LedgerMoves
    <2>5. CASE CloseExchange
      <3>1. ClosesExchange(Ledgered, Ledgered')
        BY <2>1, <2>2, <2>3, <2>5
           DEF CloseExchange, ClosesExchange, OpenExchange, NextRoundOpens, SamePolicy
      <3> QED BY <3>1 DEF LedgerMoves
    <2>6. CASE ChallengeMaterial
      <3>1. FindsMaterial(Ledgered, Ledgered')
        BY <2>1, <2>2, <2>6
           DEF ChallengeMaterial, FindsMaterial, OpenExchange, ToSynthesis, NextRoundOpens,
               DebateEnds, SamePolicy
      <3> QED BY <3>1 DEF LedgerMoves
    <2>7. CASE ChallengePassed
      <3>1. PassesChallenge(Ledgered, Ledgered')
        BY <2>1, <2>2, <2>7
           DEF ChallengePassed, PassesChallenge, ToSynthesis, DebateEnds, SamePolicy
      <3> QED BY <3>1 DEF LedgerMoves
    <2>8. CASE ExtendRounds
      <3>1. authorized_rounds < authorized_rounds' /\ authorized_rounds' <= MaxRounds
        BY <2>8, LedgerFacts DEF ExtendRounds
      <3>2. ExtendsRounds(Ledgered, Ledgered')
        BY <2>1, <2>2, <2>3, <2>8, <3>1
           DEF ExtendRounds, ExtendsRounds, OpenExchange, NextRoundOpens
      <3> QED BY <3>2 DEF LedgerMoves
    <2> QED BY <2>4, <2>5, <2>6, <2>7, <2>8 DEF LedgerNext
  <1> QED BY <1>1, <1>2, LedgerInvariant, PTL DEF LedgerSpec
=============================================================================
