-------------------------- MODULE DialogueManifest --------------------------
(***************************************************************************)
(* The phase machine of one Council dialogue, as functions of its manifest *)
(* (scripts/council.py, class CouncilBroker).  The broker loads the        *)
(* manifest, computes the next one in memory and saves it: the operators   *)
(* of this module are that computation.  DialogueProtocol takes each of    *)
(* them as one atomic step; BrokerTransactions runs them between the       *)
(* durable writes that surround them.                                      *)
(*                                                                         *)
(* Payloads are reduced to what the phase machine reads in them:           *)
(*   proposal, synthesis, synthesis_revision   any member of Draft;        *)
(*   exchange    "contest", or a convergence candidate (no material delta, *)
(*               no remaining disagreement) with its positions on the      *)
(*               active claims: all settled one way, all settled another   *)
(*               way, or some of them uncertain;                           *)
(*   convergence_challenge                     material_issue_found;       *)
(*   representation_check, revision_check      accurate and without        *)
(*                                             corrections, or not.        *)
(*                                                                         *)
(* A definition called X_<defect>, here and in the modules below, is X     *)
(* with a bug a change to the code could introduce.  Nothing uses it: it   *)
(* is put in the place of X to see that a property notices.                *)
(***************************************************************************)
EXTENDS Naturals, FiniteSets

CONSTANTS
  Participant,      \* participant names bound to the broker
  MaxCouncilRounds, \* MAX_COUNCIL_ROUNDS
  Draft,            \* texts of proposals and of syntheses
  ExchangePayload,  \* the exchange payloads considered
  ChallengePayload, \* the convergence_challenge payloads considered
  CheckPayload,     \* the payloads of both kinds of check considered
  ExtensionId       \* extension ids an adapter may use

ASSUME ParticipantAssumption == IsFiniteSet(Participant) /\ Participant # {}

ASSUME RoundsAssumption == MaxCouncilRounds \in Nat \ {0}

\* A convergence candidate whose positions are settled, and the ways it can be.
Settled == {"settled_one_way", "settled_other_way"}

ASSUME PayloadAssumption ==
  /\ ExchangePayload \subseteq Settled \cup {"uncertain", "contest"}
  /\ ChallengePayload \subseteq {"clear", "material"}
  /\ CheckPayload \subseteq {"accurate", "correction"}

-----------------------------------------------------------------------------
(* Phases, submission kinds and the manifest.                              *)

Terminal == {"complete", "cancelled"}

\* The kind of submission each collecting phase waits for.
ExpectedKind ==
  [collecting_proposals             |-> "proposal",
   collecting_exchange              |-> "exchange",
   collecting_convergence_challenge |-> "convergence_challenge",
   collecting_synthesis             |-> "synthesis",
   collecting_representation_check  |-> "representation_check",
   collecting_synthesis_revision    |-> "synthesis_revision",
   collecting_revision_check        |-> "revision_check"]

Collecting == {"collecting_proposals", "collecting_exchange",
               "collecting_convergence_challenge", "collecting_synthesis",
               "collecting_representation_check",
               "collecting_synthesis_revision", "collecting_revision_check"}

\* The phases in which the debate is over.
AfterDebate == {"collecting_synthesis", "collecting_representation_check",
                "collecting_synthesis_revision", "collecting_revision_check",
                "complete"}

Kind == {"proposal", "exchange", "convergence_challenge", "synthesis",
         "representation_check", "synthesis_revision", "revision_check"}

\* manifest["submissions"][kind] is keyed by round for these kinds only.
RoundKeyed == {"exchange", "convergence_challenge"}

InitiatorKind == {"synthesis", "synthesis_revision"}
PeerKind == {"representation_check", "revision_check"}

Payload(kind) ==
  IF kind \in {"proposal"} \cup InitiatorKind THEN Draft
  ELSE IF kind = "exchange" THEN ExchangePayload
  ELSE IF kind = "convergence_challenge" THEN ChallengePayload
  ELSE CheckPayload

AnyPayload == Draft \cup ExchangePayload \cup ChallengePayload \cup CheckPayload

Round == 0..MaxCouncilRounds

Submission == [kind : Kind, round : Round,
               participant : Participant, payload : AnyPayload]

\* One entry of manifest["extension_operations"].
Extension == [id : ExtensionId, additional_rounds : Round]

Manifest ==
  [phase : {"absent"} \cup Collecting \cup Terminal,
   initiator : Participant,
   peers : SUBSET Participant,
   current_round : Round,
   minimum_rounds : Round,
   authorized_rounds : Round,
   max_rounds : Round,
   stop_on_convergence : BOOLEAN,
   submissions : SUBSET Submission,
   required_submitters : SUBSET Participant,
   \* 0: the key is absent; otherwise the round whose challenge set it
   last_material_challenge_context : Round,
   extension_operations : SUBSET Extension]

\* No dialogue: there is no manifest file yet.
NoManifest ==
  [phase |-> "absent", initiator |-> CHOOSE p \in Participant : TRUE,
   peers |-> {}, current_round |-> 0, minimum_rounds |-> 0,
   authorized_rounds |-> 0, max_rounds |-> 0, stop_on_convergence |-> FALSE,
   submissions |-> {}, required_submitters |-> {},
   last_material_challenge_context |-> 0, extension_operations |-> {}]

ParticipantNames(m) == {m.initiator} \cup m.peers

-----------------------------------------------------------------------------
(* start                                                                   *)

\* The argument checks of start: two or three distinct participants and
\* 1 <= minimum_rounds <= rounds <= max_rounds <= MAX_COUNCIL_ROUNDS.
ValidStart(initiator, peers, minimum, rounds, max) ==
  /\ initiator \notin peers
  /\ Cardinality(peers) \in 1..2
  /\ 1 <= minimum /\ minimum <= rounds
  /\ rounds <= max /\ max <= MaxCouncilRounds

StartedManifest(initiator, peers, minimum, rounds, max, stop) ==
  [phase |-> "collecting_proposals", initiator |-> initiator,
   peers |-> peers, current_round |-> 0, minimum_rounds |-> minimum,
   authorized_rounds |-> rounds, max_rounds |-> max,
   stop_on_convergence |-> stop, submissions |-> {},
   required_submitters |-> {initiator} \cup peers,
   last_material_challenge_context |-> 0, extension_operations |-> {}]

-----------------------------------------------------------------------------
(* submit: what the manifest already holds, and what it is waiting for.    *)

Target(m, kind, round) ==
  {s \in m.submissions : s.kind = kind /\ (kind \in RoundKeyed => s.round = round)}

Submitters(submissions) == {s.participant : s \in submissions}

\* _submission_path, with the comparison of the artifact's round in submit.
Existing(m, participant, kind, round) ==
  {s \in m.submissions :
     s.kind = kind /\ s.participant = participant /\ s.round = round}

IsExpected(m, participant, kind) ==
  /\ m.phase \in Collecting
  /\ kind = ExpectedKind[m.phase]
  /\ kind \in InitiatorKind => participant = m.initiator
  /\ kind \in PeerKind => participant \in m.peers

ArtifactRound(m) ==
  IF m.phase = "collecting_proposals" THEN 0 ELSE m.current_round

\* The answer to a payload when earlier ones stand in its place.
Repeated(submissions, payload) ==
  IF \E s \in submissions : s.payload = payload THEN "duplicate" ELSE "conflict"

\* Mutant: the phase is looked at before what is already recorded.
SubmitOutcome_PhaseFirst(m, participant, kind, round, payload) ==
  LET existing == Existing(m, participant, kind, round)
  IN  IF ~IsExpected(m, participant, kind)
      THEN IF m.phase \in Terminal \/ round < m.current_round
           THEN "stale" ELSE "rejected"
      ELSE IF existing # {} THEN Repeated(existing, payload)
      ELSE IF round = ArtifactRound(m) THEN "accepted" ELSE "rejected"

\* How submit answers a member of the dialogue.  Only "accepted" changes
\* anything; "conflict" and "rejected" are errors.
SubmitOutcome(m, participant, kind, round, payload) ==
  LET existing == Existing(m, participant, kind, round)
      standing == {s \in Target(m, kind, round) : s.participant = participant}
  IN  IF existing # {} THEN Repeated(existing, payload)
      ELSE IF ~IsExpected(m, participant, kind)
      THEN IF m.phase \in Terminal \/ round < m.current_round
           THEN "stale" ELSE "rejected"
      ELSE IF round # ArtifactRound(m)
      THEN IF round < ArtifactRound(m) THEN "stale" ELSE "rejected"
      ELSE IF standing # {} THEN Repeated(standing, payload)
      ELSE "accepted"

-----------------------------------------------------------------------------
(* submit: the next phase once a barrier is complete.                      *)

\* Mutant: a reopened round keeps waiting for whom the last phase waited for.
OpenExchangeRound_StaleBarrier(m, round) ==
  [m EXCEPT !.phase = "collecting_exchange", !.current_round = round]

OpenExchangeRound(m, round) ==
  [m EXCEPT !.phase = "collecting_exchange",
            !.current_round = round,
            !.required_submitters = ParticipantNames(m)]

OpenConvergenceChallenge(m) ==
  [m EXCEPT !.phase = "collecting_convergence_challenge",
            !.required_submitters = ParticipantNames(m)]

OpenSynthesis(m) ==
  [m EXCEPT !.phase = "collecting_synthesis",
            !.required_submitters = {m.initiator}]

\* Mutant: the initiator, whose check is never accepted, is waited for too.
OpenRepresentationChecks_WaitsForAll(m) ==
  [m EXCEPT !.phase = "collecting_representation_check",
            !.required_submitters = ParticipantNames(m)]

OpenRepresentationChecks(m) ==
  [m EXCEPT !.phase = "collecting_representation_check",
            !.required_submitters = m.peers]

OpenSynthesisRevision(m) ==
  [m EXCEPT !.phase = "collecting_synthesis_revision",
            !.required_submitters = {m.initiator}]

OpenRevisionChecks(m) ==
  [m EXCEPT !.phase = "collecting_revision_check",
            !.required_submitters = m.peers]

CompleteDialogue(m) ==
  [m EXCEPT !.phase = "complete", !.required_submitters = {}]

\* Mutant: the minimum number of rounds is forgotten.
ConvergenceEarned_NoMinimum(m) ==
  \E position \in Settled :
    \A s \in Target(m, "exchange", m.current_round) : s.payload = position

\* Every participant is a candidate and they agree, settled, on every claim.
ConvergenceEarned(m) ==
  /\ m.current_round >= m.minimum_rounds
  /\ \E position \in Settled :
       \A s \in Target(m, "exchange", m.current_round) : s.payload = position

MaterialIssue(m) ==
  \E s \in Target(m, "convergence_challenge", m.current_round) :
     s.payload = "material"

MaterialCorrection(m) ==
  \E s \in Target(m, "representation_check", m.current_round) :
     s.payload = "correction"

AfterExchange(m) ==
  IF m.stop_on_convergence /\ ConvergenceEarned(m)
  THEN OpenConvergenceChallenge(m)
  ELSE IF m.current_round < m.authorized_rounds
  THEN OpenExchangeRound(m, m.current_round + 1)
  ELSE OpenConvergenceChallenge(m)

\* Mutant: the context of an earlier material challenge is not dropped.
AfterChallenge_KeepsContext(m) ==
  LET noted == [m EXCEPT !.last_material_challenge_context =
                            IF MaterialIssue(m) THEN m.current_round ELSE @]
  IN  IF MaterialIssue(m) /\ m.current_round < m.authorized_rounds
      THEN OpenExchangeRound(noted, m.current_round + 1)
      ELSE OpenSynthesis(noted)

AfterChallenge(m) ==
  LET noted == [m EXCEPT !.last_material_challenge_context =
                            IF MaterialIssue(m) THEN m.current_round ELSE 0]
  IN  IF MaterialIssue(m) /\ m.current_round < m.authorized_rounds
      THEN OpenExchangeRound(noted, m.current_round + 1)
      ELSE OpenSynthesis(noted)

\* Mutant: a dyad is revised too.
AfterRepresentationChecks_AnyCouncil(m) ==
  IF MaterialCorrection(m) THEN OpenSynthesisRevision(m) ELSE CompleteDialogue(m)

AfterRepresentationChecks(m) ==
  IF Cardinality(ParticipantNames(m)) = 3 /\ MaterialCorrection(m)
  THEN OpenSynthesisRevision(m)
  ELSE CompleteDialogue(m)

\* The phase that follows m.phase once everyone it waits for has submitted.
AfterBarrier(m) ==
  CASE m.phase = "collecting_proposals" -> OpenExchangeRound(m, 1)
    [] m.phase = "collecting_exchange" -> AfterExchange(m)
    [] m.phase = "collecting_convergence_challenge" -> AfterChallenge(m)
    [] m.phase = "collecting_synthesis" -> OpenRepresentationChecks(m)
    [] m.phase = "collecting_representation_check" -> AfterRepresentationChecks(m)
    [] m.phase = "collecting_synthesis_revision" -> OpenRevisionChecks(m)
    [] m.phase = "collecting_revision_check" -> CompleteDialogue(m)

\* The manifest submit saves when it accepts the payload.
SubmittedManifest(m, participant, kind, payload) ==
  LET round == ArtifactRound(m)
      recorded == [m EXCEPT !.submissions = @ \cup
                     {[kind |-> kind, round |-> round,
                       participant |-> participant, payload |-> payload]}]
  IN  IF Submitters(Target(recorded, kind, round)) = m.required_submitters
      THEN AfterBarrier(recorded)
      ELSE recorded

-----------------------------------------------------------------------------
(* extend and cancel                                                       *)

CanExtend(m, id, additional) ==
  /\ \A e \in m.extension_operations : e.id # id
  /\ m.phase \in {"collecting_exchange", "collecting_synthesis"}
  /\ m.authorized_rounds + additional <= m.max_rounds

ExtendedManifest(m, id, additional) ==
  LET authorized ==
        [m EXCEPT !.authorized_rounds = @ + additional,
                  !.extension_operations = @ \cup
                     {[id |-> id, additional_rounds |-> additional]}]
  IN  IF m.phase = "collecting_synthesis"
      THEN OpenExchangeRound(authorized, m.current_round + 1)
      ELSE authorized

CancelledManifest(m) == [m EXCEPT !.phase = "cancelled"]
=============================================================================
