-------------------------- MODULE DialogueProtocol --------------------------
(***************************************************************************)
(* What the broker promises about one dialogue: a bounded debate of two or *)
(* three participants that runs through proposals, adversarial exchange,   *)
(* a convergence challenge, a synthesis and its checks.  Every handler of  *)
(* scripts/council.py that moves the dialogue (start, submit, extend,      *)
(* cancel) is one atomic step here, since the broker runs them one at a    *)
(* time under its lock.  BrokerTransactions splits each of them into its   *)
(* durable writes and implements this specification; its names differ from *)
(* these, so that what is proved of both can be used together.             *)
(***************************************************************************)
EXTENDS DialogueManifest

VARIABLE dialogue  \* the manifest of the dialogue

DialogueInit == dialogue = NoManifest

StartDialogue(initiator, peers, minimum, rounds, max, stop) ==
  /\ dialogue.phase = "absent"
  /\ ValidStart(initiator, peers, minimum, rounds, max)
  /\ dialogue' = StartedManifest(initiator, peers, minimum, rounds, max, stop)

SubmitToDialogue(participant, kind, round, payload) ==
  /\ dialogue.phase # "absent"
  /\ participant \in ParticipantNames(dialogue)
  /\ SubmitOutcome(dialogue, participant, kind, round, payload) = "accepted"
  /\ dialogue' = SubmittedManifest(dialogue, participant, kind, payload)

\* Only the initiator applies the user's extension.
ExtendDialogue(participant, id, additional) ==
  /\ dialogue.phase # "absent"
  /\ participant = dialogue.initiator
  /\ CanExtend(dialogue, id, additional)
  /\ dialogue' = ExtendedManifest(dialogue, id, additional)

\* Mutant: a dialogue that has ended can still be cancelled.
CancelDialogue_Terminal(participant) ==
  /\ dialogue.phase # "absent"
  /\ participant \in ParticipantNames(dialogue)
  /\ dialogue' = CancelledManifest(dialogue)

CancelDialogue(participant) ==
  /\ dialogue.phase \in Collecting
  /\ participant \in ParticipantNames(dialogue)
  /\ dialogue' = CancelledManifest(dialogue)

\* Only an expected kind of submission is ever accepted.
SubmitBy(participant) ==
  \E kind \in {k \in Kind : IsExpected(dialogue, participant, k)} :
    \E round \in Round, payload \in Payload(kind) :
      SubmitToDialogue(participant, kind, round, payload)

DialogueNext ==
  \/ \E initiator \in Participant, peers \in SUBSET Participant :
       \E minimum, rounds, max \in Round, stop \in BOOLEAN :
         StartDialogue(initiator, peers, minimum, rounds, max, stop)
  \/ \E participant \in Participant : SubmitBy(participant)
  \/ \E participant \in Participant, id \in ExtensionId :
       \E additional \in 1..MaxCouncilRounds : ExtendDialogue(participant, id, additional)
  \/ \E participant \in Participant : CancelDialogue(participant)

DialogueSpec == DialogueInit /\ [][DialogueNext]_dialogue

\* Each participant keeps answering the requests it is sent: the broker
\* redelivers an unanswered request and wakes its recipient again.
FairDialogueSpec == DialogueSpec /\ \A p \in Participant : WF_dialogue(SubmitBy(p))

-----------------------------------------------------------------------------
(* Properties                                                              *)

\* The manifest is well formed.
DialogueTypeOK == dialogue \in Manifest

Everyone == ParticipantNames(dialogue)

\* Every participant in the set has submitted this kind for this round.
Closed(kind, round, participants) ==
  Submitters(Target(dialogue, kind, round)) = participants

\* Barriers: nobody's contribution to a later stage is ever recorded while
\* an earlier stage is still open, so no participant can read a peer's
\* position and still change its own (protocol.md: blind proposals, closed
\* rounds).  An exchange follows everyone's proposals and all exchanges of
\* the earlier rounds; a challenge everyone's exchange of its round; the
\* synthesis everyone's challenge; each check the text it checks.
BarriersHold ==
  \A s \in dialogue.submissions :
    /\ s.kind = "exchange" =>
         /\ Closed("proposal", 0, Everyone)
         /\ \A r \in 1..(s.round - 1) : Closed("exchange", r, Everyone)
    /\ s.kind = "convergence_challenge" => Closed("exchange", s.round, Everyone)
    /\ s.kind = "synthesis" => Closed("convergence_challenge", s.round, Everyone)
    /\ s.kind = "representation_check" =>
         Closed("synthesis", s.round, {dialogue.initiator})
    /\ s.kind = "synthesis_revision" =>
         Closed("representation_check", s.round, dialogue.peers)
    /\ s.kind = "revision_check" =>
         Closed("synthesis_revision", s.round, {dialogue.initiator})

\* The debate ends only for a reason the user accepted: the minimum number
\* of rounds was held; ending below the authorized limit took a unanimous,
\* settled convergence that everyone then challenged without finding a
\* material issue; a material issue is left standing only at the limit.
SynthesisEarned ==
  dialogue.phase \in AfterDebate =>
    /\ dialogue.current_round >= dialogue.minimum_rounds
    /\ Closed("convergence_challenge", dialogue.current_round, Everyone)
    /\ dialogue.current_round < dialogue.authorized_rounds =>
         /\ dialogue.stop_on_convergence
         /\ ConvergenceEarned(dialogue)
         /\ ~MaterialIssue(dialogue)

\* Rounds stay within what the user authorized, whatever the interleaving of
\* barriers, reopened rounds and extensions.
RoundsWithinAuthority ==
  dialogue.phase # "absent" =>
    /\ dialogue.current_round <= dialogue.authorized_rounds
    /\ dialogue.minimum_rounds <= dialogue.authorized_rounds
    /\ dialogue.authorized_rounds <= dialogue.max_rounds

\* A dialogue completes only after every non-initiator has checked the
\* synthesis; a correction in a triad was answered by exactly one revision
\* that every non-initiator checked again, and nothing else is revised.
CompletionReviewed ==
  dialogue.phase = "complete" =>
    /\ Closed("synthesis", dialogue.current_round, {dialogue.initiator})
    /\ Closed("representation_check", dialogue.current_round, dialogue.peers)
    /\ LET revised == Cardinality(Everyone) = 3 /\ MaterialCorrection(dialogue)
       IN  /\ Closed("synthesis_revision", dialogue.current_round,
                     IF revised THEN {dialogue.initiator} ELSE {})
           /\ Closed("revision_check", dialogue.current_round,
                     IF revised THEN dialogue.peers ELSE {})

\* A participant whose answer was lost may send its submission again at any
\* later time, in whatever phase or round the dialogue is by then, and is told
\* it was a duplicate; it is never told "stale" or refused, and another
\* payload in its place is always refused.
RetryIsRecognised ==
  \A s \in dialogue.submissions : \A payload \in Payload(s.kind) :
    SubmitOutcome(dialogue, s.participant, s.kind, s.round, payload)
      = IF payload = s.payload THEN "duplicate" ELSE "conflict"

\* The context an extension at the synthesis gate hands to the reopened round
\* is that of the challenge just held, never one left from an earlier round.
ReopenContextFresh ==
  dialogue.phase = "collecting_synthesis" =>
    dialogue.last_material_challenge_context =
      IF MaterialIssue(dialogue) THEN dialogue.current_round ELSE 0

\* What no step may do: withdraw or alter a recorded submission, move a
\* dialogue out of a terminal phase, skip a round, or leave a round before
\* everyone's contribution to it is recorded.
NoStepBackwards ==
  [][dialogue.phase # "absent" =>
       /\ dialogue.submissions \subseteq dialogue'.submissions
       /\ dialogue.phase \in Terminal => dialogue' = dialogue
       /\ dialogue'.current_round # dialogue.current_round =>
            /\ dialogue'.current_round = dialogue.current_round + 1
            /\ Submitters(Target(dialogue', IF dialogue.current_round = 0
                                            THEN "proposal" ELSE "exchange",
                                 dialogue.current_round)) = Everyone
    ]_dialogue

\* A started dialogue ends: reopened rounds and extensions cannot keep it
\* open for ever when every participant keeps answering.
EventuallyTerminal ==
  (dialogue.phase # "absent") ~> (dialogue.phase \in Terminal)
=============================================================================
