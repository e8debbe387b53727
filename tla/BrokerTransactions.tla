------------------------- MODULE BrokerTransactions -------------------------
(***************************************************************************)
(* How the broker moves a dialogue durably (scripts/council.py).  Every    *)
(* step below is one atomic write to the state root: a submission file,    *)
(* final.json, an outbox record, the manifest, or an appended audit line.  *)
(* A handler is the sequence of its writes.  Between any two of them an    *)
(* exception may end the handler with the broker still serving (Fail), or  *)
(* the process may die (Crash); on Restart the broker reconciles what it   *)
(* finds before it serves again, and may die while doing so.               *)
(*                                                                         *)
(* The handlers hold the broker lock, so at most one is in progress: pc    *)
(* says where it is.  A call to submit, extend or cancel first reconciles  *)
(* the committed transition (drain, resume), then validates and prepares   *)
(* the next manifest (prepare), writes final.json when it completes the    *)
(* dialogue and the staged outbox records (stage), saves the manifest,     *)
(* which is the commit point, and then appends the audit events (audit),   *)
(* supersedes and activates outbox records (activate).                     *)
(***************************************************************************)
EXTENDS DialogueManifest, Bags

CONSTANTS
  StartArguments,  \* the arguments of start that are considered
  MaxTransitions,  \* bound on transition ids handed out
  MaxFaults,       \* bound on exceptions and crashes
  MaxDelivered     \* bound on records handed to their recipients

ASSUME StartAssumption ==
  StartArguments \subseteq [initiator : Participant, peers : SUBSET Participant,
                            minimum : Round, rounds : Round, max : Round,
                            stop : BOOLEAN]

ASSUME BoundsAssumption == {MaxTransitions, MaxFaults, MaxDelivered} \subseteq Nat

VARIABLES
  saved,     \* manifest.json
  files,     \* submissions/*.json
  final,     \* final.json: the transition that wrote it, 0 if there is none
  outbox,    \* outbox/<recipient>/<message>.json
  audit,     \* audit.jsonl, as a bag of events
  pc,        \* where the handler in progress is
  draft,     \* the manifest it will save
  todo,      \* recipients it has yet to queue for, or records yet to reconcile
  msg,       \* the outbox record it is working on
  nextTx,    \* the next transition id
  faults,    \* exceptions and crashes so far
  clean,     \* no handler has failed since the broker started
  committed  \* history: every transition id whose manifest was saved

disk == <<saved, files, final, outbox, audit>>
handler == <<pc, draft, todo, msg>>
vars == <<disk, handler, nextTx, faults, clean, committed>>

-----------------------------------------------------------------------------
(* The files.                                                              *)

TxId == 1..MaxTransitions

\* A transition queues at most one message for a recipient.
MessageId == [tx : TxId, recipient : Participant]

\* A request is named by the kind of submission that answers it.
MessageKind == Kind \cup Terminal

Live == {"pending", "delivered"}

Status == Live \cup {"staged", "acknowledged", "superseded", "aborted", "orphaned"}

OutboxRecord == [kind : MessageKind, round : Round, status : Status,
                 queued_audited : BOOLEAN]

\* manifest["submissions"] holds the paths of the submission files.
Path(s) == [kind |-> s.kind, round |-> s.round, participant |-> s.participant]

\* Mutant: every submission file counts, whether the manifest names it or not.
Loaded_Directory(m) ==
  IF m.phase = "absent" THEN m ELSE [m EXCEPT !.submissions = files]

\* The manifest with the submissions its paths lead to.
Loaded(m) == [m EXCEPT !.submissions = {f \in files : Path(f) \in @}]

Unloaded(m) == [m EXCEPT !.submissions = {Path(s) : s \in @}]

\* What is saved in one manifest file: the dialogue itself, the transition
\* that committed it, the outbox records that transition replaces, the audit
\* events not yet known to be in the log, and the transition that started it.
SavedManifest(m, tx, supersedes, intents, born) ==
  [m |-> Unloaded(m), committed_transition_id |-> tx,
   transition_supersedes |-> supersedes, pending_audit_events |-> intents,
   born |-> born]

NothingSaved == SavedManifest(NoManifest, 0, {}, {}, 0)

manifest == Loaded(saved.m)

TransitionEvent(event, tx) == [event |-> event, tx |-> tx, recipient |-> "none"]
MessageEvent(event, id) == [event |-> event, tx |-> id.tx, recipient |-> id.recipient]

Recorded(e) == BagIn(e, audit)
Append(e) == audit' = audit (+) SetToBag({e})

\* Loops over recipients, records and events run in a fixed order.
First(S) == CHOOSE x \in S : TRUE

NoMessage == [tx |-> 0, recipient |-> "none"]

\* The record is for this dialogue, not for one whose start never committed.
HasManifest(id) == saved.m.phase # "absent" /\ id.tx >= saved.born

-----------------------------------------------------------------------------
(* Predicates the handlers share.                                          *)

\* Records the committed transition replaces that are still live.
ToSupersede == {id \in saved.transition_supersedes : outbox[id].status \in Live}

ToActivate == {id \in DOMAIN outbox : /\ outbox[id].status = "staged"
                                      /\ id.tx = saved.committed_transition_id}

\* _message_response_is_safe: the answer is recorded, or no longer wanted.
ResponseIsSafe(id) ==
  LET r == outbox[id]
  IN  \/ r.kind = "cancelled"
      \/ r.kind = "complete" /\ manifest.phase = "complete" /\ final = id.tx
      \/ /\ r.kind \in Kind
         /\ \/ \E s \in Target(manifest, r.kind, r.round) : s.participant = id.recipient
            \/ manifest.phase \in Terminal
            \/ r.round < manifest.current_round

\* _recover_safe_acknowledgement applies.
CanRecoverAck(id) ==
  /\ HasManifest(id) /\ outbox[id].status = "delivered"
  /\ outbox[id].kind # "complete" /\ ResponseIsSafe(id)

\* Whom the transition from m to n asks, and for what.
Recipients(m, n, canceller) ==
  IF m.phase = n.phase /\ m.current_round = n.current_round THEN {}
  ELSE IF m.phase = "absent" THEN n.peers
  ELSE IF n.phase = "cancelled" THEN ParticipantNames(n) \ {canceller}
  ELSE IF n.phase = "complete" THEN ParticipantNames(n)
  ELSE n.required_submitters

RequestKind(n) == IF n.phase \in Terminal THEN n.phase ELSE ExpectedKind[n.phase]

Recovering == {"recover_drain", "recover_final", "recover_outbox",
               "recover_ack", "recover_ack_audit"}

-----------------------------------------------------------------------------
Init ==
  /\ saved = NothingSaved /\ files = {} /\ final = 0
  /\ outbox = <<>> /\ audit = EmptyBag
  /\ pc = "idle" /\ draft = NothingSaved /\ todo = {} /\ msg = NoMessage
  /\ nextTx = 1 /\ faults = 0 /\ clean = TRUE /\ committed = {}

Goto(label) == pc' = label /\ UNCHANGED <<draft, todo, msg>>

\* A handler that has nothing left to do returns.
Return == /\ pc' = "idle" /\ draft' = NothingSaved /\ todo' = {} /\ msg' = NoMessage

Bookkeeping == <<nextTx, faults, clean, committed>>

-----------------------------------------------------------------------------
(* _reconcile_committed_transition: audit intents, then the transition.    *)

\* Mutant: the committed transition is not resumed.
AfterDrain_NoResume == "prepare"

AfterDrain == IF ToSupersede # {} \/ ToActivate # {} THEN "resume" ELSE "prepare"

\* A call about this dialogue arrives.
Begin ==
  /\ pc = "idle"
  /\ Goto(IF saved.pending_audit_events # {} THEN "drain" ELSE AfterDrain)
  /\ UNCHANGED <<disk, Bookkeeping>>

\* The events _reconcile_durable_audits was asked to settle.
Selected ==
  IF pc \in {"ack_audit", "recover_ack_audit"}
  THEN {e \in saved.pending_audit_events :
          e = MessageEvent("message_acknowledgement_recovered", msg)}
  ELSE saved.pending_audit_events

Draining == {"drain", "audit", "ack_audit", "recover_drain", "recover_ack_audit"}

\* Mutant: the log is not consulted.
AppendIntent_Blind ==
  /\ pc \in Draining
  /\ Selected # {}
  /\ Append(First(Selected))
  /\ UNCHANGED <<saved, files, final, outbox, handler, Bookkeeping>>

AppendIntent ==
  /\ pc \in Draining
  /\ \E e \in Selected : ~Recorded(e)
  /\ Append(First({e \in Selected : ~Recorded(e)}))
  /\ UNCHANGED <<saved, files, final, outbox, handler, Bookkeeping>>

\* Every event is in the log: drop the intents and go on.
ClearIntents ==
  /\ pc \in Draining
  /\ \A e \in Selected : Recorded(e)
  /\ saved' = [saved EXCEPT !.pending_audit_events = @ \ Selected]
  /\ CASE pc = "drain" -> Goto(AfterDrain)
       [] pc = "audit" -> Goto("activate")
       [] pc = "ack_audit" -> Return
       [] pc = "recover_drain" -> Goto("recover_final")
       [] pc = "recover_ack_audit" ->
            /\ pc' = "recover_outbox" /\ msg' = NoMessage
            /\ UNCHANGED <<draft, todo>>
  /\ UNCHANGED <<files, final, outbox, audit, Bookkeeping>>

-----------------------------------------------------------------------------
(* _activate_transition and _activate_staged_record.                       *)

\* The bound on deliveries leaves room for one more.
MayDeliver ==
  Cardinality({i \in DOMAIN outbox : outbox[i].status \in {"delivered", "acknowledged"}})
    < MaxDelivered

SetStatus(id, status) == outbox' = [outbox EXCEPT ![id].status = status]

\* In recovery the list is applied when a pending or committed staged record
\* is met, before that record is looked at again.
Supersede ==
  /\ \/ pc \in {"resume", "activate"} /\ msg = NoMessage
     \/ /\ pc = "recover_outbox" /\ msg = NoMessage
        /\ \E other \in todo : HasManifest(other) /\
             (outbox[other].status = "pending" \/ other \in ToActivate)
  /\ ToSupersede # {}
  /\ SetStatus(First(ToSupersede), "superseded")
  /\ UNCHANGED <<saved, files, final, audit, handler, Bookkeeping>>

Activate ==
  /\ pc \in {"resume", "activate"} /\ msg = NoMessage
  /\ ToSupersede = {} /\ ToActivate # {}
  /\ SetStatus(First(ToActivate), "pending")
  /\ msg' = First(ToActivate) /\ UNCHANGED <<pc, draft, todo>>
  /\ UNCHANGED <<saved, files, final, audit, Bookkeeping>>

\* _audit_message_queued_once: the log is consulted, the record marked after.
AppendQueued ==
  LET e == MessageEvent("message_queued", msg)
  IN  /\ pc \in {"resume", "activate", "recover_outbox"} /\ msg # NoMessage
      /\ ~outbox[msg].queued_audited /\ ~Recorded(e)
      /\ Append(e)
      /\ UNCHANGED <<saved, files, final, outbox, handler, Bookkeeping>>

\* The record is marked, and _attempt_delivery reaches the session or not.
MarkQueuedAndDeliver(status) ==
  /\ pc \in {"resume", "activate", "recover_outbox"} /\ msg # NoMessage
  /\ outbox[msg].queued_audited \/ Recorded(MessageEvent("message_queued", msg))
  /\ status \in Live /\ (status = "delivered" => MayDeliver)
  /\ outbox' = [outbox EXCEPT ![msg].queued_audited = TRUE, ![msg].status = status]
  /\ msg' = NoMessage /\ UNCHANGED <<pc, draft, todo>>
  /\ UNCHANGED <<saved, files, final, audit, Bookkeeping>>

Activated ==
  /\ pc \in {"resume", "activate"} /\ msg = NoMessage
  /\ ToSupersede = {} /\ ToActivate = {}
  /\ IF pc = "resume" THEN Goto("prepare") ELSE Return
  /\ UNCHANGED <<disk, Bookkeeping>>

-----------------------------------------------------------------------------
(* The transitions: what a handler prepares, stages and commits.           *)

\* A handler with a new manifest n has drawn a transition id.
Prepared(n, supersedes, events, recipients) ==
  /\ nextTx \in TxId
  /\ draft' = SavedManifest(n, nextTx, supersedes,
                            {TransitionEvent(event, nextTx) : event \in events},
                            IF saved.m.phase = "absent" THEN nextTx ELSE saved.born)
  /\ todo' = recipients
  /\ pc' = "stage" /\ msg' = NoMessage
  /\ nextTx' = nextTx + 1

Start(initiator, peers, minimum, rounds, max, stop) ==
  /\ pc = "prepare" /\ saved.m.phase = "absent"
  /\ ValidStart(initiator, peers, minimum, rounds, max)
  /\ LET n == StartedManifest(initiator, peers, minimum, rounds, max, stop)
     IN  Prepared(n, {}, {"dialogue_started"}, Recipients(manifest, n, initiator))
  /\ UNCHANGED <<disk, faults, clean, committed>>

\* The submission file is written before anything else.
Submit(participant, kind, round, payload) ==
  /\ pc = "prepare" /\ saved.m.phase # "absent"
  /\ participant \in ParticipantNames(manifest)
  /\ SubmitOutcome(manifest, participant, kind, round, payload) = "accepted"
  /\ files' = {f \in files : Path(f) # [kind |-> kind, round |-> round,
                                        participant |-> participant]}
              \cup {[kind |-> kind, round |-> round,
                     participant |-> participant, payload |-> payload]}
  /\ LET n == SubmittedManifest(manifest, participant, kind, payload)
     IN  Prepared(n, {},
                  {"submission_received"} \cup
                    (IF n.phase = "complete" THEN {"dialogue_completed"} ELSE {}),
                  Recipients(manifest, n, participant))
  /\ UNCHANGED <<saved, final, outbox, audit, faults, clean, committed>>

Extend(participant, id, additional) ==
  /\ pc = "prepare" /\ saved.m.phase # "absent"
  /\ participant = manifest.initiator
  /\ CanExtend(manifest, id, additional)
  /\ LET n == ExtendedManifest(manifest, id, additional)
         replaced == {i \in DOMAIN outbox : /\ i.recipient = participant
                                            /\ outbox[i].kind = "synthesis"
                                            /\ outbox[i].status \in Live}
     IN  Prepared(n,
                  IF manifest.phase = "collecting_synthesis" THEN replaced ELSE {},
                  {"rounds_extended"}, Recipients(manifest, n, participant))
  /\ UNCHANGED <<disk, faults, clean, committed>>

Cancel(participant) ==
  /\ pc = "prepare" /\ manifest.phase \in Collecting
  /\ participant \in ParticipantNames(manifest)
  /\ LET n == CancelledManifest(manifest)
     IN  Prepared(n, {i \in DOMAIN outbox : outbox[i].status \in Live},
                  {"dialogue_cancelled"}, Recipients(manifest, n, participant))
  /\ UNCHANGED <<disk, faults, clean, committed>>

\* The call was a duplicate, stale or refused: nothing is written.
Refuse == pc = "prepare" /\ Return /\ UNCHANGED <<disk, Bookkeeping>>

Tx == draft.committed_transition_id

\* Mutant: a final.json that is already there is kept.
MustWriteFinal_Once == draft.m.phase = "complete" /\ final = 0

\* _complete_dialogue writes final.json before it queues the notices.
MustWriteFinal == draft.m.phase = "complete" /\ final # Tx

WriteFinal ==
  /\ pc = "stage" /\ MustWriteFinal
  /\ final' = Tx
  /\ UNCHANGED <<saved, files, outbox, audit, handler, Bookkeeping>>

\* _queue
Queue ==
  /\ pc = "stage" /\ ~MustWriteFinal /\ todo # {}
  /\ LET id == [tx |-> Tx, recipient |-> First(todo)]
         record == [kind |-> RequestKind(draft.m), round |-> draft.m.current_round,
                    status |-> "staged", queued_audited |-> FALSE]
     IN  outbox' = [i \in DOMAIN outbox \cup {id} |-> IF i = id THEN record ELSE outbox[i]]
  /\ todo' = todo \ {First(todo)} /\ UNCHANGED <<pc, draft, msg>>
  /\ UNCHANGED <<saved, files, final, audit, Bookkeeping>>

\* _save_manifest: the commit point.
Commit ==
  /\ pc = "stage" /\ ~MustWriteFinal /\ todo = {}
  /\ saved' = draft
  /\ committed' = committed \cup {Tx}
  /\ pc' = "audit" /\ draft' = NothingSaved /\ UNCHANGED <<todo, msg>>
  /\ UNCHANGED <<files, final, outbox, audit, nextTx, faults, clean>>

-----------------------------------------------------------------------------
(* The participants' side: wait and the relays, ack, retry.                *)

\* A poll claims the message, or a relay hands it to the session.
HandOver(id) ==
  /\ pc = "idle" /\ HasManifest(id) /\ outbox[id].status = "pending" /\ MayDeliver
  /\ SetStatus(id, "delivered")
  /\ UNCHANGED <<saved, files, final, audit, handler, Bookkeeping>>

\* A claim expires unanswered, or retry re-arms an unanswered delivery.
Rearm(id) ==
  /\ pc = "idle" /\ HasManifest(id) /\ outbox[id].status = "delivered"
  /\ outbox[id].kind = "complete" \/ ~ResponseIsSafe(id)
  /\ SetStatus(id, "pending")
  /\ UNCHANGED <<saved, files, final, audit, handler, Bookkeeping>>

Acknowledge(id) ==
  /\ pc = "idle" /\ HasManifest(id) /\ outbox[id].status = "delivered"
  /\ ResponseIsSafe(id)
  /\ SetStatus(id, "acknowledged")
  /\ UNCHANGED <<saved, files, final, audit, handler, Bookkeeping>>

\* _recover_safe_acknowledgement, first write: the intent in the manifest.
RecoverAckIntent(id) ==
  /\ \/ pc = "idle" /\ pc' = "ack" /\ UNCHANGED todo
     \/ pc = "recover_outbox" /\ msg = NoMessage /\ id \in todo
        /\ pc' = "recover_ack" /\ todo' = todo \ {id}
  /\ CanRecoverAck(id)
  /\ saved' = [saved EXCEPT !.pending_audit_events = @ \cup
                 {MessageEvent("message_acknowledgement_recovered", id)}]
  /\ msg' = id /\ UNCHANGED draft
  /\ UNCHANGED <<files, final, outbox, audit, Bookkeeping>>

\* Second write: the record.  The audit event follows (AppendIntent).
RecoverAckRecord ==
  /\ pc \in {"ack", "recover_ack"}
  /\ SetStatus(msg, "acknowledged")
  /\ pc' = IF pc = "ack" THEN "ack_audit" ELSE "recover_ack_audit"
  /\ UNCHANGED <<draft, todo, msg, saved, files, final, audit, Bookkeeping>>

-----------------------------------------------------------------------------
(* Failures and recovery.                                                  *)

\* An exception: the handler ends, what it wrote stays, the broker serves on.
Fail ==
  /\ pc \notin {"idle", "down"} \cup Recovering
  /\ faults < MaxFaults
  /\ Return /\ faults' = faults + 1 /\ clean' = FALSE
  /\ UNCHANGED <<disk, nextTx, committed>>

\* The process dies in the middle of a handler or of recovery; between calls
\* it may be stopped or die at any time, which the bound does not count.
Crash ==
  /\ pc # "down" /\ (pc = "idle" \/ faults < MaxFaults)
  /\ pc' = "down" /\ draft' = NothingSaved /\ todo' = {} /\ msg' = NoMessage
  /\ faults' = IF pc = "idle" THEN faults ELSE faults + 1
  /\ UNCHANGED <<disk, nextTx, clean, committed>>

\* Before it serves, the broker runs _reconcile_dialogue_audits and then
\* _reconcile_outbox_messages.
Restart ==
  /\ pc = "down"
  /\ Goto(IF saved.pending_audit_events # {} THEN "recover_drain" ELSE "recover_final")
  /\ UNCHANGED <<disk, Bookkeeping>>

\* Mutant: committed staged records are left to later calls.
NeedsReconciling_PendingOnly(id) ==
  \/ ~HasManifest(id) /\ outbox[id].status # "orphaned"
  \/ outbox[id].status = "pending" /\ (~outbox[id].queued_audited \/ ToSupersede # {})
  \/ CanRecoverAck(id)

\* The records _reconcile_outbox_messages changes.  Another delivery attempt
\* for a pending record that is already announced is HandOver, once serving.
NeedsReconciling(id) ==
  \/ ~HasManifest(id) /\ outbox[id].status # "orphaned"
  \/ outbox[id].status = "staged"
  \/ outbox[id].status = "pending" /\ (~outbox[id].queued_audited \/ ToSupersede # {})
  \/ CanRecoverAck(id)

\* An uncommitted final.json is discarded.
RecoverFinal ==
  /\ pc = "recover_final"
  /\ final' = IF saved.m.phase \in Terminal THEN final ELSE 0
  /\ pc' = "recover_outbox" /\ todo' = {id \in DOMAIN outbox : NeedsReconciling(id)}
  /\ UNCHANGED <<draft, msg, saved, files, outbox, audit, Bookkeeping>>

\* The next record of the sweep is settled with one write.
RecoverRecord(id, status) ==
  /\ pc = "recover_outbox" /\ msg = NoMessage /\ id \in todo
  /\ SetStatus(id, status)
  /\ todo' = todo \ {id} /\ UNCHANGED <<pc, draft>>
  /\ UNCHANGED <<saved, files, final, audit, Bookkeeping>>

RecoverOrphan(id) ==
  ~HasManifest(id) /\ RecoverRecord(id, "orphaned") /\ UNCHANGED msg

RecoverAbort(id) ==
  /\ HasManifest(id) /\ outbox[id].status = "staged" /\ id \notin ToActivate
  /\ RecoverRecord(id, "aborted") /\ UNCHANGED msg

\* A committed staged record is activated, a pending one announced again.
RecoverActive(id) ==
  /\ HasManifest(id) /\ ToSupersede = {}
  /\ id \in ToActivate \/ outbox[id].status = "pending"
  /\ RecoverRecord(id, "pending") /\ msg' = id

\* A record of the sweep was superseded before its turn.
RecoverSkip(id) ==
  /\ pc = "recover_outbox" /\ msg = NoMessage /\ id \in todo
  /\ outbox[id].status = "superseded"
  /\ todo' = todo \ {id} /\ UNCHANGED <<pc, draft, msg>>
  /\ UNCHANGED <<disk, Bookkeeping>>

Recovered ==
  /\ pc = "recover_outbox" /\ msg = NoMessage /\ todo = {}
  /\ Return /\ clean' = TRUE
  /\ UNCHANGED <<disk, nextTx, faults, committed>>

-----------------------------------------------------------------------------
Transition ==
  \/ \E a \in StartArguments :
       Start(a.initiator, a.peers, a.minimum, a.rounds, a.max, a.stop)
  \/ \E participant \in Participant :
       \E kind \in {k \in Kind : IsExpected(manifest, participant, k)} :
         \E round \in Round, payload \in Payload(kind) :
           Submit(participant, kind, round, payload)
  \/ \E participant \in Participant, id \in ExtensionId :
       \E additional \in 1..MaxCouncilRounds : Extend(participant, id, additional)
  \/ \E participant \in Participant : Cancel(participant)
  \/ Refuse

\* The steps of a handler, or of recovery, that has begun.
HandlerStep ==
  \/ Transition
  \/ AppendIntent
  \/ ClearIntents
  \/ Supersede
  \/ Activate
  \/ AppendQueued
  \/ \E status \in Live : MarkQueuedAndDeliver(status)
  \/ Activated
  \/ WriteFinal
  \/ Queue
  \/ Commit
  \/ RecoverAckRecord

RecoveryStep ==
  \/ Restart
  \/ RecoverFinal
  \/ /\ pc = "recover_outbox"
     /\ \E id \in todo : \/ RecoverOrphan(id) \/ RecoverAbort(id)
                        \/ RecoverActive(id) \/ RecoverSkip(id)
  \/ Recovered

ParticipantStep ==
  \/ \E id \in DOMAIN outbox : HandOver(id)
  \/ \E id \in DOMAIN outbox : Rearm(id)
  \/ \E id \in DOMAIN outbox : Acknowledge(id)
  \/ \E id \in DOMAIN outbox : RecoverAckIntent(id)

Next == Begin \/ HandlerStep \/ RecoveryStep \/ ParticipantStep \/ Fail \/ Crash

Spec == Init /\ [][Next]_vars

\* The broker process finishes what it began and is restarted when it dies;
\* calls about the dialogue keep arriving, since a caller whose call failed
\* sends it again.
FairSpec ==
  Spec /\ WF_vars(Begin) /\ WF_vars(HandlerStep) /\ WF_vars(RecoveryStep)

-----------------------------------------------------------------------------
(* Properties                                                              *)

\* Every file and every handler state is well formed.
TypeOK ==
  /\ manifest \in Manifest /\ Loaded(draft.m) \in Manifest
  /\ files \subseteq Submission
  /\ final \in 0..MaxTransitions
  /\ DOMAIN outbox \subseteq MessageId
  /\ \A id \in DOMAIN outbox : outbox[id] \in OutboxRecord
  /\ msg \in MessageId \cup {NoMessage}
  /\ nextTx \in 1..(MaxTransitions + 1) /\ faults \in 0..MaxFaults
  /\ clean \in BOOLEAN /\ committed \subseteq TxId

\* Seen from its manifest and the files it names, the dialogue moves exactly
\* as DialogueProtocol says, in one step per transition, whatever fails or
\* crashes between the writes: nothing uncommitted shows, no committed
\* submission is overwritten by a retried one, no handler's effect is applied
\* twice or torn.
Dialogue == INSTANCE DialogueProtocol WITH dialogue <- manifest
ImplementsDialogue == Dialogue!DialogueSpec

\* A message reaches a recipient if and only if its transition committed: one
\* of an uncommitted transition is never shown, and one of a committed
\* transition is never aborted or orphaned, nor left staged once a later
\* transition has committed (protocol.md, "Delivery and recovery").
CommittedNeverLost ==
  \A id \in DOMAIN outbox :
    IF id.tx \in committed
    THEN /\ outbox[id].status \notin {"aborted", "orphaned"}
         /\ outbox[id].status = "staged" => id.tx = saved.committed_transition_id
    ELSE outbox[id].status \in {"staged", "aborted", "orphaned"}

\* No recipient sees a reopened round or a cancellation while the request it
\* replaces is still live.
SupersededFirst ==
  (\E id \in DOMAIN outbox : /\ id.tx = saved.committed_transition_id
                             /\ outbox[id].status # "staged")
    => ToSupersede = {}

\* The audit log has every committed transition exactly once, or the manifest
\* still holds the intent to write it; it has no uncommitted transition and
\* no message twice, however often a write was retried after a crash.
AuditedOnce ==
  LET intended == saved.pending_audit_events
  IN  /\ \A e \in DOMAIN audit : audit[e] = 1 /\ e.tx \in committed
      /\ \A tx \in committed :
           \E e \in DOMAIN audit \cup intended : e.tx = tx /\ e.recipient = "none"
      /\ manifest.phase = "complete" =>
           TransitionEvent("dialogue_completed", saved.committed_transition_id)
             \in DOMAIN audit \cup intended

\* A complete dialogue has its final.json, and every completion notice that
\* was ever committed refers to exactly that file, although an earlier failed
\* attempt may have written another one (invariant I6 of the artifact oracle).
CompletionReferenceValid ==
  manifest.phase = "complete" =>
    /\ final = saved.committed_transition_id
    /\ \A id \in DOMAIN outbox :
         outbox[id].kind = "complete" /\ id.tx \in committed => id.tx = final

\* An acknowledged request stays answered: its response is in the durable
\* manifest, or the dialogue has moved past it, in every later state and
\* after every crash.
AcknowledgedIsAnswered ==
  \A id \in DOMAIN outbox :
    outbox[id].status = "acknowledged" => ResponseIsSafe(id)

\* Once the broker has recovered, and as long as no handler fails, between
\* calls no record is staged (I1), no audit intent is left (I2), replaced
\* requests are superseded, and a terminal dialogue has no unanswered live
\* request (I9).
Converged ==
  pc = "idle" /\ clean =>
    /\ saved.pending_audit_events = {}
    /\ ToSupersede = {}
    /\ \A id \in DOMAIN outbox :
         /\ outbox[id].status # "staged"
         /\ manifest.phase \in Terminal /\ outbox[id].kind \in Kind
              /\ outbox[id].status \in Live =>
                \E s \in Target(manifest, outbox[id].kind, outbox[id].round) :
                  s.participant = id.recipient

\* The outbox is sound: well formed, it shows what was committed and nothing
\* else, replaced requests before what replaces them, no acknowledgement
\* outlives its answer, and nothing is left over once the broker has recovered.
OutboxSound ==
  TypeOK /\ CommittedNeverLost /\ SupersededFirst /\ AcknowledgedIsAnswered /\ Converged

\* After finitely many faults, what was committed is also announced: audit
\* intents are drained, replaced requests superseded, staged ones activated.
EventuallyAnnounced ==
  (saved.pending_audit_events # {} \/ ToSupersede # {} \/ ToActivate # {})
    ~> (saved.pending_audit_events = {} /\ ToSupersede = {} /\ ToActivate = {})

\* "final.json therefore exists exactly when a dialogue is complete"
\* (references/protocol.md): after a restart, and while nothing fails.
FinalExactlyWhenComplete ==
  pc = "idle" /\ clean => (final # 0 <=> manifest.phase = "complete")
=============================================================================
