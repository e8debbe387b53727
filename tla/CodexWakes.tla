----------------------------- MODULE CodexWakes -----------------------------
(***************************************************************************)
(* How the requests of one Codex participant reach it (scripts/council.py).*)
(* An idle Codex task cannot be called.  A router task polls the broker    *)
(* (pending_wakes), which leases it opaque notifications; the router       *)
(* forwards them and reports (wake_ack); the woken task fetches its        *)
(* requests (wait), which claims each for a while, and answers them.  A    *)
(* request that stays unclaimed after the last wake is put on the          *)
(* attention list of its dialogue.  The participant may be bound again at  *)
(* any time, each time with its exact task: a new binding generation       *)
(* replaces the old one.                                                   *)
(*                                                                         *)
(* Time is abstracted to its effect: a claim, a lease, a back-off or a     *)
(* binding that has a deadline may pass it at any moment.  Handlers hold   *)
(* the broker lock; pc is the place of the one in progress between two of  *)
(* its writes, where it may also fail or the process may die.              *)
(*                                                                         *)
(* The messages are those of one dialogue.  Recovered acknowledgements and *)
(* transitions are one write here; their audit lines, and their writes one *)
(* by one, are the subject of BrokerTransactions.                          *)
(***************************************************************************)
EXTENDS Naturals, Sequences, FiniteSets

CONSTANTS
  Message,      \* the outbox records of the participant
  Notice,       \* those that are dialogue_complete notices
  MaxWakes,     \* WAKE_MAX_ATTEMPTS
  MaxBindings,  \* bound on binding generations
  MaxFaults     \* bound on exceptions and crashes

ASSUME MessageAssumption == Notice \subseteq Message
ASSUME BoundAssumption == /\ MaxWakes \in Nat \ {0}
                          /\ MaxBindings \in Nat /\ MaxFaults \in Nat

VARIABLES
  record,      \* outbox/<participant>/<message>.json
  attended,    \* needs_attention of the manifest
  intents,     \* its pending_audit_events, those of attention entries
  audit,       \* how often audit.jsonl has the attention event of a message
  answered,    \* the messages whose response is recorded
  reg,         \* the registration in memory: its generation, 0 if none
  route,       \* the persisted registration: its generation, 0 if none
  expired,     \* the generations whose binding lease has passed
  bindings,    \* how many generations there have been
  waiters,     \* the generations under which a wait is blocked
  pc,          \* the place of the handler in progress
  cur,         \* the message it works on, or None
  todo,        \* the records bind has yet to re-arm
  faults,      \* exceptions and crashes so far
  replied,     \* history: the last generation whose bind was answered, 0 if unbound since
  holder,      \* history: the generation that claimed a message last
  wakeLog,     \* history: the generations to which wakes were leased
  attentionLog \* history: the same of attention notifications

delivery == <<record, attended, intents, audit, answered>>
binding == <<reg, route, expired, bindings, replied>>
handler == <<pc, cur, todo>>
history == <<holder, wakeLog, attentionLog>>
vars == <<delivery, binding, waiters, handler, faults, history>>

-----------------------------------------------------------------------------

None == "none"

\* No generation is 0: it stands for no binding and for an empty field.
Generation == 1..MaxBindings
OptionalGeneration == 0..MaxBindings

\* A message the dialogue has not yet come to is staged.
Status == {"staged", "pending", "claimed", "acknowledged", "superseded"}

WakeStatus == {"none", "leased", "notified", "retry_pending", "consumed", "needs_attention"}

\* claim and wake_timer say whether claim_until_epoch, and the deadline that
\* goes with wake_status (wake_lease_until_epoch, wake_retry_after_epoch), are
\* still ahead.  Notification ids are places in wakeLog and attentionLog.
Record ==
  [status : Status, claim : {"none", "live", "expired"},
   wake_status : WakeStatus, wake_timer : BOOLEAN, wake_attempts : 0..MaxWakes,
   wake_notification_id : Nat, wake_binding_generation : OptionalGeneration,
   attention_timer : BOOLEAN, attention_attempts : 0..MaxWakes,
   attention_notified : BOOLEAN,
   attention_notification_id : Nat, attention_binding_generation : OptionalGeneration]

\* A record as a transition prepares it.
FreshRecord ==
  [status |-> "staged", claim |-> "none",
   wake_status |-> "none", wake_timer |-> FALSE, wake_attempts |-> 0,
   wake_notification_id |-> 0, wake_binding_generation |-> 0,
   attention_timer |-> FALSE, attention_attempts |-> 0, attention_notified |-> FALSE,
   attention_notification_id |-> 0, attention_binding_generation |-> 0]

Write(m, r) == record' = [record EXCEPT ![m] = r]

-----------------------------------------------------------------------------
(* Predicates and updates of one record.                                   *)

Active == {m \in Message : record[m].status # "staged"}

\* Nothing of it can still be replaced or followed.
Settled(m) == m \in answered \/ record[m].status = "superseded"

ResponseIsSafe(m) == m \in Notice \/ m \in answered

\* _recover_safe_acknowledgement: a notice is never acknowledged unasked.
CanRecoverAck(m) ==
  record[m].status = "claimed" /\ m \in answered /\ m \notin Notice

Claimable(r) == r.status = "pending" \/ (r.status = "claimed" /\ r.claim = "expired")

Claimed(r) == [r EXCEPT !.status = "claimed", !.claim = "live",
                        !.wake_status = "consumed", !.wake_timer = FALSE]

Superseded(r) == [r EXCEPT !.status = "superseded", !.claim = "none"]

Acknowledged(r) == [r EXCEPT !.status = "acknowledged", !.claim = "none"]

\* A claim whose holder let it expire is put back for the router.
Returned(r) == [r EXCEPT !.status = "pending", !.claim = "none",
                         !.wake_status = "retry_pending", !.wake_timer = FALSE]

\* Mutant: a wake the router reported as delivered is never tried again.
DueForWake_NeverAgain(r) ==
  /\ Claimable(r)
  /\ ~(r.wake_status = "leased" /\ r.wake_timer)
  /\ r.wake_status # "notified"

\* Neither a lease of the router nor the back-off after a wake is running.
DueForWake(r) ==
  Claimable(r) /\ ~(r.wake_status \in {"leased", "notified"} /\ r.wake_timer)

DueForAttention(r) ==
  ~r.attention_notified /\ r.attention_attempts < MaxWakes /\ ~r.attention_timer

\* Mutant: the wake attempts start again with the new binding.
Rearmed_ResetsAttempts(r, g) ==
  IF r.wake_binding_generation \in {0, g} THEN r
  ELSE [r EXCEPT !.wake_status = IF @ \in {"leased", "notified"} THEN "retry_pending" ELSE @,
                 !.wake_attempts = 0, !.wake_timer = FALSE,
                 !.wake_notification_id = 0, !.wake_binding_generation = 0]

\* _rearm_codex_notifications_for_binding, on one record: what was leased to
\* an earlier binding belongs to nobody any more.
Rearmed(r, g) ==
  LET w == IF r.wake_binding_generation \in {0, g} THEN r
           ELSE [r EXCEPT !.wake_status = IF @ \in {"leased", "notified"}
                                          THEN "retry_pending" ELSE @,
                          !.wake_timer = FALSE,
                          !.wake_notification_id = 0, !.wake_binding_generation = 0]
  IN  IF r.attention_binding_generation \in {0, g} THEN w
      ELSE [w EXCEPT !.attention_timer = FALSE, !.attention_attempts = 0,
                     !.attention_notified = FALSE,
                     !.attention_notification_id = 0, !.attention_binding_generation = 0]

-----------------------------------------------------------------------------

Init ==
  /\ record = [m \in Message |-> FreshRecord]
  /\ attended = {} /\ intents = {} /\ audit = [m \in Message |-> 0]
  /\ answered = {}
  /\ reg = 0 /\ route = 0 /\ expired = {} /\ bindings = 0 /\ replied = 0
  /\ waiters = {}
  /\ pc = "idle" /\ cur = None /\ todo = {}
  /\ faults = 0
  /\ holder = [m \in Message |-> 0]
  /\ wakeLog = [m \in Message |-> <<>>] /\ attentionLog = [m \in Message |-> <<>>]

Bound == reg # 0 /\ reg \notin expired

\* A claim of any record that can be claimed, for generation g.
ClaimFor(g) ==
  \E m \in Message : /\ Claimable(record[m])
                     /\ Write(m, Claimed(record[m]))
                     /\ holder' = [holder EXCEPT ![m] = g]

Done == pc' = "idle" /\ cur' = None /\ todo' = {}

\* _reconcile_safe_acknowledgements, one write a step, then on to the next place.
Reconcile(next) ==
  /\ IF \E m \in Message : CanRecoverAck(m)
     THEN /\ \E m \in Message : CanRecoverAck(m) /\ Write(m, Acknowledged(record[m]))
          /\ UNCHANGED pc
     ELSE pc' = next /\ UNCHANGED record
  /\ UNCHANGED <<cur, todo>>

\* _reconcile_durable_audits: append what the log lacks, then clear the intents.
Drain(ids, next) ==
  /\ IF \E m \in ids \cap intents : audit[m] = 0
     THEN /\ \E m \in ids \cap intents : /\ audit[m] = 0
                                         /\ audit' = [audit EXCEPT ![m] = @ + 1]
          /\ UNCHANGED <<intents, pc>>
     ELSE /\ intents' = intents \ ids
          /\ pc' = next
          /\ UNCHANGED audit
  /\ UNCHANGED <<cur, todo>>

-----------------------------------------------------------------------------
(* The bindings of the participant.                                        *)

\* bind, by a session that may: a new capability, hence a new generation.
Bind ==
  /\ pc = "idle" /\ bindings < MaxBindings
  /\ bindings' = bindings + 1
  /\ reg' = bindings + 1
  /\ pc' = "bind_persist"
  /\ UNCHANGED <<delivery, route, expired, replied, waiters, cur, todo, faults, history>>

BindPersist ==
  /\ pc = "bind_persist"
  /\ route' = reg
  /\ pc' = "bind_rearm" /\ todo' = Message
  /\ UNCHANGED <<delivery, reg, expired, bindings, replied, waiters, cur, faults, history>>

BindRearm ==
  /\ pc = "bind_rearm"
  /\ IF todo = {}
     THEN pc' = "bind_retry" /\ UNCHANGED <<record, todo>>
     ELSE \E m \in todo : /\ Write(m, Rearmed(record[m], reg))
                          /\ todo' = todo \ {m}
                          /\ UNCHANGED pc
  /\ UNCHANGED <<attended, intents, audit, answered, binding, waiters, cur, faults, history>>

\* Mutant: the registration is taken to be persisted already.
BindAgain_NotPersisted ==
  /\ pc = "idle" /\ Bound
  /\ pc' = "bind_retry"
  /\ UNCHANGED <<delivery, binding, waiters, cur, todo, faults, history>>

\* bind with the capability already bound: a call repeated by its session.
BindAgain ==
  /\ pc = "idle" /\ Bound
  /\ route' = reg
  /\ pc' = "bind_retry"
  /\ UNCHANGED <<delivery, reg, expired, bindings, replied, waiters, cur, todo, faults, history>>

\* retry: for a Codex participant it only reconciles.  Then bind answers.
BindReply ==
  /\ pc = "bind_retry"
  /\ Reconcile("idle")
  /\ replied' = IF pc' = "idle" THEN reg ELSE replied
  /\ UNCHANGED <<attended, intents, audit, answered, reg, route, expired, bindings,
                 waiters, faults, history>>

\* unbind, and the removal of an expired registration (ping, _registration):
\* from the memory, then from the file.
Unbind ==
  /\ pc = "idle" /\ reg # 0
  /\ reg' = 0
  /\ pc' = "unbind"
  /\ UNCHANGED <<delivery, route, expired, bindings, replied, waiters, cur, todo, faults, history>>

UnbindForget ==
  /\ pc = "unbind"
  /\ route' = 0 /\ replied' = 0
  /\ Done
  /\ UNCHANGED <<delivery, reg, expired, bindings, waiters, faults, history>>

-----------------------------------------------------------------------------
(* The participant.                                                        *)

\* wait begins: it is authorised, and reconciles before it looks.
Wait ==
  /\ pc = "idle" /\ Bound
  /\ pc' = "wait"
  /\ UNCHANGED <<delivery, binding, waiters, cur, todo, faults, history>>

WaitReconcile ==
  /\ pc = "wait"
  /\ Reconcile("wait_scan")
  /\ UNCHANGED <<attended, intents, audit, answered, binding, waiters, faults, history>>

\* The first look at the records.  With nothing to claim, wait sleeps (and
\* releases the lock) or returns nothing.
WaitScan ==
  /\ pc = "wait_scan"
  /\ IF \E m \in Message : Claimable(record[m])
     THEN ClaimFor(reg) /\ UNCHANGED waiters
     ELSE waiters' \in {waiters, waiters \cup {reg}} /\ UNCHANGED <<record, holder>>
  /\ Done
  /\ UNCHANGED <<attended, intents, audit, answered, binding, faults, wakeLog, attentionLog>>

\* Mutant: a wait that was asleep does not look at the binding again.
WaitResume_AnyBinding(g) ==
  /\ pc = "idle" /\ g \in waiters
  /\ IF reg # 0 /\ \E m \in Message : Claimable(record[m])
     THEN ClaimFor(g)
     ELSE UNCHANGED <<record, holder>>
  /\ waiters' = waiters \ {g}
  /\ UNCHANGED <<attended, intents, audit, answered, binding, handler, faults,
                 wakeLog, attentionLog>>

\* A wait that was asleep looks again, if its binding is still the current one;
\* otherwise, or at its deadline, it ends.
WaitResume(g) ==
  /\ pc = "idle" /\ g \in waiters
  /\ IF Bound /\ reg = g /\ \E m \in Message : Claimable(record[m])
     THEN ClaimFor(g)
     ELSE UNCHANGED <<record, holder>>
  /\ waiters' = waiters \ {g}
  /\ UNCHANGED <<attended, intents, audit, answered, binding, handler, faults,
                 wakeLog, attentionLog>>

Ack(m) ==
  /\ pc = "idle" /\ Bound
  /\ record[m].status = "claimed" /\ ResponseIsSafe(m)
  /\ Write(m, Acknowledged(record[m]))
  /\ UNCHANGED <<attended, intents, audit, answered, binding, waiters, handler, faults, history>>

\* start, submit, extend or cancel, by this or another participant, as far as
\* it concerns m.  It begins with the intents of the dialogue.
Transition(m) ==
  /\ pc = "idle"
  /\ pc' = "drain" /\ cur' = m
  /\ UNCHANGED <<delivery, binding, waiters, todo, faults, history>>

TransitionDrain ==
  /\ pc = "drain"
  /\ Drain(Message, "commit")
  /\ UNCHANGED <<record, attended, answered, binding, waiters, faults, history>>

\* It is refused, records the response to m, replaces m, or activates m.  The
\* notice is the last message of the dialogue.
TransitionCommit ==
  /\ pc = "commit"
  /\ \/ UNCHANGED <<record, answered>>
     \/ /\ Bound /\ cur \notin Notice
        /\ record[cur].status \notin {"staged", "superseded"}
        /\ answered' = answered \cup {cur}
        /\ UNCHANGED record
     \/ /\ Active \cap Notice = {}
        /\ \/ /\ record[cur].status \in {"pending", "claimed"}
              /\ Write(cur, Superseded(record[cur]))
           \/ /\ record[cur].status = "staged" /\ \A m \in Active : Settled(m)
              /\ Write(cur, [record[cur] EXCEPT !.status = "pending"])
        /\ UNCHANGED answered
  /\ Done
  /\ UNCHANGED <<attended, intents, audit, binding, waiters, faults, history>>

-----------------------------------------------------------------------------
(* The router: pending_wakes, one record at a time, and wake_ack.          *)

Polling(m) == \/ pc = "idle" /\ Bound
              \/ pc = "poll" /\ cur = m

HolderGone(r) == r.status = "claimed" /\ r.claim = "expired" /\ r.wake_status = "consumed"

\* _recover_expired_consumed_claim: acknowledge the record, or put it back and go on.
PollRecover(m) ==
  /\ Polling(m) /\ HolderGone(record[m])
  /\ IF CanRecoverAck(m)
     THEN Write(m, Acknowledged(record[m])) /\ Done
     ELSE Write(m, Returned(record[m])) /\ pc' = "poll" /\ cur' = m /\ UNCHANGED todo
  /\ UNCHANGED <<attended, intents, audit, answered, binding, waiters, faults, history>>

PollWake(m) ==
  /\ Polling(m) /\ ~HolderGone(record[m]) /\ DueForWake(record[m])
  /\ record[m].wake_attempts < MaxWakes
  /\ wakeLog' = [wakeLog EXCEPT ![m] = Append(@, reg)]
  /\ Write(m, [record[m] EXCEPT !.wake_status = "leased", !.wake_timer = TRUE,
                                !.wake_attempts = @ + 1,
                                !.wake_notification_id = Len(wakeLog'[m]),
                                !.wake_binding_generation = reg])
  /\ Done
  /\ UNCHANGED <<attended, intents, audit, answered, binding, waiters, faults,
                 holder, attentionLog>>

\* After the last wake: _record_needs_attention, unless the record says it is done.
PollEscalate(m) ==
  /\ Polling(m) /\ ~HolderGone(record[m]) /\ DueForWake(record[m])
  /\ record[m].wake_attempts >= MaxWakes
  /\ \/ record[m].wake_status # "needs_attention"
     \/ DueForAttention(record[m])
  /\ cur' = m /\ UNCHANGED todo
  /\ IF record[m].wake_status = "needs_attention"
     THEN pc' = "attention_lease" /\ UNCHANGED <<attended, intents>>
     ELSE /\ pc' = "attention_audit"
          /\ attended' = attended \cup {m}
          /\ intents' = IF m \in attended THEN intents ELSE intents \cup {m}
  /\ UNCHANGED <<record, audit, answered, binding, waiters, faults, history>>

\* Mutant: the intent is cleared with the event still to be appended.
AttentionAudit_NotAppended ==
  /\ pc = "attention_audit"
  /\ intents' = intents \ {cur}
  /\ pc' = "attention_record"
  /\ UNCHANGED <<record, attended, audit, answered, binding, waiters, cur, todo, faults, history>>

AttentionAudit ==
  /\ pc = "attention_audit"
  /\ Drain({cur}, "attention_record")
  /\ UNCHANGED <<record, attended, answered, binding, waiters, faults, history>>

AttentionRecord ==
  /\ pc = "attention_record"
  /\ Write(cur, [record[cur] EXCEPT !.wake_status = "needs_attention", !.wake_timer = FALSE])
  /\ pc' = "attention_lease"
  /\ UNCHANGED <<attended, intents, audit, answered, binding, waiters, cur, todo, faults, history>>

\* The notification of it is leased like a wake, and as often.
AttentionLease ==
  /\ pc = "attention_lease"
  /\ IF DueForAttention(record[cur])
     THEN /\ attentionLog' = [attentionLog EXCEPT ![cur] = Append(@, reg)]
          /\ Write(cur, [record[cur] EXCEPT
                           !.attention_timer = TRUE, !.attention_attempts = @ + 1,
                           !.attention_notification_id = Len(attentionLog'[cur]),
                           !.attention_binding_generation = reg])
     ELSE UNCHANGED <<record, attentionLog>>
  /\ Done
  /\ UNCHANGED <<attended, intents, audit, answered, binding, waiters, faults,
                 holder, wakeLog>>

\* Mutant: any report about the last notification settles the wake.
WakeAck_AnyState(m, id, delivered) ==
  /\ pc = "idle" /\ reg # 0
  /\ record[m].wake_notification_id = id
  /\ record[m].wake_binding_generation = reg
  /\ Write(m, [record[m] EXCEPT
                 !.wake_status = IF delivered THEN "notified" ELSE "retry_pending",
                 !.wake_timer = delivered])
  /\ UNCHANGED <<attended, intents, audit, answered, binding, waiters, handler, faults, history>>

\* wake_ack of a wake: it settles the lease it was given under, and nothing
\* else.  The router may report late, and more than once.
WakeAck(m, id, delivered) ==
  /\ pc = "idle" /\ reg # 0
  /\ record[m].wake_notification_id = id
  /\ record[m].wake_binding_generation = reg
  /\ record[m].wake_status = "leased"
  /\ Write(m, [record[m] EXCEPT
                 !.wake_status = IF delivered THEN "notified" ELSE "retry_pending",
                 !.wake_timer = delivered])
  /\ UNCHANGED <<attended, intents, audit, answered, binding, waiters, handler, faults, history>>

\* wake_ack of an attention notification.
AttentionAck(m, id, delivered) ==
  /\ pc = "idle" /\ reg # 0
  /\ record[m].attention_notification_id = id
  /\ record[m].attention_binding_generation = reg
  /\ Write(m, [record[m] EXCEPT !.attention_timer = FALSE,
                                !.attention_notified = IF delivered THEN TRUE ELSE @])
  /\ UNCHANGED <<attended, intents, audit, answered, binding, waiters, handler, faults, history>>

-----------------------------------------------------------------------------
(* Time and faults.  A deadline that passes while a handler runs is seen   *)
(* by the next one: a handler compares deadlines with one reading of now.  *)

ClaimExpires(m) ==
  /\ pc \in {"idle", "down"} /\ record[m].claim = "live"
  /\ Write(m, [record[m] EXCEPT !.claim = "expired"])
  /\ UNCHANGED <<attended, intents, audit, answered, binding, waiters, handler, faults, history>>

WakeTimerEnds(m) ==
  /\ pc \in {"idle", "down"} /\ record[m].wake_timer
  /\ Write(m, [record[m] EXCEPT !.wake_timer = FALSE])
  /\ UNCHANGED <<attended, intents, audit, answered, binding, waiters, handler, faults, history>>

AttentionTimerEnds(m) ==
  /\ pc \in {"idle", "down"} /\ record[m].attention_timer
  /\ Write(m, [record[m] EXCEPT !.attention_timer = FALSE])
  /\ UNCHANGED <<attended, intents, audit, answered, binding, waiters, handler, faults, history>>

\* The lease of a binding passes.  Only unbind or a sweep forgets it.
BindingExpires(g) ==
  /\ pc \in {"idle", "down"} /\ g \in {reg, route} \ ({0} \cup expired)
  /\ expired' = expired \cup {g}
  /\ UNCHANGED <<delivery, reg, route, bindings, replied, waiters, handler, faults, history>>

Recovering == {"recover_audit", "recover_acks"}

\* A write fails and its handler ends; the broker goes on serving.
Fail ==
  /\ pc \notin Recovering \cup {"idle", "down"} /\ faults < MaxFaults
  /\ Done /\ faults' = faults + 1
  /\ UNCHANGED <<delivery, binding, waiters, history>>

Crash ==
  /\ pc # "down" /\ faults < MaxFaults
  /\ pc' = "down" /\ cur' = None /\ todo' = {}
  /\ reg' = 0 /\ waiters' = {} /\ faults' = faults + 1
  /\ UNCHANGED <<delivery, route, expired, bindings, replied, history>>

\* _restore_registrations drops a route whose lease has passed.
Restart ==
  /\ pc = "down"
  /\ route' = IF route \in expired THEN 0 ELSE route
  /\ reg' = route'
  /\ pc' = "recover_audit"
  /\ UNCHANGED <<delivery, expired, bindings, replied, waiters, cur, todo, faults, history>>

RecoverAudit ==
  /\ pc = "recover_audit"
  /\ Drain(Message, "recover_acks")
  /\ UNCHANGED <<record, attended, answered, binding, waiters, faults, history>>

RecoverAcks ==
  /\ pc = "recover_acks"
  /\ Reconcile("idle")
  /\ UNCHANGED <<attended, intents, audit, answered, binding, waiters, faults, history>>

-----------------------------------------------------------------------------

\* A handler that has begun, or a recovery, goes on.
Continue ==
  \/ BindPersist \/ BindRearm \/ BindReply \/ UnbindForget
  \/ WaitReconcile \/ WaitScan
  \/ TransitionDrain \/ TransitionCommit
  \/ AttentionAudit \/ AttentionRecord \/ AttentionLease
  \/ RecoverAudit \/ RecoverAcks

Poll(m) == PollRecover(m) \/ PollWake(m) \/ PollEscalate(m)

Calls ==
  \/ Bind \/ BindAgain \/ Unbind \/ Wait
  \/ \E g \in waiters : WaitResume(g)
  \/ \E m \in Message : Ack(m) \/ Transition(m)
  \/ \E m \in Message, delivered \in BOOLEAN :
       \/ \E id \in DOMAIN wakeLog[m] : WakeAck(m, id, delivered)
       \/ \E id \in DOMAIN attentionLog[m] : AttentionAck(m, id, delivered)

Timers ==
  \/ \E m \in Message : ClaimExpires(m) \/ WakeTimerEnds(m) \/ AttentionTimerEnds(m)
  \/ \E g \in Generation : BindingExpires(g)

Next ==
  \/ Calls \/ Continue \/ \E m \in Message : Poll(m)
  \/ Timers \/ Fail \/ Crash \/ Restart

Spec == Init /\ [][Next]_vars

\* The router polls on a schedule and the lock lets it in; deadlines pass;
\* a handler that has begun goes on; the daemon is started again.
Fairness ==
  /\ WF_vars(Continue) /\ WF_vars(Restart)
  /\ \A m \in Message : /\ SF_vars(Poll(m))
                        /\ SF_vars(ClaimExpires(m)) /\ SF_vars(WakeTimerEnds(m))

FairSpec == Spec /\ Fairness

-----------------------------------------------------------------------------

TypeOK ==
  /\ record \in [Message -> Record]
  /\ attended \subseteq Message /\ intents \subseteq attended
  /\ audit \in [Message -> Nat] /\ answered \subseteq Message \ Notice
  /\ reg \in OptionalGeneration /\ route \in OptionalGeneration
  /\ expired \subseteq Generation /\ bindings \in OptionalGeneration
  /\ replied \in OptionalGeneration /\ waiters \subseteq Generation
  /\ pc \in {"idle", "down", "bind_persist", "bind_rearm", "bind_retry", "unbind",
             "wait", "wait_scan", "drain", "commit", "poll",
             "attention_audit", "attention_record", "attention_lease"} \cup Recovering
  /\ cur \in Message \cup {None} /\ todo \subseteq Message
  /\ faults \in 0..MaxFaults
  /\ holder \in [Message -> OptionalGeneration]
  /\ wakeLog \in [Message -> Seq(Generation)]
  /\ attentionLog \in [Message -> Seq(Generation)]

\* Where g occurs in a log.
Occurrences(log, g) == {i \in DOMAIN log : log[i] = g}

\* The attention notifications of m leased to generation g.
AttentionCount(m, g) == Cardinality(Occurrences(attentionLog[m], g))

\* Whatever expires, crashes or is bound again, a message causes at most
\* MaxWakes wakes in its life and MaxWakes attention notices to each binding
\* (pending_wakes; protocol.md: retried once, then needs_attention).
WakesBounded ==
  \A m \in Message :
    /\ Len(wakeLog[m]) <= MaxWakes
    /\ \A g \in Generation : AttentionCount(m, g) <= MaxWakes

\* The attention entry is durable and logged exactly once before its record
\* says so and before anyone is notified of it, and comes only after every
\* wake was tried (_record_needs_attention).
AttentionSound ==
  \A m \in Message :
    /\ audit[m] <= 1
    /\ m \in attended \ intents => audit[m] = 1
    /\ m \in attended => Len(wakeLog[m]) = MaxWakes
    /\ (record[m].wake_status = "needs_attention" \/ attentionLog[m] # <<>>)
         => m \in attended \ intents

\* An answered bind survives a restart: until it expires, is undone, or a later
\* one has taken its place and expired, the file holds it or a later one (bind,
\* _restore_registrations).
BindDurable ==
  replied # 0 /\ ~(\E g \in expired : g >= replied) => route >= replied

\* A message is handed to the current binding only, also by a wait that slept
\* through a rebind; and while it is held nobody else gets it and no
\* notification about it is sent (wait, pending_wakes).
ClaimsRespected ==
  [][\A m \in Message :
       /\ holder'[m] # holder[m] => record[m].claim # "live" /\ holder'[m] = reg
       /\ record[m].claim = "live" =>
            wakeLog'[m] = wakeLog[m] /\ attentionLog'[m] = attentionLog[m]]_vars

\* A report settles a wake only while the lease it was given under is the last
\* one and belongs to the current binding; late, repeated or old reports change
\* no record that was claimed, escalated or recovered meanwhile (wake_ack;
\* protocol.md: "may mutate state only while its notification still owns the
\* leased wake state").
OnlyOwnerSettles ==
  [][\A m \in Message :
       LET was == record[m].wake_status
           is == record'[m].wake_status
       IN  was # is =>
             /\ is = "notified" =>
                  /\ was = "leased" /\ reg # 0
                  /\ wakeLog[m][Len(wakeLog[m])] = reg
             /\ was = "needs_attention" => is = "consumed"
             /\ was = "consumed" => is = "retry_pending" /\ record[m].claim = "expired"]_vars

\* A request of a participant that stays bound does not lie unseen for ever:
\* it is claimed, withdrawn, or someone is told that it needs attention.
RequestSurfaces ==
  \A m \in Message :
    (record[m].status = "pending") ~>
      (record[m].status # "pending" \/ attentionLog[m] # <<>> \/ ~Bound)

\* What protocol.md says of a replaced binding: "replacement immediately
\* re-arms old-generation notification state".  Once the bind is answered no
\* record has notification state of an earlier generation.
RebindRearms ==
  (pc = "idle" /\ reg # 0 /\ reg = replied) =>
    \A m \in Message : /\ record[m].wake_binding_generation \notin 1..(reg - 1)
                       /\ record[m].attention_binding_generation \notin 1..(reg - 1)

=============================================================================
