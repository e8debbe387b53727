# Cross-Runtime Council in TLA+

This directory is a verification development for the Council broker of this
repository (`src/scripts`). It contains TLA+ modules translated from the code,
the TLC configurations that check them on small instances, and proofs checked
by TLAPS. `PROJECT.json` lists every component, run, mutant, finding, hazard and
theorem, and maps each definition to the lines it models.

## The system

A *council* is a bounded, adversarial dialogue between two or three agent
sessions (Codex, Claude Code, OpenCode) that cannot talk to each other
directly. Everything goes through a local broker.

| Part | State it keeps | Operations | Who it talks to |
|---|---|---|---|
| Dialogue phase machine (`council.py`) | `manifest.json` per dialogue: phase, round counters, whom it waits for, submissions, extensions | `start`, `submit`, `extend`, `cancel` | computed inside the handlers of the broker |
| Transition engine (`council.py`) | the manifest, `submissions/*.json`, `final.json`, `outbox/<recipient>/*.json`, `audit.jsonl` | the durable writes of each handler, `ack`, `retry`, restart recovery | file system, delivery |
| Claim ledger (`council.py`) | active, parked and retired claims, pending confirmations in the manifest | building at the proposal barrier, validation of assessments, retirement when a challenge passes | read and written by `submit` |
| Delivery leases and wake routing (`council.py`) | claim, wake and attention lease of each outbox record | `wait`, `pending_wakes`, `wake_ack` | Codex tasks and the router task |
| Binding (`council.py`) | `registrations/*.json`, `router.json`, capabilities in memory | `bind`, `unbind`, `router_bind`, restore at start-up | every authorised call |
| Retention and deletion (`council.py`) | tombstones | `delete_terminal_dialogue`, `_apply_retention`, recovery | all files of a dialogue |
| Daemon and client (`council.py`) | a Unix socket, at most 32 handler threads | start-up, one request per connection | adapters |
| Writer admission (`council_admission.py`) | the lease of the state root | open, check, close | broker, lifecycle |
| MCP adapter and Claude relay (`council_mcp.py`) | the capability of one session, the relay socket | tools, relay of one envelope | broker, Claude session |
| OpenCode bridge and plugin (`council_opencode.py`, `opencode_*.ts`) | capabilities and pending rotations of its sessions, delivery registry | bind, rotate, unbind, post a message to a session | broker, OpenCode session |
| Managed lifecycle (`council_lifecycle.py`) | installed units, receipts | install, update, rollback | recoverer |
| Standalone recoverer (`council_recover.py`) | the five-unit transaction and its goal | resume an interrupted transaction | managed units |
| Registration planning and qualification (`council_registration*.py`) | native attempts, their process groups and results | plan, probe, run an attempt under a supervisor | recoverer, host tools |
| Inspector and artifact oracle (`council_inspect.py`, `recovery_invariants.py`) | none | read the files, judge invariants I1 to I10 | none |

How they interact: an adapter calls the broker over its socket. The broker runs
each handler under one re-entrant lock (`self.changed`), which only `wait`
releases. A handler that moves a dialogue prepares everything that belongs to the
move under a fresh transition id. It writes the submission file, `final.json` if the
dialogue completes, and one *staged* outbox record per recipient; then it saves
the manifest with that id, which is the commit point. Then it appends the audit
events whose intents the manifest holds, supersedes the outbox records the
transition replaces, and activates its own. Recipients fetch messages with
`wait` or have them posted to their relay, answer with `submit`, and
acknowledge.

What is hard about it:

- a crash, or an exception with the broker still serving, between any two of
  these writes, and another one while the first is being recovered;
- answers that are lost, so that calls are repeated after the dialogue moved on;
- committed transitions that were not announced before the next call arrives;
- requests that an extension or a cancellation replaces while their recipient
  is answering or acknowledging them;
- rounds that may be reopened by a challenge or by the user, within two limits;
- claims and leases that expire while the answer is on its way; sessions that
  are bound again while a call of theirs is waiting;
- a plugin that holds the only copy of a capability, and awaits the broker twice in
  each call while other calls go on;
- daemons that are started by several clients at once, over what a dead one left;
- programs of a vendor that edit the user's configuration, outlive the process
  that started them and can neither be rolled back nor repeated safely.

What makes each part correct: the phase machine never records a
contribution before the earlier stage is closed, ends a debate only for a reason the
user accepted, recognises every retry and always ends; the transition engine
makes every move of the dialogue atomic and announces it exactly once; a lease
never hands a message to two answers of one recipient, and never loses it; a
route belongs to one exact session; what a session was given, it is given once; a claim
leaves the debate only by agreement; a deletion, an update or a rollback is
finished or undone as a whole; and whoever writes holds the lock with the code
that the admission names.

## Modules

**`DialogueManifest`** has no variables. It is the computation of the next
manifest in `start`, `submit`, `extend` and `cancel`, as operators on a manifest
record. `SubmitOutcome` is the order in which `submit` looks at what is
recorded, at the phase and at the round; `SubmittedManifest` records a
submission and, when everyone in `required_submitters` has submitted, applies
`AfterBarrier`, which has one branch per phase. A payload is reduced to what the
code reads to choose the next phase: an exchange either contests or is a
convergence candidate with its positions settled one way, another way, or
uncertain; a challenge finds a material issue or not; a check asks for a
correction or not.

**`DialogueProtocol`** is the abstract specification: one variable `dialogue` (the manifest),
one atomic action per handler. It states what the broker promises about a
dialogue.

**`BrokerTransactions`** is the detailed specification, one action per durable
write. `saved` is `manifest.json` (with `committed_transition_id`,
`transition_supersedes` and `pending_audit_events`), `files` the submission
files, `final` the transition that wrote `final.json`, `outbox` the records by
transition and recipient, `audit` the log as a bag. `pc` is the place of the
handler that holds the lock: `drain` and `resume` are
`_reconcile_committed_transition`, `prepare` the validation and the computation
of the next manifest, `stage` the writes before the commit, `audit` and
`activate` those after it. `Fail` is an exception that ends the handler with the
broker still serving, `Crash` the end of the process, `Restart` and the
`recover_*` places `_reconcile_dialogue_audits` and
`_reconcile_outbox_messages`. It implements `DialogueProtocol` under the
mapping `dialogue <- manifest`, where `manifest` is the saved manifest with
the submission files its paths lead to.

Abstractions to know about: one dialogue; message ids are a transition and a
recipient; the statuses `claimed` and `delivered` are one; what a relay or a
claim does to a record is `HandOver` and `Rearm`; the content of a completion
notice is the transition that wrote the `final.json` it refers to; audit details are
identified by their event and transition, since a transition has one set of
details. A record whose dialogue has no manifest belongs to a `start` that never
committed (`HasManifest`). The `transition_id` filter of `_reconcile_durable_audits`
selects all intents left, because the handler drained the others first.

**`CodexWakes`** is how the outbox records of one Codex participant reach it, with
the bindings that come and go meanwhile. `record` is the outbox record (status, claim,
wake and attention lease), `attended` and `intents` the parts of the manifest that
`_record_needs_attention` writes, `audit` its lines in the log, `reg` the
registration in memory and `route` the one on disk. `Bind`, `BindPersist`, `BindRearm`
and `BindReply` are the writes of `bind`, `BindAgain` its branch for a capability already
bound, `Unbind` and `UnbindForget` the two halves of `unbind` and of the sweep of expired
bindings. `Wait` to `WaitResume` are `wait`, which sleeps without the lock in
`waiters`. `Poll*` and `Attention*` are `pending_wakes` on one record; a poll that
visits several records is several polls, since it keeps nothing between them but the lock.
`WakeAck` and `AttentionAck` are `wake_ack` with any notification ever leased,
at any time and any number of times. `Transition*` is what `start`, `submit`,
`extend` and `cancel` do to these records.

Abstractions to know about: a deadline is a flag that a timer action may lower at
any moment between handlers, so a run covers every relation between the lengths of
claims, leases, back-offs and bindings. A binding is its generation, which
determines the target task (`bind` gives each new capability a new
generation); whether a session may bind is not modelled, so any bind is one that may. The
random notification ids are places in the logs `wakeLog` and `attentionLog`, which
also serve as history. The messages belong to one dialogue: a request is activated
once those before it are answered or replaced, the notice last. A recovered
acknowledgement and a transition are one write each; `BrokerTransactions` has them in detail.

**`LifecycleContract`** is what an operator may rely on when a lifecycle operation was begun: it
is pending until it settles, once, on the selected one of two planned outcomes, with every
artifact as that outcome plans it.

**`LifecycleRecovery`** is the standalone recoverer, which also executes the transaction the first
time: one action per durable effect of `_execute_with_lease`. `objects` holds for each unit its
destination and the paths the transaction owns beside it (backup, displaced, stage, partial),
`journal` is `progress.json`, `admission` the admission record, `published` the immutable records
of each outcome, `run` what a running recoverer holds in memory. `EnterUnit` to `CheckUnit` are
`_ensure_unit` with `_materialize` and `_remove_owned_stage`; the journal is written after each
unit but read only for the goal, so every run finds out from the paths what is left to do.
The initial states are every plan of an install, upgrade or rollback, uninstall and registration
that the planner can build for the units. It implements `LifecycleContract` under the mapping
that takes the selected goal from the journal and the outcome from the admission.

Abstractions to know about: the content of a directory is a set of items that are copied and removed one
at a time, in any order; metadata is replaced in one step (its leftovers are reclaimed
unseen); the lease admits one recoverer; the prepared objects and the identities of
roots and lock do not change; there is at most one registration operation. Format-3
(native) registrations are in `NativeAttempt`.

**`LifecyclePreparation`** is what happens before there is a transaction to recover, and to what
an operation that died left behind. `disk` holds the outputs an operation makes under the control
and stage roots, `record` the preparation ledger with its claims in the order they were made,
`pending` what is found of a next version of it, `admission` the admission record. `Start`,
`ReconcilePending` and `ReconcileRecord` are `_reconcile_preparations` at the head of every
operation. `Admit`, `OpenRecord` and `Prepare` are `_prepare_transaction` with its guard:
an output is claimed, created, bound to its identity and completed, each in a step of its own.
`PublishIntent`, `Preserve` and `Execute` are `_publish_and_execute`; `PassOver`, `TakeBack`,
`RefuseToTakeBack` and `Retire` are `cleanup`, which runs after an exception (`FailPreparing`,
`FailPublishing`) and after a restart (`Crash`) alike. `Recover` and `RecoverInterrupted` are what
matters here of the recoverer: it rewrites the journal, and ends, or dies, with the admission
certified by the new transaction or, after `--abort`, as it was before. `Intrude` puts something of somebody
else's in an output's place or into it, between two operations: an empty object (`vacant`), bytes where the names, kinds and
modes stay (`edited`), or anything else (`foreign`). `Removable` is what `_remove_prepared_path` removes, which includes the first two as long as
the claim is reserved, or incomplete. `retained`, `intents` and `undone` are history.

Abstractions to know about: one output of each sort stands for all of that sort, and the six
control directories for one; what the record says is bound, incomplete or complete is kept, and an object's
identity and contents are one value that tells the object as made (`partial`, `full`) from one moved away,
rewritten by the recoverer, with an entry without its planned mode (`misfit`), or one of the three that somebody
else leaves; nobody else touches an output while an operation runs; receipts verify, and the identities of the roots do not change.

**`ClaimLedger`** is the life of the material claims. `BuildLedger` is `_build_claim_ledger`: every
participant's first claim, then every second one, up to the ceiling, the rest parked.
`CloseExchange` is the exchange barrier, which only notes (`Noted`, `commit=False`) what the
assessments say; `ChallengePassed` is the passed challenge, which retires (`CommitRetirements`,
`commit=True`). `ChallengeMaterial` and `ExtendRounds` reopen the
exchange, so that batches of retirements follow each other. `streak` is history. The code only ever filters
`claim_ledger`, so the list is the set of its claims in the order they were allocated (`Earlier`), and the loop that
retires them is the rule that each claim goes or stays by what has gone before it (`Retires`);
that the rule describes one batch and no other is proved (`BatchDetermined`).

Abstractions to know about: a claim is its author and its place in the proposal, both numbers; the assessments of a claim by
all participants are one `Verdict`, since the code asks of them only whether all say
nonmaterial, name the same duplicate, or somebody brings evidence; whether a round converges is left open. The
rules on the basis of a changed position concern one participant's payload and are not in it.

**`SessionDelivery`** is one participant in the OpenCode sessions of one plugin. `bindings` and `pendings`
are the plugin's confirmed capabilities and pending rotations, `registry` and `posts` its delivery registry
and the posts that run, `calls` its tool calls; `registration` and `route` are the broker's, in memory
and on disk, `records` the outbox, `handler` the handler with the lock, `late` the requests whose caller gave
up. `BeginBind`, `Ensured`, `EnsureFails` and `BindAnswered` are a bind at the places where the plugin
awaits the broker, `BeginAuthenticated` and `AuthAnswered` any other call, with `Release`
and `Detached` as what follows a failure or an unbind. `Handle` and `HandleLate` are the broker's handlers; a
bind goes through the queued messages one by one (`Attempt`, `TimeOut`, `PostEnds`), as a transition
does with its own (`Queue`). `landed`, `seen`, `served` and `lapsed` are history.

Abstractions to know about: a capability is a number that is given out again once nobody holds it
(`New`, some number of `Fresh`), which keeps the model finite and can only confuse what a real one cannot; the bind of a session and
its relay are one registration; a message's submission is `Respond`. The pull path, the end of
the plugin's process, the cap on pending rotations, the pending extension registry and the relay of Claude
are not in it.

**`BrokerLifetime`** is the processes over one state root. `holder`, `recorded` and `socket` are the lock
`broker.lock`, what is written in it and the path of the socket; `admission` and `installed` say whose code may
write and whose is there; `files`, `phase` and `tombstone` are the dialogues. A process goes through `Acquire`,
`Admit`, `Clear`, `Rewrite`, `Reconcile`, `Retain` and `Serve` (`run_daemon` and `_initialize`), or, as the
command that deletes a dialogue, through the first of these and `Delete`; `Update` is the lifecycle tool as far as it moves
the admission. `Remove` is one removal of a tombstoned deletion. `AskServed`, `Launch` and `GiveUp` are
`CouncilClient` and `ensure_daemon`. `Stop`, `Drained` and `Close` are the end of a daemon, `Crash` its death.

Abstractions to know about: a request is served or refused in one step; an identity of code is its
cohort; what retention selects is left open; quarantined files, the check of the peer, forked children and the operations
that a closing lease waits for are not in it.

**`NativeAttempt`** is the transaction whose effects a vendor's program has. `attempts` is what the journal
says, with the evidence each entry carries; `group` is the process group of each attempt, a supervisor that blocks
on its `gate` and a vendor, which stands for the rest of the group; `config` is the user's configuration,
compared with the plan. `Recover` and `AppendSequenceOne` begin a run, `Observe` to `Admit` are
`_recover_native` with `run_admitted_attempt`, one durable write or one
observation each, and the `Supervisor*` actions are the other side. `VendorWrites` and
`EditConfig` may come at any time.

Abstractions to know about: adding and removing an entry are alike; a registration of this format leaves the
units alone; an attempt's journal file is written under its own name with fixed contents; the receipt and the admission are
one step (`LifecycleRecovery` has them apart); a group is always killed when it is asked to be. The
effects built in today never vouch for the network, so that the code takes the branch
`look_unsure`, and certifies a target at the next, passive verification.

**`MCDialogueProtocol`**, **`MCClaimLedger`**, **`MCBrokerTransactions`**, **`MCSessionDelivery`**, **`MCSessionLive`**,
**`MCBrokerLifetime`**, **`MCNativeAttempt`**, **`MCCodexWakes`**, **`MCLifecycleRecovery`**, **`MCLifecyclePreparation`** hold the values of the constants for TLC.

**`DialogueProtocolProofs`** has what the operators on manifests preserve, the theorems about `DialogueProtocol` and those
about `ClaimLedger`, whose state is in the same manifest;
**`BrokerTransactionsProofs`** rests on it; **`CodexWakesProofs`**, **`SessionDeliveryProofs`**,
**`BrokerLifetimeProofs`**, **`LifecycleRecoveryProofs`**, **`LifecyclePreparationProofs`** and **`NativeAttemptProofs`** prove about the
module they are named after.

Definitions whose name is that of another, an underscore and a word for a defect
(`PollWake_OneMore`) are mutants: the operator with a bug that a change to the
code could introduce. No module uses them; each is put in the place of its original
to see that the property named in `PROJECT.json` notices.

## What is checked

| Run | Instance | Shows |
|---|---|---|
| `dialogue` | 3 participants (dyads and triads), 2 rounds, every policy of minimum, authorised and maximum rounds, fair participants | `BarriersHold`, `CompletionReviewed`, `SynthesisEarned`, `ReopenContextFresh`, `RetryIsRecognised`, `NoStepBackwards`, `EventuallyTerminal` |
| `claims` | a dyad with up to 4 claims, every ceiling, 3 rounds | `LedgerSound`, `RetirementEarned` |
| `broker` | dyad, 1 round extensible to 2, 10 transitions, 1 fault | `OutboxSound`, `AuditedOnce`, `CompletionReferenceValid`, `ImplementsDialogue` |
| `broker_live` | dyad, 5 transitions, 2 faults, fair broker | `Converged` when recovery is interrupted, `EventuallyAnnounced` |
| `wakes_one` | 1 request, 2 wakes, 2 bindings, 1 fault, fair router | `WakesBounded`, `AttentionSound`, `BindDurable`, `ClaimsRespected`, `OnlyOwnerSettles`, `RequestSurfaces` |
| `session` | 2 sessions, 3 binds and another call at a time, 2 rotations, 1 message, 1 fault | `PostedOnce`, `DeliverySound`, `NeverForgotten` |
| `session_live` | 1 session, a bind and another call, any number of rotations, 1 fault, fair broker | `EventuallyDelivered` |
| `lifetime` | 2 processes, 2 clients, a dialogue with a record besides its manifest, an offline command, 2 deaths, fair processes | `DeletionSound`, `ServerReachable`, `WrittenAsAdmitted`, `EventuallyServed` |
| `lifecycle_recovery` | a directory of 2 files (and a cache) and a file, all plans, 3 crashes, 1 edit, an operator who repeats recovery | `DiskSound`, `RecordsSound`, `NeverSelfBlocked`, `ImplementsContract`, `EventuallyCertified` |
| `lifecycle_preparation` | 2 transactions with an output of each sort, 3 faults, 1 intrusion, an operator who repeats the operation | `NothingAstray`, `RefusalExplained`, `ForeignKept`, `RecordSettles` |
| `lifecycle_undone` | 1 transaction, 1 fault | violation of `PublishedNeverCleaned` (see Findings) |
| `native_attempt` | 2 confirmations, 2 faults, 2 edits of the configuration, an operator who repeats recovery | `AttemptsAccounted`, `Resolves` |

Several invariants are conjunctions of named parts, each of which has its comment in the module:
`OutboxSound` is `TypeOK`, `CommittedNeverLost`, `SupersededFirst`, `AcknowledgedIsAnswered` and `Converged`;
`DiskSound`, `RecordsSound`, `NothingAstray`, `DeliverySound`, `AttemptsAccounted`, `LedgerSound` and `DeletionSound`
are made the same way and hold the type invariant of their module where it is stated.

Bounds. Two rounds are enough to reopen a round after a challenge, to
extend at both gates, and to stop early with an authorised round left. Dyads are followed under
every policy and with every position; in triads, which a revision needs, `Considered` follows
policies of two rounds that may stop on convergence and leaves the positions to the third
participant. What `Considered` cuts off are starts and positions, after which nothing leads back.
`ExtendedBriefly` follows a dialogue that is extended until after the replacement
of the requests that were out. A dialogue of a dyad
takes nine transitions, so ten leave one for a transition whose handler failed.
One fault reaches every prefix of every handler; idle stops and restarts are
not counted against it, so it also reaches every prefix of recovery; two reach
a crash in the recovery from a crash. `MaxDelivered` limits how many records
are in the hands of their recipients at once, since acknowledgements of
different records do not interact. Two wakes are the number the code allows. Two
bindings are a replaced one and its replacement; a third meets nothing the
second does not, because only "the current generation or another one" is ever asked. One request
is all the run of `CodexWakes` has: that its safety does not depend on how many messages share the
manifest is what the proofs add. Two transactions are the one that is interrupted and the one that finds
it; three faults interrupt an operation, the cleanup of the next and the cleanup after that. One
directory and one file are the two kinds of unit, and two of them the least that can be in
different states; three crashes interrupt a run, the abort after it and the recovery after that.
A release changes one file of the directory and leaves one, so that a stage of the target can be
known to the prior outcome as well. A settled lifecycle transaction may stop.
Four claims are two of each participant, the least with which a target of a duplicate can be retired in a later
batch and a debate still go on; a third participant adds an origin and no new case, and the proofs have it. Three rounds are a
verdict, its confirmation and one more after a batch. Two sessions are the one that is bound and the one it moves to;
two binds of one session and another call of it are the calls that can overtake each other, and two rotations
(`MaxRotations`) one that is under way when the next begins; `Capabilities` bounds how many are held at one time, not how many there
ever are. In `session_live` rotations never end. Two processes are one that runs and one that comes, and may be started
again without end; `MaxCommands`, `MaxFaults` and the records bound what may disturb them, and one handler
at a time is the limit of 32 reached. Two deaths are the least that leave a deletion half done, since a dialogue ends under
a broker that may have to die for its lock, and the least after which a socket is left and an emptied lock file beside it. A
deletion goes from the records to the manifest, the files beside it and the directory, so one record has an interruption at each of these; that more
records do not matter to safety is what the proofs add. One intrusion meets every output in every state an interrupted operation leaves. Two deaths and two edits spoil both native attempts. Runs without
deadlock checking are those of dialogues that really stop: a terminal dialogue
takes no further step, and a broker at its bound of transitions none that changes
anything. `CodexWakes` never stops.

Fairness. `FairDialogueSpec` of `DialogueProtocol` assumes that each participant answers what it
is asked: the broker redelivers an unanswered request and wakes its recipient
again. Nothing is assumed of extensions and cancellations.
`BrokerTransactions!FairSpec` assumes that a handler that began goes on, that the
daemon is restarted (the client starts it when it finds no broker) and that
calls keep arriving, since a caller whose call failed repeats it; faults are
bounded. `CodexWakes!FairSpec` assumes that a handler that began goes on, that the
daemon is restarted, that the scheduled router polls each record again and again
(strong fairness: other handlers take the lock between its polls, and a fault may end one) and that
deadlines pass (strong, because they pass between handlers only here). Nothing is assumed
of the participant, its binds, its answers or the reports of the router.
`LifecycleRecovery!FairSpec` assumes that a run goes on unless it dies and that the operator does
what docs/lifecycle.md asks for: run recovery again with a fresh confirmation, and restore the configuration
that a refusal names. Aborts are not assumed; they may come at any time. `LifecyclePreparation!FairSpec`
assumes that an operation goes on unless it dies, and that the operator tries again after
one that did not end well and runs recovery where the answer asks for it.
`SessionDelivery!FairSpec` assumes that handlers and calls go on, that a call gets the broker's lock in turn
(strong: other handlers take it between), that a session binds again when it is told to, that a post the
broker waits for again and again ends well in time (strong: the relay may give up on it), and that the lease of
a registration nobody can prove runs out.
`BrokerLifetime!FairSpec` assumes that processes and their handlers go on, that a client that asks starts a daemon when it
finds none, and that it gets a place when there is one again and again (strong: others ask
too). A client gives up on a start only after the process got past the lock and the admission, since
only what follows these takes long.
`NativeAttempt!FairSpec` assumes that a run and the processes of a group go on, that a vendor ends, and that
the operator repeats recovery with a fresh confirmation, for the second attempt too when it is offered
(strong: another run may hold the lease).

## What is proved

Every theorem is about the specification TLC checks, for every value of the constants that the assumptions
admit. None of the invariants is inductive as it stands; each module proves a stronger one and derives the
properties from it. The bounds on faults, transitions and the like are any numbers.

**The dialogue** (`DialogueProtocolProofs`), for every set of participants, every bound on
rounds and every choice of payloads. The assumptions are those of `DialogueManifest`: participants finite and not empty, at least one
round, payloads among those named.

- `HistoryInvariant` and from it `TypeCorrect`, `RoundsAuthorized`, `BarriersAlwaysHold`, `SynthesisAlwaysEarned`,
  `CompletionAlwaysReviewed`, `NeverBackwards`. A step
  knows that earlier stages are closed only from the phase it starts in. `History` therefore
  says of every phase whom it waits for (`Waits`), which rounds and stages are closed
  (`RoundsClosed`, `StagesClosed`), when a revision is under way (`Revised`) and
  why the exchange was left (`Earned`), next to `Barriers` itself.
  `RecordHistory` shows that recording one accepted submission keeps it, one lemma per
  phase that the change of phase keeps it.
- `PlacesInvariant` and from it `RetryAlwaysRecognised` and `ReopenContextAlwaysFresh`: a participant has one
  submission in each place (`OnePlaceEach`), so a repeated call meets its own record or nothing; and what is kept of a challenge
  that reopened a round is of the latest round (`FreshContext`).

The lemmas are about manifests, not states, so that a handler of one step and a handler of
many can both use them.

**The claims of a dialogue** (`DialogueProtocolProofs`), for dyads and triads with any number of claims, any ceiling of at least two, any verdicts
and any number of rounds (`LedgerAssumption`):

- `LedgerInvariant` and from it `LedgerAlwaysSound` and the action property `RetirementAlwaysEarned`. `retirement_pending` is what the code
  remembers of earlier rounds, and the property speaks of what was said in them (`streak`). `StreaksNoted` ties the two for every active
  claim: an entry names the last closed round exactly if the claim has a streak, and is confirmed exactly if that is two rounds
  long; whatever happens between an exchange and the next (a challenge passed or not, an extension) keeps that. `RetiredBefore` says
  that a batch is retired on leaving the debate, so that a duplicate's target can only go in a later round. That a debate
  is left after a batch (`BatchLeavesDebate`) follows from the last claim of it, for which the loop looked at what all the
  others leave.
- `BatchDetermined`: whatever the verdicts, exactly one batch satisfies `Retires`. Two batches would have a first claim on which they
  differ (`FirstOf`, `BatchIsUnique`); and that there is one is shown by the least rank up to which there would be none (`DecideNext`,
  `DecidedUpTo`).
- `LedgerFollowsDialogue` and `LedgerKeepsToItsMoves`: `ClaimLedger` has its own phases and rounds, and leaves open why a phase ends. `LedgerMoves`
  says what its actions do to phase, rounds, authorised rounds and the context of a challenge. They do nothing else to them, and every step
  of `DialogueProtocol` is one of these moves, or leaves the debate for good.

**The transition engine** (`BrokerTransactionsProofs`), for any number of transitions, exceptions and crashes, with the same
assumptions, `StartAssumption` (the arguments of `start` are of the types it takes) and `BoundsAssumption`.

- `TransactionInvariant` and from it `AlwaysConverged`, `OutboxAlwaysSound`, `AuditAlwaysOnce` and `CompletionAlwaysValid`.
  `DiskSound` has a part for each file: what the manifest says of the submission files, what each record of the outbox may be, given the
  transition it belongs to and the answer it waits for, what `final.json` and the log may hold. `PlaceSound` has a part for each
  place of a handler: what it has reconciled before it prepares, what it has staged before it commits
  (`StageSound`), what a sweep has visited. A crash keeps `DiskSound` and forgets the place, which is why nothing that a
  later handler relies on may be in `PlaceSound` only.
- `TransactionsImplementDialogue`: the detailed specification implements `DialogueProtocol`. `StageSound` keeps, next to what is staged,
  that the manifest about to be saved is a move of the dialogue from the one that is saved
  (`Moved`); the commit is that move and every other step, crash and recovery included, is a stutter.
- `PromisesKept`: so the broker, with its many writes, exceptions and crashes, keeps every safety property proved of the dialogue.

**Wakes** (`CodexWakesProofs`), for every set of messages and every number of wakes, bindings and faults (`MessageAssumption`,
`BoundAssumption`):

- `WakesInvariant` and from it `WakesTypeCorrect`, `WakesAlwaysBounded`,
  `AttentionAlwaysSound`, `BindAlwaysDurable`. That the wakes are bounded is not inductive:
  `wake_attempts` is what bounds them, while attention attempts start again
  with a binding. `Counts` therefore ties the logs to the counters, per generation, for the
  generation in memory and the one on disk, which a restart may bring back; it
  needs `Generations` (generations are handed out in order and the file never runs
  ahead of the memory) to know that a new generation has been sent nothing.
  `Places` says at each place of a handler which of its writes are done, which is what makes
  the order of the attention entry, its audit line and the record provable. Most steps touch a
  record only, and keep its counters: `RecordActionsAre` and
  `RecordStepsKeep` deal with these together, the others have a lemma each.
- `ClaimsInvariant` and from it the action properties `ClaimsAlwaysRespected` and `OnlyOwnerAlwaysSettles`. `StepsMove` puts every step
  into one of four moves of a record (claimed, leased, otherwise moved, left alone); what the properties need beyond the
  invariant above is that a wake names the generation it was last leased to, that a consumed wake is that of a claimed record,
  and that what is being escalated has no live claim (`ClaimSound`, `EscalationSound`).

**Deliveries to OpenCode sessions** (`SessionDeliveryProofs`), for any sessions, messages, calls, capabilities and
faults (`CallAssumption`: no call is both a bind and another one, and each has a session; `BoundsAssumption`):

- `SessionInvariant` and from it `PostedAlwaysOnce`, `DeliveryAlwaysSound` and the action property `NothingEverForgotten`. Copies of a capability are in the plugin, in calls under
  way, in requests whose caller gave up, in the broker and in its file. `OneOwner` says that all of them belong to one session; a new
  capability keeps that, as nobody holds it (`NewIsFresh`). `AcceptedTraced` says that a rotation the broker
  accepted can still be seen by the plugin, as an answer on its way or as a rotation marked uncertain, so that it is not
  undone as one that never was; `StepRemembers` follows that trace, or the capability itself, through every step, which is what
  `NeverForgotten` asks for. `PostsSound`, `StatesSound` and `RotationsSound` tie what landed in a session to its delivery state, and
  that state to whether the session is attached, detached or moving. The property has three exceptions, in which the plugin
may lose the capability for good: the end of a call that carried it, a binding dropped while the session's rotation
is in doubt (`LeavesInDoubt`), and a bind answered when the registration has another one (`AnsweredTooLate`).

**Processes** (`BrokerLifetimeProofs`), for any processes, clients, dialogues and records, without a bound on faults (`LifetimeAssumption`,
`NamesAssumption`: identities of code differ and the names for "nobody" are nobody's):

- `LifetimeInvariant` and from it `ServerAlwaysReachable`, `DeletionAlwaysSound` and the action property `AlwaysWrittenAsAdmitted`. Every stage of a process
  past the lock holds it (`LockHeld`), every stage that writes has the admitted code (`AdmittedAs`), and every stage past
  retention knows that no deletion is half done (`KnowsSettled`).

**The recoverer** (`LifecycleRecoveryProofs`), for any units and contents, every plan, and any number of crashes, aborts and edits
(`UnitsAssumption`: there is a unit; `ContentsAssumption`: a release has one content for each path; `BoundsAssumption`):

- `RecoveryInvariant` and from it `DiskAlwaysSound`, `RecordsAlwaysSound` and `RecoveryNeverSelfBlocked`. What a run may rely on is the
  paths of a unit, since it asks them and not the journal. `PathsSound` says which combinations of them earlier runs can have
  left: a backup is the whole initial artifact, and without one that artifact is still at its destination; only a
  prior goal displaces; a stage is of the target, or of the prior state once that is selected, and never beside a destination. Selecting the
  prior goal leaves the set as it is, and `Position` says what a run adds to it at each place, so every check on its way succeeds
  (`UnitStepKeeps` and one lemma per effect; `FilledIsGoal` for a tree that was copied item by item). `ConfigSound` and `EntrySound` say
  at which places the configuration is as the goal wants it.
- `RecoveryImplementsContract`: the recoverer implements `LifecycleContract`. The journal's selection of the prior goal and the
  admission are the two steps an operator sees (`SelectionRefines`, `AdmissionRefines`); `HiddenSteps` has the others.

**The preparation** (`LifecyclePreparationProofs`), for any number of transactions, crashes, exceptions and intrusions (`BoundsAssumption`):

- `PreparationInvariant` and from it `NeverAstray` and the action properties `RefusalsAlwaysExplained` and `ForeignAlwaysKept`. The
  second of these says that an operation begins to refuse only for what `Unrecognisable` lists, the third that somebody else's things stay but for
  those that are `Indistinct`; what both leave out is under Findings. While an operation
  prepares, the steps that are left for an output say everything about it: what there is of it (`Made`) and the phase of its claim
  (`PhaseOf`), as each output has its last effects in their order (`Remainder`). A crash forgets the steps. What stays is
  `Kept`: the claims differ, what is not claimed does not exist, what is reserved is at most empty, and the admission tells a published
  transaction from one that is not. `PlaceSound` says what an operation has found out at each place; in particular a cleanup has left
  nothing of the claims it is past (`CleanSound`), and may itself be interrupted in the middle of removing one. The effects fall into those
  that write the record (`VersionPublished`) and those that change an output (`OutputsChange`); `CleanAdvances` has the cleanup.
  That a published transaction is left alone does not follow for one that an abort undid, which is the first finding below.

**Native attempts** (`NativeAttemptProofs`), for any confirmations, crashes and edits (`InvocationAssumption`, `BoundsAssumption`):

- `AttemptsInvariant` and from it `AttemptsAlwaysAccounted`. The gate of a supervisor is held by the run that made it and by nobody
  after that run; so an attempt whose gate is shut without having been opened never acts, and one that was opened is in
  the journal as authorised first (`GroupSound`, `RunSound`, `ReleasedSound`).

Model-checked only:

- liveness, which TLAPS does not handle (ENABLED and fairness): `EventuallyTerminal`, `EventuallyAnnounced`, `RequestSurfaces`,
  `EventuallyDelivered`, `EventuallyServed`, `EventuallyCertified`, `RecordSettles`, `Resolves`.

The library's induction rules take an operator as a parameter and cannot be used. Where a proof needs induction over numbers it is
by a least counterexample, which `LeastIn` has from a fact about sets.

## Findings

A published transaction can be taken for one that never was. `_reconcile_preparations` knows a
published transaction by a pending admission, or by the receipt that certifies the current one
(`council_lifecycle.py:1440-1456`). An operation that died between its intent and the retirement of its
record, and was then recovered with `--abort`, is neither: the admission is certified again by the
receipt of before. The next operation takes the prepared objects back and stops at
`progress.json`, which the recoverer has rewritten, with "prepared output identity changed"
or "complete prepared output changed"; and so does every operation after it, until somebody moves the record
away. `test_published_intent_preparation_record_is_retired_without_cleanup`
(`scripts/test_lifecycle.py:1474`) says that such a record is retired without cleanup; it covers the
completed recovery only. Run `lifecycle_undone` shows the trace, and the code behaves so when it
is run with the crash injected there.

`RefusalExplained` and `RecordSettles` make no promise about what `Unrecognisable` describes. Some
of it is meant: what somebody else left where the record can tell stops every operation by design. Three
cases are crashes of the code's own: one while a later version of the record is written (a torn version, which
the code refuses on purpose), one while a complete tree is being taken back (the record says
complete, the tree is not), and one between the creation of a directory inside a copied tree
and its `chmod`. All leave a state that every later operation refuses.

`EntryNeverDangles` has one exception, which the documentation allows (a "temporarily absent payload"):
a removal that is aborted before it removed the entry keeps it in place while the payload is
replaced by a copy without its compiled caches.

### Further counterexamples

Each of these is a promise the code does not keep, stated as a property next to the model; the configuration
named shows the trace when it is given to TLC by hand.

`final.json` can outlive its meaning (`FinalExactlyWhenComplete`, `MCBrokerFinal.cfg` with `MCBrokerTransactions`). A `submit` that completes the dialogue
writes `final.json` and fails before saving the manifest, with the broker still
serving; `cancel` then commits. `_reconcile_dialogue_audits` removes an
uncommitted `final.json` only under a manifest that is neither complete nor
cancelled (`council.py:1489`), so the cancelled dialogue keeps it after every
later restart. `references/protocol.md:194` and `docs/verification-map.md:29` (I5)
say that the file exists exactly when the dialogue is complete.

What somebody else left can be removed with an abandoned preparation (`OthersKept`, `MCLifecycleForeign.cfg` with
`MCLifecyclePreparation`). Under a claim that is still reserved, `_remove_prepared_path` removes any empty file or directory of the planned
kind, without an identity to compare (`council_lifecycle.py:1083-1101`); an incomplete file goes by its device and inode, whatever has
been written into it (1102-1114), and an incomplete tree by the names, kinds and modes of its entries (1035-1067). The bytes are compared only once the
output is complete. `test_abandoned_preparation_with_changed_content_is_preserved` (`scripts/test_lifecycle.py:1429`)
says that changed content is preserved; its cases are all of a complete output. `ForeignKept` names
what the record cannot tell apart (`Indistinct`) and promises the rest.

A replaced binding is not always re-armed (`RebindRearms`, `MCCodexWakesRebind.cfg` with `MCCodexWakes`). `bind` replaces the registration, persists
it and then re-arms the records that hold notification state of the old
generation. If it fails before the last step, the session repeats the call; its
capability is now the one bound, and that branch (`council.py:1857-1912`) answers
without re-arming. A wake of the old generation then blocks the next until its old deadline,
and an attention notice the old task got is never sent to the new one.
`references/protocol.md:212` says that replacement immediately re-arms old-generation
notification state.

A native journal can become one that no recovery accepts (`JournalAccepted`, `MCNativeStuck.cfg` with `MCNativeAttempt`).
An attempt that is still `prepared` when the configuration has been edited is concluded as unknown, or passively as
the target, without the evidence of an attempt that was issued (`council_recover.py:5564`); `_validate_progress`
of the next run refuses that entry. `Resolves` names this state and promises nothing about it.

A certified native transaction may still be written to (`CertifiedQuiet`, `MCNativeLive.cfg` with `MCNativeAttempt`): a recovery
opens the gate of an attempt and dies. The next one reads the configuration before the vendor has written it and concludes
passively that the attempt left the prior state, without asking for the supervisor's group. A third one then finds the target,
asks for no evidence of absence because that state has been observed, and certifies it; the supervisor released by the first
may still be at work.

A rotation can lock its session out until the lease ends (`RotationRetained`, `MCSessionLockout.cfg` with `MCSessionLive`): two binds
of one session overlap and carry the same pending capability. The first is answered, which clears the pending rotation, and the session
unbinds, which drops the capability; the second bind is handled only then, and the broker registers a capability that the plugin no longer
holds. `references/protocol.md:24` calls rotation retry-safe. `NeverForgotten` names
the two steps that lead there (`LeavesInDoubt`, `AnsweredTooLate`) and excludes them; `EventuallyDelivered`
shows that the end of the lease lets the next bind in.

Completed-message dedupe does not survive every rotation (`DedupeSurvives`, `MCSessionDedupe.cfg` with `MCSessionLive`): a call of a
bound session is answered `not_bound` or `binding_expired`, and the plugin clears its delivery registry
(`opencode_council_plugin.ts:549`) while a bind of that session, which called `retain` before it asked (line 633), is on its
way. Nothing retains again when the bind is answered (lines 652-680), so the state of a session that is bound keeps
`clearWhenIdle` and is deleted five minutes after it was last used (`opencode_delivery_registry.ts:165-185`). A message the session
has not answered yet is then posted to it a second time by the next rotation. `references/protocol.md:20` says that dedupe survives
capability rotation in that session, with a tombstone cleared only by a retain, a confirmed session
move or bounded expiry. `PostedOnce` says nothing of such a session (`lapsed`).

### Observations

A duplicate can point at a claim that is no longer active: its target is protected in the batch that retires it
(`DuplicatesLead`), but a later batch, after an extension, may retire the target. The oracle's I10
(`recovery_invariants.py:593`) counts the claims of `raw_claim_ledger`, which never shrinks, so it
holds of every ledger; `LedgerSound` is about the active claims.

A claim that all call nonmaterial without evidence in two rounds, with evidence in the third and without again
in the fourth has lost its confirmation, although nobody revoked it.

A message activated by a handler that
failed before its `message_queued` line, and handed over before the next
restart, never gets that line, since recovery announces only records that are
still pending.

## Not modelled, and the plan

Not modelled because there is nothing a model checker would add: socket framing, peer and
signature checks, the wording of envelopes and views, the read-only inspector and oracle
(their invariants are properties here), generators and the release build, and the
validation of plans, receipts and probes, which are functions of their inputs.

Not modelled, though they have state of their own: the relay of a Claude session in `council_mcp.py`, which accepts one
envelope at a time under the lock of its process; the router's binding; the pull path and pending extensions of the OpenCode plugin;
the operations that a closing writer lease waits for; `request_extension` and `needs_attention` in `BrokerTransactions`.

Every invariant and action property that a passing run checks is proved. What could follow: the
parts named above that have state of their own, `request_extension` first.

Where a proof covers a property for all instances, the run that checks it is the one to give up
when a later module needs the time.
