------------------------ MODULE LifecyclePreparation ------------------------
(***************************************************************************)
(* What the lifecycle engine (scripts/council_lifecycle.py) does before an *)
(* intent is published: it prepares everything the recoverer will need,    *)
(* and keeps a record of what it creates, so that an operation which dies  *)
(* half way leaves nothing behind that a later one cannot tell from the    *)
(* user's own files.                                                       *)
(*                                                                         *)
(* Every output is claimed in the record before it is made (reserved), is  *)
(* bound to the identity of the object made (incomplete), and is promoted  *)
(* when it has its planned contents (complete).  A failure takes the       *)
(* outputs back in the reverse order of their claims; a crash leaves that  *)
(* to the next operation, which reconciles the record with the disk before *)
(* it does anything else.  Once the intent is published the outputs belong *)
(* to the recoverer, and the record is retired without touching them.      *)
(*                                                                         *)
(* A transaction has one output of each sort: its control directory, an    *)
(* immutable and the mutable control file, the recovery tool unless the    *)
(* same one is retained already, and the two prepared objects.  A first    *)
(* adoption (bootstrap) prepares the whole namespace under a private name  *)
(* and publishes its intent by renaming it, which takes its control        *)
(* outputs away from the paths that were claimed.  The lease excludes      *)
(* other operations, the recoverer included.  The recoverer is reduced to  *)
(* what the preparation sees of it: it rewrites the journal and ends in    *)
(* one of two outcomes (LifecycleRecovery).  The identities of the roots   *)
(* do not change, and a receipt that was published can be verified.        *)
(***************************************************************************)
EXTENDS Naturals, Sequences, FiniteSets, SequencesExt

CONSTANTS
    MaxTransactions,  \* bound on transactions
    MaxFaults,        \* bound on crashes and exceptions
    MaxIntrusions     \* bound on what others put in place of an output or into it

ASSUME BoundsAssumption == {MaxTransactions, MaxFaults, MaxIntrusions} \subseteq Nat

VARIABLES
    disk,        \* [transaction -> [output -> what is at its claimed path]]
    record,      \* the ownership record
    pending,     \* .<transaction>.json.pending, its next version
    admission,   \* admission.json
    pc, todo,    \* the operation under way and what it has left to do
    last,        \* the transaction started last
    retained,    \* the transactions whose tool was there before them
    answer,      \* how the last operation ended
    intents,     \* history: the transactions whose intent was published
    undone,      \* history: those of them that an abort undid
    faults, intrusions

operation == <<pc, todo, answer>>
history == <<intents, undone>>
bounds == <<faults, intrusions>>
vars == <<disk, record, pending, admission, operation, last, retained, history, bounds>>

Transactions == 1..MaxTransactions

Control == {"control", "plan", "journal", "tool"}
Trees == {"prior"}
Outputs == Control \union Trees \union {"target"}

\* What somebody else may leave: an empty object of the planned kind in the place of
\* an output ("vacant"); bytes of his own in an output, or in a planned entry of it,
\* whose kind and modes stay, or in an object that was given its inode ("edited");
\* and anything else in its place or in it ("foreign").
Others == {"vacant", "edited", "foreign"}

\* "moved" is an output that the renaming took along, "misfit" a tree that has
\* an entry without its planned mode, "rewritten" a file replaced by the
\* recoverer.
Contents == {"absent", "empty", "partial", "misfit", "full", "moved", "rewritten"}
            \union Others
Exists(content) == content \notin {"absent", "moved"}

-----------------------------------------------------------------------------
(* The preparation, as the list of its effects.                            *)

Step(do, output) == [do |-> do, output |-> output]

Copied(o) == << Step("claim", o), Step("create", o), Step("bind", o),
                Step("write", o), Step("finish", o), Step("promote", o) >>
Written(o) == Tail(Copied(o))

\* The control files are claimed before any is written, and the journal is
\* written last.
Preparation(t) ==
    << Step("claim", "control"), Step("create", "control"), Step("bind", "control"),
       Step("claim", "plan"), Step("claim", "journal") >>
    \o (IF t \in retained /\ admission.status # "absent" THEN <<>> ELSE Copied("tool"))
    \o Copied("prior") \o Copied("target")
    \o Written("plan") \o Written("journal")

Publishing == {"claim", "bind", "promote"}

NoRecord == [transaction |-> 0, bootstrap |-> FALSE, claims |-> <<>>]

Claim(o) == [output |-> o, phase |-> "reserved"]

PhaseAfter(do) == IF do = "bind" THEN "incomplete" ELSE "complete"

\* The claims once a step that publishes has replaced the record.
ClaimsAfter(claims, step) ==
    IF step.do = "claim" THEN Append(claims, Claim(step.output))
    ELSE [i \in DOMAIN claims |->
             IF claims[i].output = step.output
             THEN [claims[i] EXCEPT !.phase = PhaseAfter(step.do)] ELSE claims[i]]

RecordAfter(step) == [record EXCEPT !.claims = ClaimsAfter(@, step)]

ContentAfter(step) ==
    CASE step.do = "create" -> "empty"
      [] step.do = "write" -> "partial"
      [] step.do = "finish" -> "full"

Put(o, content) == disk' = [disk EXCEPT ![record.transaction][o] = content]
At(o) == disk[record.transaction][o]

-----------------------------------------------------------------------------
(* Taking back.                                                            *)

\* Mutant: an output that was being made is taken back by its name.
Removable_ByName(claim) ==
    claim.phase = "complete" => At(claim.output) = "full"

\* The outputs in the control directory; a tool that outlives it is not.
InControl == {"plan", "journal"} \union (IF record.bootstrap THEN {"tool"} ELSE {})

ControlEmpty == \A o \in InControl : ~Exists(At(o))

\* An output is removed only in a state its claim allows: what is reserved by being
\* empty, what is incomplete by its identity and the names, kinds and modes of its
\* entries, and what is complete by its bytes as well.
Removable(claim) ==
    LET content == At(claim.output) IN
    CASE claim.phase = "reserved" -> content \in {"empty", "vacant"}
      [] claim.phase = "incomplete" ->
            /\ content \in {"empty", "partial", "full", "edited"}
            /\ claim.output = "control" => ControlEmpty
      [] claim.phase = "complete" -> content = "full"
      [] claim.phase = "removing" -> TRUE

\* Mutant: a claim whose output was not bound yet is taken to have none.
TakenBack_Bound ==
    Reverse(SelectSeq(record.claims, LAMBDA claim : claim.phase # "reserved"))

\* Mutant: in the order of the claims.
TakenBack_Forwards == record.claims

TakenBack == Reverse(record.claims)

\* Whether the intent of the record's transaction was published, as far as the
\* admission or the certifying receipt tells.
IntentMatches ==
    \/ admission.status = "recovery_required" /\ admission.transaction = record.transaction
    \/ admission.status = "terminal" /\ admission.certified = record.transaction

IntentOfAnother ==
    admission.status = "recovery_required" /\ admission.transaction # record.transaction

Init ==
    /\ disk = [t \in Transactions |-> [o \in Outputs |-> "absent"]]
    /\ record = NoRecord
    /\ pending = "none"
    /\ \E status \in {"absent", "terminal"} :
           admission = [status |-> status, transaction |-> 0, certified |-> 0]
    /\ pc = "idle" /\ todo = <<>> /\ answer = "none"
    /\ last = 0
    /\ retained \in SUBSET Transactions
    /\ intents = {} /\ undone = {}
    /\ faults = 0 /\ intrusions = 0

-----------------------------------------------------------------------------
(* An operation: it reconciles, prepares, publishes and executes.          *)

End(result) == pc' = "idle" /\ todo' = <<>> /\ answer' = result

Start ==
    /\ pc = "idle"
    /\ pc' = "pending" /\ todo' = <<>> /\ answer' = "none"
    /\ UNCHANGED <<disk, record, pending, admission, last, retained, history, bounds>>

\* Mutant: a pending version is accepted only where there is no record.
PendingKnown_Unbound ==
    pending # "none" => record = NoRecord /\ disk[last]["control"] = "absent"

\* A pending version without a record cannot belong to anything on the disk; one
\* beside a record must be its next version.
PendingKnown ==
    pending # "none" =>
        IF record = NoRecord THEN disk[last]["control"] = "absent" ELSE pending = "next"

ReconcilePending ==
    /\ pc = "pending"
    /\ \/ /\ PendingKnown
          /\ pending' = "none" /\ pc' = "reconcile"
          /\ UNCHANGED <<todo, answer>>
       \/ /\ ~PendingKnown
          /\ End("refused")
          /\ UNCHANGED pending
    /\ UNCHANGED <<disk, record, admission, last, retained, history, bounds>>

\* Another transaction that needs recovery blocks the reconciliation.
ReconcileRecord ==
    /\ pc = "reconcile"
    /\ \/ /\ record = NoRecord
          /\ pc' = "admit" /\ UNCHANGED <<record, todo, answer>>
       \/ /\ record # NoRecord /\ IntentMatches
          /\ record' = NoRecord /\ pc' = "admit"
          /\ UNCHANGED <<todo, answer>>
       \/ /\ record # NoRecord /\ ~IntentMatches
          /\ IF IntentOfAnother
             THEN End("refused")
             ELSE pc' = "clean" /\ todo' = TakenBack /\ UNCHANGED answer
          /\ UNCHANGED record
    /\ UNCHANGED <<disk, pending, admission, last, retained, history, bounds>>

\* What is found after the reconciliation may end the operation, and a pending
\* intent, even one that appeared since the preflight, always does.
Refuse ==
    /\ pc = "admit"
    /\ End("declined")
    /\ UNCHANGED <<disk, record, pending, admission, last, retained, history, bounds>>

Admit ==
    /\ pc = "admit" /\ admission.status # "recovery_required"
    /\ last < MaxTransactions
    /\ last' = last + 1
    /\ pc' = "open" /\ todo' = Preparation(last')
    /\ UNCHANGED <<disk, record, pending, admission, retained, history, answer, bounds>>

OpenRecord ==
    /\ pc = "open"
    /\ record' = [transaction |-> last, bootstrap |-> admission.status = "absent",
                  claims |-> <<>>]
    /\ pending' = "none" /\ pc' = "prepare"
    /\ UNCHANGED <<disk, admission, last, retained, history, todo, answer, bounds>>

Prepare ==
    /\ pc = "prepare" /\ todo # <<>>
    /\ LET step == Head(todo) IN
       IF step.do \in Publishing
       THEN record' = RecordAfter(step) /\ UNCHANGED disk
       ELSE Put(step.output, ContentAfter(step)) /\ UNCHANGED record
    /\ todo' = Tail(todo)
    /\ UNCHANGED <<pending, admission, pc, last, retained, history, answer, bounds>>

\* The handshake, the liveness of the writers and the ownership are checked
\* again before.
PublishIntent ==
    /\ pc = "prepare" /\ todo = <<>>
    /\ LET t == record.transaction IN
       /\ disk' = [disk EXCEPT ![t] =
              [o \in Outputs |-> IF record.bootstrap /\ o \in Control /\ Exists(@[o])
                                 THEN "moved" ELSE @[o]]]
       /\ admission' = [admission EXCEPT !.status = "recovery_required", !.transaction = t]
       /\ intents' = intents \union {t}
    /\ pc' = "preserve"
    /\ UNCHANGED <<record, pending, last, retained, undone, todo, answer, bounds>>

Preserve ==
    /\ pc = "preserve"
    /\ record' = NoRecord
    /\ IF answer = "none" THEN pc' = "execute" /\ UNCHANGED <<todo, answer>>
                          ELSE End(answer)
    /\ UNCHANGED <<disk, pending, admission, last, retained, history, bounds>>

-----------------------------------------------------------------------------
(* The recoverer, run by the operation itself or later by the operator.    *)

Rewritten(t) ==
    [disk EXCEPT ![t]["journal"] = IF @ = "moved" THEN @ ELSE "rewritten"]

\* A first adoption is certified by a receipt of its own either way; an abort of
\* another transaction restores the receipt from before it.
Terminal(t, goal) ==
    [status |-> "terminal", transaction |-> 0,
     certified |-> IF goal = "target" \/ disk[t]["control"] = "moved"
                   THEN t ELSE admission.certified]

Recovered(goal) ==
    LET t == admission.transaction IN
    /\ disk' = Rewritten(t)
    /\ admission' = Terminal(t, goal)
    /\ undone' = IF goal = "prior" THEN undone \union {t} ELSE undone

Execute ==
    /\ pc = "execute"
    /\ Recovered("target")
    /\ End("done")
    /\ UNCHANGED <<record, pending, last, retained, intents, bounds>>

Recover(goal) ==
    /\ pc = "idle" /\ admission.status = "recovery_required"
    /\ Recovered(goal)
    /\ UNCHANGED <<record, pending, operation, last, retained, intents, bounds>>

\* A recovery that is interrupted has rewritten the journal.
RecoverInterrupted ==
    /\ pc = "idle" /\ admission.status = "recovery_required"
    /\ disk' = Rewritten(admission.transaction)
    /\ UNCHANGED <<record, pending, admission, operation, last, retained, history, bounds>>

-----------------------------------------------------------------------------
(* Taking the outputs back, after a failure or in a reconciliation.        *)

\* Nothing is left of the output, so its claim is passed over.
PassOver ==
    /\ pc = "clean" /\ todo # <<>> /\ ~Exists(At(Head(todo).output))
    /\ todo' = Tail(todo)
    /\ UNCHANGED <<disk, record, pending, admission, pc, last, retained, history, answer, bounds>>

\* The entries of a tree go one by one, then the tree.
TakeBack ==
    /\ pc = "clean" /\ todo # <<>>
    /\ LET claim == Head(todo)
           o == claim.output
       IN /\ Exists(At(o))
          /\ Removable(claim)
          /\ IF o \in Trees /\ claim.phase \notin {"reserved", "removing"}
             THEN /\ Put(o, "partial")
                  /\ todo' = [todo EXCEPT ![1].phase = "removing"]
             ELSE /\ Put(o, "absent")
                  /\ todo' = Tail(todo)
    /\ UNCHANGED <<record, pending, admission, pc, last, retained, history, answer, bounds>>

RefuseToTakeBack ==
    /\ pc = "clean" /\ todo # <<>>
    /\ Exists(At(Head(todo).output))
    /\ ~Removable(Head(todo))
    /\ End("refused")
    /\ UNCHANGED <<disk, record, pending, admission, last, retained, history, bounds>>

\* The record goes last, when nothing is left to own.
Retire ==
    /\ pc = "clean" /\ todo = <<>>
    /\ record' = NoRecord
    /\ IF answer = "none" THEN pc' = "admit" /\ UNCHANGED <<todo, answer>>
                          ELSE End(answer)
    /\ UNCHANGED <<disk, pending, admission, last, retained, history, bounds>>

-----------------------------------------------------------------------------
(* Failures.                                                               *)

Fault == faults < MaxFaults /\ faults' = faults + 1

\* A copy that fails is withdrawn by the copying function itself.
Withdrawn(step) ==
    IF step.output \in {"tool", "target"} /\ step.do \in {"bind", "write", "finish"}
    THEN Put(step.output, "absent") ELSE UNCHANGED disk

\* An exception while preparing.  The record may have been replaced or not, and a
\* version that was half written stays beside it.
FailPreparing ==
    /\ pc = "prepare" /\ todo # <<>> /\ Fault
    /\ LET step == Head(todo) IN
       /\ Withdrawn(step)
       /\ \/ UNCHANGED <<record, pending>>
          \/ /\ step.do \in Publishing
             /\ \/ record' = RecordAfter(step) /\ UNCHANGED pending
                \/ pending' = "torn" /\ UNCHANGED record
    /\ pc' = "clean" /\ todo' = TakenBack' /\ answer' = "failed"
    /\ UNCHANGED <<admission, last, retained, history, intrusions>>

\* An exception between the last output and the retirement of the record, even in
\* the publication: whether the intent is there decides.
FailPublishing ==
    /\ \/ pc = "prepare" /\ todo = <<>>
       \/ pc = "preserve"
    /\ Fault
    /\ IF admission.status = "recovery_required"
       THEN pc' = "preserve" /\ UNCHANGED todo
       ELSE pc' = "clean" /\ todo' = TakenBack
    /\ answer' = "failed"
    /\ UNCHANGED <<disk, record, pending, admission, last, retained, history, intrusions>>

PublishesNext ==
    \/ pc = "open"
    \/ /\ pc = "prepare" /\ todo # <<>>
       /\ Head(todo).do \in Publishing

\* The process dies, or fails where nothing is taken back.  Besides what is on the
\* disk already it can leave a version of the record half or fully written, or an
\* entry of a tree without its mode.
Crash ==
    /\ pc # "idle" /\ Fault
    /\ \/ UNCHANGED <<disk, pending>>
       \/ /\ PublishesNext /\ pending' \in {"torn", "next"}
          /\ UNCHANGED disk
       \/ /\ pc = "prepare" /\ todo # <<>>
          /\ Head(todo).output \in Trees /\ Head(todo).do \in {"write", "finish"}
          /\ Put(Head(todo).output, "misfit")
          /\ UNCHANGED pending
    /\ End("crashed")
    /\ UNCHANGED <<record, admission, last, retained, history, intrusions>>

\* Someone puts something of his own in place of an abandoned output, or into it.
\* The control directory has no entries of its own that he could change the bytes
\* of, an entry without its mode keeps its tree from being taken back anyway, and
\* in another directory than the one made everything is foreign.
Intrude(o, content) ==
    /\ pc = "idle" /\ record # NoRecord /\ record.transaction \notin intents
    /\ o \in {record.claims[i].output : i \in DOMAIN record.claims}
    /\ content = "vacant" => (o = "control" => ControlEmpty)
    /\ content = "edited" => o # "control" /\ At(o) \in {"absent", "empty", "partial", "full"}
    /\ content # "foreign" => (o \in InControl => At("control") = "empty")
    /\ intrusions < MaxIntrusions /\ intrusions' = intrusions + 1
    /\ Put(o, content)
    /\ UNCHANGED <<record, pending, admission, operation, last, retained, history, faults>>

Operation == \/ ReconcilePending \/ ReconcileRecord \/ Refuse \/ Admit \/ OpenRecord
             \/ Prepare \/ PublishIntent \/ Preserve \/ Execute
             \/ PassOver \/ TakeBack \/ RefuseToTakeBack \/ Retire

Next == \/ Start \/ Operation
        \/ (\E goal \in {"target", "prior"} : Recover(goal)) \/ RecoverInterrupted
        \/ FailPreparing \/ FailPublishing \/ Crash
        \/ \E o \in Outputs, content \in Others : Intrude(o, content)

Spec == Init /\ [][Next]_vars

\* An operation that runs goes on, and the operator tries again and recovers.
FairSpec == /\ Spec
            /\ WF_vars(Operation) /\ WF_vars(Start)
            /\ WF_vars(\E goal \in {"target", "prior"} : Recover(goal))

-----------------------------------------------------------------------------
(* Properties.                                                             *)

Claimed == {record.claims[i].output : i \in DOMAIN record.claims}

Todos == [do : {"claim", "create", "bind", "write", "finish", "promote"}, output : Outputs]
         \union [output : Outputs, phase : {"reserved", "incomplete", "complete", "removing"}]

\* The values of the variables; a claim is made once.
TypeOK ==
    /\ disk \in [Transactions -> [Outputs -> Contents]]
    /\ record.transaction \in 0..last /\ record.bootstrap \in BOOLEAN
    /\ record.claims \in Seq([output : Outputs, phase : {"reserved", "incomplete", "complete"}])
    /\ Cardinality(Claimed) = Len(record.claims)
    /\ pending \in {"none", "torn", "next"}
    /\ admission \in [status : {"absent", "recovery_required", "terminal"},
                      transaction : 0..last, certified : 0..last]
    /\ pc \in {"idle", "pending", "reconcile", "admit", "open", "prepare", "preserve",
               "execute", "clean"}
    /\ todo \in Seq(Todos)
    /\ last \in 0..MaxTransactions
    /\ answer \in {"none", "declined", "refused", "failed", "crashed", "done"}
    /\ undone \subseteq intents /\ intents \subseteq 1..last

\* Whatever there is of a transaction that was not published is claimed in the
\* record: nothing is created before its claim is durable, and the record is
\* not retired while anything that it claims is left, whichever crash or
\* exception comes between (claim_absent before every creation, _retire_record
\* at the end of cleanup).
Accounted ==
    \A t \in Transactions \ intents : \A o \in Outputs :
        Exists(disk[t][o]) => record.transaction = t /\ o \in Claimed

Intact(t) ==
    \A o \in Outputs : \/ disk[t][o] \in {"full", "moved", "rewritten"}
                       \/ o = "control" /\ disk[t][o] = "empty"
                       \/ o = "tool" /\ t \in retained

\* A published transaction finds everything it prepared, as long as it is not
\* undone: the intent comes last, and neither the failure of the publication nor
\* a later reconciliation takes anything back (_cleanup_preintent_bundle and
\* _reconcile_preparations preserve what the intent names).
PublishedIntact == \A t \in intents \ undone : Intact(t)

\* What there is of a transaction is on record as long as it may be taken back,
\* and all of it is there once it may not.
NothingAstray == TypeOK /\ Accounted /\ PublishedIntact

\* Nor does it take back what was prepared by a transaction that an abort undid:
\* "published intent preparation record is retired without cleanup"
\* (scripts/test_lifecycle.py).
PublishedNeverCleaned == \A t \in intents : Intact(t)

\* What somebody else left where the record cannot tell it from what the operation
\* made: an empty object at a path whose object was not bound yet, or bytes in an
\* output that was not complete yet.
Indistinct(t, o) ==
    /\ t = record.transaction
    /\ \E i \in DOMAIN record.claims :
           /\ record.claims[i].output = o
           /\ \/ record.claims[i].phase = "reserved" /\ disk[t][o] = "vacant"
              \/ record.claims[i].phase = "incomplete" /\ disk[t][o] = "edited"

\* What somebody else put in the place of an output or into it is not removed or
\* overwritten, except where it is indistinct: an object of his own once the output
\* was bound, anything of his that is not empty before, and his bytes in an output
\* that was complete all stay, however often the operations and recoveries that meet
\* them are interrupted (_remove_prepared_path).
ForeignKept ==
    [][\A t \in Transactions : \A o \in Outputs :
           disk[t][o] \in Others /\ ~Indistinct(t, o) => disk'[t][o] \in Others]_vars

\* The exception is real: "abandoned preparation with changed content is preserved"
\* (scripts/test_lifecycle.py) is only so where the record can tell.
OthersKept ==
    [][\A t \in Transactions : \A o \in Outputs :
           disk[t][o] \in Others => disk'[t][o] \in Others]_vars

\* What no reconciliation will take back: a torn version of a record, an output
\* that shows itself not to be the one made, an entry without its mode, and an
\* output that was complete and is no longer.  All but what others left can be the
\* work of a crash: of a version being written, a directory being made inside a tree,
\* a complete tree being taken back.
Unrecognisable ==
    /\ record # NoRecord
    /\ \/ pending = "torn"
       \/ \E i \in DOMAIN record.claims :
             LET content == At(record.claims[i].output)
                 phase == record.claims[i].phase
             IN \/ content \in {"foreign", "misfit", "rewritten"}
                \/ content = "vacant" /\ phase # "reserved"
                \/ content = "edited" /\ phase # "incomplete"
                \/ phase = "complete" /\ Exists(content) /\ content # "full"

\* An operation never refuses an interrupted preparation for any other reason, at
\* whichever step it was interrupted: not for an output that was claimed and not made,
\* made and not bound, half written, or already taken back, and not for one that
\* stands in another that goes later (_PreparationGuard.cleanup in the reverse
\* order of the claims, over outputs in every phase).
RefusalExplained ==
    [][answer' = "refused" => answer = "refused" \/ Unrecognisable]_vars

\* An abandoned record does not stay: if the operator tries again, and recovers
\* where that is asked for, it is retired or was made unrecognisable.
RecordSettles == record # NoRecord ~> (record = NoRecord \/ Unrecognisable)
=============================================================================
