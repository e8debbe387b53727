-------------------------- MODULE CodexWakesProofs --------------------------
(***************************************************************************)
(* Proofs about CodexWakes for every set of messages, every number of      *)
(* wakes allowed and any number of bindings and faults.                    *)
(***************************************************************************)
EXTENDS CodexWakes, FiniteSetTheorems, TLAPS

\* What the record of a message keeps in a step that leases nothing: how often
\* it was tried; and only AttentionRecord marks it as needing attention.
Kept(r, s) ==
  /\ s \in Record
  /\ s.wake_attempts = r.wake_attempts
  /\ s.attention_attempts = r.attention_attempts
  /\ s.wake_status = "needs_attention" => r.wake_status = "needs_attention"

\* What is known in the middle of a handler.
Places ==
  /\ pc \in {"drain", "commit"} => cur \in Message
  /\ pc \in {"attention_audit", "attention_record", "attention_lease"} => cur \in attended
  /\ pc \in {"attention_record", "attention_lease"} => cur \notin intents
  /\ pc \in {"bind_persist", "bind_rearm", "bind_retry", "wait", "wait_scan", "poll",
             "attention_audit", "attention_record", "attention_lease"} => reg # 0
  /\ pc \in {"bind_rearm", "bind_retry"} => route = reg
  /\ pc \in {"bind_persist", "bind_rearm"} =>
       \A m \in Message : AttentionCount(m, reg) = 0

\* Attempts count what was leased; those for attention start again with a
\* generation, which therefore cannot have been leased more than they say.
Counts ==
  \A m \in Message :
    /\ Len(wakeLog[m]) = record[m].wake_attempts
    /\ \A i \in DOMAIN attentionLog[m] : attentionLog[m][i] <= bindings
    /\ \A g \in Generation : AttentionCount(m, g) <= MaxWakes
    /\ \A g \in {reg, route} \ {0} : AttentionCount(m, g) <= record[m].attention_attempts

\* Generations are handed out in order; the file never runs ahead of the memory.
Generations ==
  /\ reg <= bindings /\ route <= bindings /\ replied <= bindings
  /\ reg # 0 => route <= reg
  /\ BindDurable

IInv == TypeOK /\ Places /\ Counts /\ AttentionSound /\ Generations

\* A step that touches only records, and keeps what Kept says.
RecordStep ==
  /\ UNCHANGED <<attended, intents, audit, reg, route, bindings, expired, replied,
                 wakeLog, attentionLog>>
  /\ \A m \in Message : Kept(record[m], record'[m])

-----------------------------------------------------------------------------
(* Counting.                                                               *)

\* Counting the places of g after one more notification.
LEMMA CountAppend ==
  ASSUME NEW S, NEW s \in Seq(S), NEW e \in S, NEW g
  PROVE  /\ Cardinality(Occurrences(s, g)) \in Nat
         /\ Cardinality(Occurrences(Append(s, e), g)) =
              IF e = g THEN Cardinality(Occurrences(s, g)) + 1
                       ELSE Cardinality(Occurrences(s, g))
PROOF
  <1> DEFINE n == Len(s)
             before == Occurrences(s, g)
             after == Occurrences(Append(s, e), g)
  <1>1. IsFiniteSet(1..n) /\ n \in Nat /\ DOMAIN s = 1..n
    BY FS_Interval
  <1>2. IsFiniteSet(before) /\ Cardinality(before) \in Nat
    BY <1>1, FS_Subset, FS_CardinalityType DEF Occurrences
  <1>3. n + 1 \notin before
    BY <1>1 DEF Occurrences
  <1>4. after = IF e = g THEN before \cup {n + 1} ELSE before
    BY <1>1 DEF Occurrences
  <1>5. /\ IsFiniteSet(before \cup {n + 1})
        /\ Cardinality(before \cup {n + 1}) = Cardinality(before) + 1
    BY <1>2, <1>3, FS_AddElement
  <1> QED BY <1>2, <1>4, <1>5

\* Nothing is counted for a generation that does not occur.
LEMMA CountNone ==
  ASSUME NEW m \in Message, NEW g,
         \A i \in DOMAIN attentionLog[m] : attentionLog[m][i] # g
  PROVE  AttentionCount(m, g) = 0
PROOF
  <1>1. Occurrences(attentionLog[m], g) = {}
    BY DEF Occurrences
  <1> QED BY <1>1, FS_EmptySet DEF AttentionCount

-----------------------------------------------------------------------------
(* Updates of one record.                                                  *)

LEMMA Updates ==
  ASSUME NEW r \in Record
  PROVE  /\ Kept(r, Claimed(r)) /\ Kept(r, Acknowledged(r)) /\ Kept(r, Returned(r))
         /\ Kept(r, Superseded(r)) /\ Kept(r, [r EXCEPT !.status = "pending"])
         /\ Kept(r, [r EXCEPT !.claim = "expired"])
         /\ Kept(r, [r EXCEPT !.wake_timer = FALSE])
         /\ Kept(r, [r EXCEPT !.attention_timer = FALSE])
PROOF
  <1>1. Kept(r, Claimed(r))
    BY DEF Kept, Record, Claimed, Status, WakeStatus
  <1>2. Kept(r, Acknowledged(r)) /\ Kept(r, Returned(r))
    BY DEF Kept, Record, Acknowledged, Returned, Status, WakeStatus
  <1>3. /\ Kept(r, Superseded(r)) /\ Kept(r, [r EXCEPT !.status = "pending"])
        /\ Kept(r, [r EXCEPT !.claim = "expired"])
    BY DEF Kept, Record, Superseded, Status
  <1>4. /\ Kept(r, [r EXCEPT !.wake_timer = FALSE])
        /\ Kept(r, [r EXCEPT !.attention_timer = FALSE])
    BY DEF Kept, Record
  <1> QED BY <1>1, <1>2, <1>3, <1>4

\* A report of the router.
LEMMA ReportKeeps ==
  ASSUME NEW r \in Record, NEW d \in BOOLEAN
  PROVE  /\ Kept(r, [r EXCEPT !.attention_timer = FALSE,
                              !.attention_notified = IF d THEN TRUE ELSE @])
         /\ Kept(r, [r EXCEPT !.wake_status = IF d THEN "notified" ELSE "retry_pending",
                              !.wake_timer = d])
PROOF BY DEF Kept, Record, WakeStatus

LEMMA RearmedKeeps ==
  ASSUME NEW r \in Record, NEW g
  PROVE  /\ Rearmed(r, g) \in Record
         /\ Rearmed(r, g).wake_attempts = r.wake_attempts
         /\ Rearmed(r, g).attention_attempts \in {0, r.attention_attempts}
         /\ Rearmed(r, g).wake_status = "needs_attention" => r.wake_status = "needs_attention"
PROOF
  <1> DEFINE w == IF r.wake_binding_generation \in {0, g} THEN r
                  ELSE [r EXCEPT !.wake_status = IF @ \in {"leased", "notified"}
                                                 THEN "retry_pending" ELSE @,
                                 !.wake_timer = FALSE,
                                 !.wake_notification_id = 0, !.wake_binding_generation = 0]
             z == IF r.attention_binding_generation \in {0, g} THEN w
                  ELSE [w EXCEPT !.attention_timer = FALSE, !.attention_attempts = 0,
                                 !.attention_notified = FALSE,
                                 !.attention_notification_id = 0,
                                 !.attention_binding_generation = 0]
  <1>0. 0 \in 0..MaxWakes /\ 0 \in OptionalGeneration /\ 0 \in Nat
    BY BoundAssumption DEF OptionalGeneration
  <1>1. Kept(r, w)
    BY <1>0 DEF Kept, Record, WakeStatus
  <1> HIDE DEF w
  <1>2. /\ z \in Record
        /\ z.wake_attempts = r.wake_attempts
        /\ z.attention_attempts \in {0, r.attention_attempts}
        /\ z.wake_status = "needs_attention" => r.wake_status = "needs_attention"
    BY <1>0, <1>1 DEF Kept, Record
  <1>3. Rearmed(r, g) = z
    BY DEF Rearmed, w
  <1> QED BY <1>2, <1>3

LEMMA KeptSelf == ASSUME NEW r \in Record PROVE Kept(r, r)
PROOF BY DEF Kept

LEMMA Written ==
  ASSUME TypeOK, NEW m \in Message, NEW s \in Record, record' = [record EXCEPT ![m] = s]
  PROVE  /\ record' \in [Message -> Record] /\ record'[m] = s
         /\ \A x \in Message \ {m} : record'[x] = record[x]
PROOF BY DEF TypeOK

\* Writing one record keeps all if it keeps that one.
LEMMA WriteKeeps ==
  ASSUME TypeOK, NEW m \in Message, NEW s, Kept(record[m], s), Write(m, s)
  PROVE  /\ record' \in [Message -> Record]
         /\ \A x \in Message : Kept(record[x], record'[x])
PROOF BY KeptSelf DEF TypeOK, Write, Kept

LEMMA ReconcileKeeps ==
  ASSUME TypeOK, NEW next, Reconcile(next)
  PROVE  /\ record' \in [Message -> Record]
         /\ \A x \in Message : Kept(record[x], record'[x])
         /\ pc' \in {pc, next} /\ cur' = cur /\ todo' = todo
PROOF
  <1>1. CASE \E m \in Message : CanRecoverAck(m)
    <2>1. PICK m \in Message : Write(m, Acknowledged(record[m]))
      BY <1>1 DEF Reconcile
    <2>2. Kept(record[m], Acknowledged(record[m]))
      BY Updates DEF TypeOK
    <2> QED BY <1>1, <2>1, <2>2, WriteKeeps DEF Reconcile
  <1>2. CASE ~\E m \in Message : CanRecoverAck(m)
    BY <1>2, KeptSelf DEF Reconcile, TypeOK
  <1> QED BY <1>1, <1>2

LEMMA ClaimKeeps ==
  ASSUME TypeOK, NEW g \in Generation, ClaimFor(g)
  PROVE  /\ record' \in [Message -> Record]
         /\ \A x \in Message : Kept(record[x], record'[x])
         /\ holder' \in [Message -> OptionalGeneration]
PROOF
  <1>1. PICK m \in Message : /\ Write(m, Claimed(record[m]))
                             /\ holder' = [holder EXCEPT ![m] = g]
    BY DEF ClaimFor
  <1>2. Kept(record[m], Claimed(record[m]))
    BY Updates DEF TypeOK
  <1>3. g \in OptionalGeneration
    BY BoundAssumption DEF Generation, OptionalGeneration
  <1> QED BY <1>1, <1>2, <1>3, WriteKeeps DEF TypeOK

LEMMA SameCount ==
  ASSUME UNCHANGED attentionLog
  PROVE  \A m, g : AttentionCount(m, g)' = AttentionCount(m, g)
PROOF BY DEF AttentionCount

\* The steps that only touch records.
RecordAction ==
  \/ Wait \/ WaitReconcile \/ WaitScan \/ RecoverAcks
  \/ \E g \in waiters : WaitResume(g)
  \/ \E m \in Message : Ack(m) \/ Transition(m) \/ PollRecover(m)
  \/ TransitionCommit
  \/ \E m \in Message, delivered \in BOOLEAN :
       \/ \E id \in DOMAIN wakeLog[m] : WakeAck(m, id, delivered)
       \/ \E id \in DOMAIN attentionLog[m] : AttentionAck(m, id, delivered)
  \/ \E m \in Message : ClaimExpires(m) \/ WakeTimerEnds(m) \/ AttentionTimerEnds(m)
  \/ Fail

LEMMA RecordActionsAre ==
  ASSUME TypeOK, Places, RecordAction
  PROVE  RecordStep /\ TypeOK' /\ Places'
PROOF
  <1> USE DEF delivery, binding, handler, history
  <1>a. \A x \in Message : record[x] \in Record
    BY DEF TypeOK
  <1>b. 0 \notin Generation /\ \A g \in OptionalGeneration \ {0} : g \in Generation
    BY BoundAssumption DEF Generation, OptionalGeneration
  <1>1. CASE Wait
    BY <1>1, KeptSelf, SameCount DEF Wait, Bound, RecordStep, TypeOK, Places
  <1>2. CASE WaitReconcile
    <2>1. /\ record' \in [Message -> Record]
          /\ \A x \in Message : Kept(record[x], record'[x])
          /\ pc' \in {"wait", "wait_scan"} /\ cur' = cur /\ todo' = todo
      BY <1>2, ReconcileKeeps DEF WaitReconcile
    <2> QED BY <1>2, <2>1 DEF WaitReconcile, RecordStep, TypeOK, Places
  <1>3. CASE WaitScan
    <2>1. reg \in Generation
      BY <1>3, <1>b DEF WaitScan, Places, TypeOK
    <2>2. /\ record' \in [Message -> Record]
          /\ \A x \in Message : Kept(record[x], record'[x])
          /\ holder' \in [Message -> OptionalGeneration]
          /\ waiters' \subseteq Generation
      BY <1>3, <1>a, <2>1, ClaimKeeps, KeptSelf DEF WaitScan, TypeOK
    <2> QED BY <1>3, <2>2 DEF WaitScan, Done, RecordStep, TypeOK, Places
  <1>4. CASE RecoverAcks
    <2>1. /\ record' \in [Message -> Record]
          /\ \A x \in Message : Kept(record[x], record'[x])
          /\ pc' \in {"recover_acks", "idle"} /\ cur' = cur /\ todo' = todo
      BY <1>4, ReconcileKeeps DEF RecoverAcks
    <2> QED BY <1>4, <2>1 DEF RecoverAcks, RecordStep, TypeOK, Places, Recovering
  <1>5. CASE \E g \in waiters : WaitResume(g)
    <2>1. PICK g \in waiters : WaitResume(g)
      BY <1>5
    <2>2. g \in Generation
      BY DEF TypeOK
    <2>3. /\ record' \in [Message -> Record]
          /\ \A x \in Message : Kept(record[x], record'[x])
          /\ holder' \in [Message -> OptionalGeneration]
      BY <1>a, <2>1, <2>2, ClaimKeeps, KeptSelf DEF WaitResume, TypeOK
    <2> QED BY <2>1, <2>3 DEF WaitResume, RecordStep, TypeOK, Places
  <1>6. ASSUME NEW m \in Message, Ack(m)
        PROVE  RecordStep /\ TypeOK' /\ Places'
    <2>1. Kept(record[m], Acknowledged(record[m]))
      BY <1>a, Updates
    <2> QED BY <1>6, <2>1, WriteKeeps DEF Ack, RecordStep, TypeOK, Places
  <1>7. ASSUME NEW m \in Message, Transition(m)
        PROVE  RecordStep /\ TypeOK' /\ Places'
    BY <1>7, <1>a, KeptSelf DEF Transition, RecordStep, TypeOK, Places
  <1>8. ASSUME NEW m \in Message, PollRecover(m)
        PROVE  RecordStep /\ TypeOK' /\ Places'
    <2>1. /\ Kept(record[m], Acknowledged(record[m]))
          /\ Kept(record[m], Returned(record[m]))
      BY <1>a, Updates
    <2>2. /\ record' \in [Message -> Record]
          /\ \A x \in Message : Kept(record[x], record'[x])
          /\ \/ pc' = "idle" /\ cur' = None /\ todo' = {}
             \/ pc' = "poll" /\ cur' = m /\ todo' = todo
      BY <1>8, <2>1, WriteKeeps DEF PollRecover, Done
    <2>3. reg # 0
      BY <1>8 DEF PollRecover, Polling, Bound, Places
    <2> QED BY <1>8, <2>2, <2>3 DEF PollRecover, RecordStep, TypeOK, Places
  <1>9. CASE TransitionCommit
    <2>1. cur \in Message
      BY <1>9 DEF TransitionCommit, Places
    <2>2. /\ Kept(record[cur], Superseded(record[cur]))
          /\ Kept(record[cur], [record[cur] EXCEPT !.status = "pending"])
      BY <1>a, <2>1, Updates
    <2>3. /\ record' \in [Message -> Record]
          /\ \A x \in Message : Kept(record[x], record'[x])
          /\ answered' \subseteq Message \ Notice
      BY <1>9, <1>a, <2>1, <2>2, WriteKeeps, KeptSelf DEF TransitionCommit, TypeOK
    <2> QED BY <1>9, <2>3 DEF TransitionCommit, Done, RecordStep, TypeOK, Places
  <1>10. ASSUME NEW m \in Message, NEW d \in BOOLEAN, NEW id,
                WakeAck(m, id, d) \/ AttentionAck(m, id, d)
         PROVE  RecordStep /\ TypeOK' /\ Places'
    <2>1. /\ record' \in [Message -> Record]
          /\ \A x \in Message : Kept(record[x], record'[x])
      BY <1>10, <1>a, ReportKeeps, WriteKeeps DEF WakeAck, AttentionAck
    <2> QED BY <1>10, <2>1 DEF WakeAck, AttentionAck, RecordStep, TypeOK, Places
  <1>11. ASSUME NEW m \in Message,
                ClaimExpires(m) \/ WakeTimerEnds(m) \/ AttentionTimerEnds(m)
         PROVE  RecordStep /\ TypeOK' /\ Places'
    <2>1. /\ record' \in [Message -> Record]
          /\ \A x \in Message : Kept(record[x], record'[x])
      BY <1>11, <1>a, Updates, WriteKeeps DEF ClaimExpires, WakeTimerEnds, AttentionTimerEnds
    <2> QED BY <1>11, <2>1
            DEF ClaimExpires, WakeTimerEnds, AttentionTimerEnds, RecordStep, TypeOK, Places
  <1>12. CASE Fail
    BY <1>12, <1>a, KeptSelf, BoundAssumption DEF Fail, Done, RecordStep, TypeOK, Places
  <1> QED BY <1>1, <1>2, <1>3, <1>4, <1>5, <1>6, <1>7, <1>8, <1>9, <1>10, <1>11, <1>12
          DEF RecordAction

\* Such a step keeps what is known of counts, attention and generations.
LEMMA RecordStepsKeep ==
  ASSUME IInv, RecordStep
  PROVE  Counts' /\ AttentionSound' /\ Generations'
PROOF
  <1>1. Counts'
    BY SameCount DEF IInv, RecordStep, Counts, Kept
  <1>2. AttentionSound'
    BY DEF IInv, RecordStep, AttentionSound, Kept
  <1>3. Generations'
    BY DEF IInv, RecordStep, Generations, BindDurable
  <1> QED BY <1>1, <1>2, <1>3

-----------------------------------------------------------------------------
(* Bindings and faults.                                                    *)

LEMMA BindKeeps ==
  ASSUME IInv, Bind
  PROVE  IInv'
PROOF
  <1> USE DEF delivery, binding, handler, history
  <1>1. /\ bindings' = bindings + 1 /\ reg' = bindings + 1 /\ pc' = "bind_persist"
        /\ bindings \in Nat /\ MaxBindings \in Nat
        /\ bindings' \in OptionalGeneration /\ bindings' \in Generation
        /\ UNCHANGED <<delivery, route, expired, replied, waiters, cur, todo, faults, history>>
    BY BoundAssumption DEF Bind, IInv, TypeOK, OptionalGeneration, Generation
  <1>2. \A m \in Message : \A i \in DOMAIN attentionLog[m] : attentionLog[m][i] # reg'
    <2> SUFFICES ASSUME NEW m \in Message, NEW i \in DOMAIN attentionLog[m]
                 PROVE  attentionLog[m][i] # reg'
      OBVIOUS
    <2>1. attentionLog[m][i] \in Generation
      BY DEF IInv, TypeOK
    <2>2. attentionLog[m][i] <= bindings
      BY DEF IInv, Counts
    <2> QED BY <1>1, <2>1, <2>2 DEF Generation
  <1>3. \A m \in Message : AttentionCount(m, reg') = 0
    BY <1>2, CountNone DEF IInv
  <1>4. \A m, g : AttentionCount(m, g)' = AttentionCount(m, g)
    BY <1>1, SameCount
  <1>5. TypeOK'
    BY <1>1 DEF IInv, TypeOK
  <1>6. Places'
    BY <1>1, <1>3, <1>4 DEF Places, Generation
  <1>7. Counts'
    <2> SUFFICES ASSUME NEW m \in Message
                 PROVE  /\ Len(wakeLog'[m]) = record'[m].wake_attempts
                        /\ \A i \in DOMAIN attentionLog'[m] : attentionLog'[m][i] <= bindings'
                        /\ \A g \in Generation : AttentionCount(m, g)' <= MaxWakes
                        /\ \A g \in {reg', route'} \ {0} :
                             AttentionCount(m, g)' <= record'[m].attention_attempts
      BY DEF Counts
    <2>1. ASSUME NEW i \in DOMAIN attentionLog[m] PROVE attentionLog[m][i] \in Nat
      <3>1. attentionLog[m][i] \in Generation
        BY DEF IInv, TypeOK
      <3> QED BY <3>1 DEF Generation
    <2>2. \A i \in DOMAIN attentionLog[m] : attentionLog[m][i] <= bindings + 1
      BY <1>1, <2>1 DEF IInv, Counts
    <2>3. record[m].attention_attempts \in Nat
      BY BoundAssumption DEF IInv, TypeOK, Record
    <2> QED BY <1>1, <1>3, <1>4, <2>2, <2>3 DEF IInv, Counts
  <1>8. AttentionSound'
    BY <1>1 DEF IInv, AttentionSound
  <1>9. Generations'
    <2>1. route \in Nat /\ replied \in Nat
      BY BoundAssumption DEF IInv, TypeOK, OptionalGeneration
    <2> QED BY <1>1, <2>1 DEF IInv, Generations, BindDurable
  <1> QED BY <1>5, <1>6, <1>7, <1>8, <1>9 DEF IInv

LEMMA BindPersistKeeps ==
  ASSUME IInv, BindPersist
  PROVE  IInv'
PROOF
  <1> USE DEF delivery, binding, handler, history
  <1>1. \A m, g : AttentionCount(m, g)' = AttentionCount(m, g)
    BY SameCount DEF BindPersist
  <1>2. TypeOK'
    BY DEF IInv, TypeOK, BindPersist
  <1>3. Places'
    BY <1>1 DEF IInv, Places, BindPersist
  <1>4. Counts'
    BY <1>1 DEF IInv, Counts, BindPersist
  <1>5. AttentionSound'
    BY DEF IInv, AttentionSound, BindPersist
  <1>6. Generations'
    <2>1. /\ route \in Nat /\ reg \in Nat /\ replied \in Nat /\ reg # 0
          /\ route' = reg /\ reg' = reg /\ replied' = replied
          /\ bindings' = bindings /\ expired' = expired
      BY BoundAssumption DEF IInv, TypeOK, OptionalGeneration, Places, BindPersist
    <2> QED BY <2>1 DEF IInv, Generations, BindDurable
  <1> QED BY <1>2, <1>3, <1>4, <1>5, <1>6 DEF IInv

LEMMA BindRearmKeeps ==
  ASSUME IInv, BindRearm
  PROVE  IInv'
PROOF
  <1> USE DEF delivery, binding, handler, history
  <1>1. \A m, g : AttentionCount(m, g)' = AttentionCount(m, g)
    BY SameCount DEF BindRearm
  <1>2. \A x \in Message :
          /\ record'[x] \in Record
          /\ record'[x].wake_attempts = record[x].wake_attempts
          /\ record'[x].attention_attempts \in {0, record[x].attention_attempts}
          /\ record'[x].wake_status = "needs_attention"
               => record[x].wake_status = "needs_attention"
    <2>1. record \in [Message -> Record] /\ todo \subseteq Message
      BY DEF IInv, TypeOK
    <2>2. CASE todo = {}
      BY <2>1, <2>2 DEF BindRearm
    <2>3. CASE todo # {}
      <3>1. PICK m \in todo : Write(m, Rearmed(record[m], reg))
        BY <2>3 DEF BindRearm
      <3> QED BY <2>1, <3>1, RearmedKeeps DEF Write
    <2> QED BY <2>2, <2>3
  <1>3. TypeOK'
    <2>1. record' \in [Message -> Record]
      BY <1>2 DEF IInv, TypeOK, BindRearm, Write
    <2> QED BY <2>1 DEF IInv, TypeOK, BindRearm
  <1>4. Places'
    BY <1>1 DEF IInv, Places, BindRearm
  <1>5. Counts'
    <2>1. pc = "bind_rearm" /\ route = reg /\ route' = route /\ reg' = reg
      BY DEF IInv, Places, BindRearm
    <2>2. \A m \in Message : \A g \in {reg, route} \ {0} : AttentionCount(m, g) = 0
      BY <2>1 DEF IInv, Places
    <2>3. \A m \in Message : record'[m].attention_attempts \in Nat
      BY <1>2, BoundAssumption DEF Record
    <2>4. \A m \in Message : \A g \in {reg, route} \ {0} :
            AttentionCount(m, g) <= record'[m].attention_attempts
      BY <2>2, <2>3
    <2> QED BY <1>1, <1>2, <2>1, <2>4 DEF IInv, Counts, BindRearm
  <1>6. AttentionSound'
    BY <1>2 DEF IInv, AttentionSound, BindRearm
  <1>7. Generations'
    BY DEF IInv, Generations, BindDurable, BindRearm
  <1> QED BY <1>3, <1>4, <1>5, <1>6, <1>7 DEF IInv

LEMMA BindAgainKeeps ==
  ASSUME IInv, BindAgain
  PROVE  IInv'
PROOF
  <1> USE DEF delivery, binding, handler, history
  <1>1. \A m, g : AttentionCount(m, g)' = AttentionCount(m, g)
    BY SameCount DEF BindAgain
  <1>2. TypeOK' /\ AttentionSound'
    BY DEF IInv, TypeOK, AttentionSound, BindAgain
  <1>3. Places'
    BY <1>1 DEF IInv, Places, BindAgain, Bound
  <1>4. Counts'
    BY <1>1 DEF IInv, Counts, BindAgain
  <1>5. Generations'
    <2>1. /\ route \in Nat /\ reg \in Nat /\ replied \in Nat /\ reg # 0
          /\ route' = reg /\ reg' = reg /\ replied' = replied
          /\ bindings' = bindings /\ expired' = expired
      BY BoundAssumption DEF IInv, TypeOK, OptionalGeneration, BindAgain, Bound
    <2> QED BY <2>1 DEF IInv, Generations, BindDurable
  <1> QED BY <1>2, <1>3, <1>4, <1>5 DEF IInv

LEMMA BindReplyKeeps ==
  ASSUME IInv, BindReply
  PROVE  IInv'
PROOF
  <1> USE DEF delivery, binding, handler, history
  <1>1. /\ record' \in [Message -> Record]
        /\ \A x \in Message : Kept(record[x], record'[x])
        /\ pc = "bind_retry" /\ pc' \in {"bind_retry", "idle"}
        /\ cur' = cur /\ todo' = todo /\ replied' \in {reg, replied}
    BY ReconcileKeeps DEF BindReply, IInv
  <1>2. \A m, g : AttentionCount(m, g)' = AttentionCount(m, g)
    BY SameCount DEF BindReply
  <1>3. TypeOK'
    BY <1>1 DEF IInv, TypeOK, BindReply
  <1>4. Places'
    BY <1>1, <1>2 DEF IInv, Places, BindReply
  <1>5. Counts' /\ AttentionSound'
    BY <1>1, <1>2 DEF IInv, Counts, AttentionSound, Kept, BindReply
  <1>6. Generations'
    <2>1. /\ route \in Nat /\ reg \in Nat /\ reg # 0 /\ route = reg
          /\ route' = reg /\ reg' = reg /\ bindings' = bindings /\ expired' = expired
      BY <1>1, BoundAssumption DEF IInv, TypeOK, OptionalGeneration, Places, BindReply
    <2> QED BY <1>1, <2>1 DEF IInv, Generations, BindDurable
  <1> QED BY <1>3, <1>4, <1>5, <1>6 DEF IInv

LEMMA UnbindKeeps ==
  ASSUME IInv, Unbind \/ UnbindForget
  PROVE  IInv'
PROOF
  <1> USE DEF delivery, binding, handler, history
  <1>1. \A m, g : AttentionCount(m, g)' = AttentionCount(m, g)
    BY SameCount DEF Unbind, UnbindForget
  <1>2. TypeOK' /\ AttentionSound'
    <2>1. /\ UNCHANGED <<record, attended, intents, audit, answered, holder, wakeLog,
                         attentionLog, expired, bindings, waiters, faults>>
          /\ reg' \in {0, reg} /\ route' \in {0, route} /\ replied' \in {0, replied}
          /\ pc' \in {"unbind", "idle"} /\ cur' \in {None, cur} /\ todo' \in {{}, todo}
      BY DEF Unbind, UnbindForget, Done
    <2>2. 0 \in OptionalGeneration
      BY BoundAssumption DEF OptionalGeneration
    <2>3. TypeOK'
      BY <2>1, <2>2 DEF IInv, TypeOK
    <2>4. AttentionSound'
      BY <2>1 DEF IInv, AttentionSound
    <2> QED BY <2>3, <2>4
  <1>3. Places' /\ Counts'
    BY <1>1 DEF IInv, Places, Counts, Unbind, UnbindForget, Done
  <1>4. Generations'
    BY BoundAssumption DEF IInv, TypeOK, OptionalGeneration, Generations, BindDurable,
          Unbind, UnbindForget
  <1> QED BY <1>2, <1>3, <1>4 DEF IInv

LEMMA BindingExpiresKeeps ==
  ASSUME IInv, NEW g \in Generation, BindingExpires(g)
  PROVE  IInv'
PROOF
  <1> USE DEF delivery, binding, handler, history
  <1>1. \A m, k : AttentionCount(m, k)' = AttentionCount(m, k)
    BY SameCount DEF BindingExpires
  <1>2. TypeOK' /\ AttentionSound'
    BY DEF IInv, TypeOK, AttentionSound, BindingExpires
  <1>3. Places' /\ Counts'
    BY <1>1 DEF IInv, Places, Counts, BindingExpires
  <1>4. Generations'
    BY DEF IInv, Generations, BindDurable, BindingExpires
  <1> QED BY <1>2, <1>3, <1>4 DEF IInv

LEMMA CrashKeeps ==
  ASSUME IInv, Crash
  PROVE  IInv'
PROOF
  <1> USE DEF delivery, binding, handler, history
  <1>1. \A m, g : AttentionCount(m, g)' = AttentionCount(m, g)
    BY SameCount DEF Crash
  <1>2. TypeOK' /\ AttentionSound'
    BY BoundAssumption DEF IInv, TypeOK, AttentionSound, OptionalGeneration, Crash
  <1>3. Places' /\ Counts'
    BY <1>1 DEF IInv, Places, Counts, Crash
  <1>4. Generations'
    BY BoundAssumption DEF IInv, TypeOK, OptionalGeneration, Generations, BindDurable, Crash
  <1> QED BY <1>2, <1>3, <1>4 DEF IInv

LEMMA RestartKeeps ==
  ASSUME IInv, Restart
  PROVE  IInv'
PROOF
  <1> USE DEF delivery, binding, handler, history
  <1>1. \A m, g : AttentionCount(m, g)' = AttentionCount(m, g)
    BY SameCount DEF Restart
  <1>2. /\ route' \in {0, route} /\ reg' = route'
        /\ route \in Nat /\ replied \in Nat /\ 0 \in OptionalGeneration
    BY BoundAssumption DEF IInv, TypeOK, OptionalGeneration, Restart
  <1>3. TypeOK' /\ AttentionSound'
    BY <1>2 DEF IInv, TypeOK, AttentionSound, Recovering, Restart
  <1>4. Places' /\ Counts'
    BY <1>1, <1>2 DEF IInv, Places, Counts, Restart
  <1>5. Generations'
    BY <1>2, BoundAssumption
       DEF IInv, TypeOK, OptionalGeneration, Generations, BindDurable, Restart
  <1> QED BY <1>3, <1>4, <1>5 DEF IInv

-----------------------------------------------------------------------------
(* The attention entry and its audit line.                                 *)

LEMMA DrainKeeps ==
  ASSUME IInv, NEW ids, NEW next, Drain(ids, next)
  PROVE  /\ audit' \in [Message -> Nat] /\ intents' \subseteq intents
         /\ \A m \in Message : audit'[m] <= 1
         /\ \A m \in attended \ intents' : audit'[m] = 1
         /\ \/ pc' = pc
            \/ pc' = next /\ intents' = intents \ ids
         /\ cur' = cur /\ todo' = todo
PROOF
  <1>1. CASE \E m \in ids \cap intents : audit[m] = 0
    <2>1. PICK m \in ids \cap intents : /\ audit[m] = 0
                                        /\ audit' = [audit EXCEPT ![m] = @ + 1]
      BY <1>1 DEF Drain
    <2>2. /\ m \in Message /\ audit \in [Message -> Nat]
          /\ intents' = intents /\ pc' = pc /\ cur' = cur /\ todo' = todo
      BY <1>1 DEF Drain, IInv, TypeOK
    <2> QED BY <2>1, <2>2 DEF IInv, TypeOK, AttentionSound
  <1>2. CASE ~\E m \in ids \cap intents : audit[m] = 0
    BY <1>2 DEF Drain, IInv, TypeOK, AttentionSound
  <1> QED BY <1>1, <1>2

LEMMA DrainingKeeps ==
  ASSUME IInv, TransitionDrain \/ AttentionAudit \/ RecoverAudit
  PROVE  IInv'
PROOF
  <1> USE DEF delivery, binding, handler, history
  <1>1. \A m, g : AttentionCount(m, g)' = AttentionCount(m, g)
    BY SameCount DEF TransitionDrain, AttentionAudit, RecoverAudit
  <1>2. PICK ids, next :
          /\ Drain(ids, next)
          /\ \/ pc = "drain" /\ next = "commit"
             \/ pc = "attention_audit" /\ next = "attention_record" /\ ids = {cur}
             \/ pc = "recover_audit" /\ next = "recover_acks"
    BY DEF TransitionDrain, AttentionAudit, RecoverAudit
  <1>3. /\ audit' \in [Message -> Nat] /\ intents' \subseteq intents
        /\ \A m \in Message : audit'[m] <= 1
        /\ \A m \in attended \ intents' : audit'[m] = 1
        /\ \/ pc' = pc
           \/ pc' = next /\ intents' = intents \ ids
        /\ cur' = cur /\ todo' = todo
    BY <1>2, DrainKeeps
  <1>4. UNCHANGED <<record, attended, answered, binding, waiters, faults, history>>
    BY DEF TransitionDrain, AttentionAudit, RecoverAudit
  <1>5. TypeOK'
    BY <1>2, <1>3, <1>4 DEF IInv, TypeOK, Recovering
  <1>6. Places'
    BY <1>1, <1>2, <1>3, <1>4 DEF IInv, Places
  <1>7. Counts' /\ Generations'
    BY <1>1, <1>4 DEF IInv, Counts, Generations, BindDurable
  <1>8. AttentionSound'
    BY <1>3, <1>4 DEF IInv, AttentionSound
  <1> QED BY <1>5, <1>6, <1>7, <1>8 DEF IInv

LEMMA PollEscalateKeeps ==
  ASSUME IInv, NEW m \in Message, PollEscalate(m)
  PROVE  IInv'
PROOF
  <1> USE DEF delivery, binding, handler, history
  <1>1. \A x, g : AttentionCount(x, g)' = AttentionCount(x, g)
    BY SameCount DEF PollEscalate
  <1>2. reg # 0 /\ cur' = m
    BY DEF IInv, Places, PollEscalate, Polling, Bound
  <1>3. record[m].wake_attempts = MaxWakes
    BY BoundAssumption DEF IInv, TypeOK, Record, PollEscalate
  <1>4. TypeOK'
    BY DEF IInv, TypeOK, PollEscalate
  <1>5. AttentionSound'
    BY <1>3 DEF IInv, AttentionSound, Counts, TypeOK, PollEscalate
  <1>6. Places'
    BY <1>1, <1>2 DEF IInv, Places, AttentionSound, PollEscalate
  <1>7. Counts' /\ Generations'
    BY <1>1 DEF IInv, Counts, Generations, BindDurable, PollEscalate
  <1> QED BY <1>4, <1>5, <1>6, <1>7 DEF IInv

LEMMA AttentionRecordKeeps ==
  ASSUME IInv, AttentionRecord
  PROVE  IInv'
PROOF
  <1> USE DEF delivery, binding, handler, history
  <1>1. \A x, g : AttentionCount(x, g)' = AttentionCount(x, g)
    BY SameCount DEF AttentionRecord
  <1>2. /\ pc = "attention_record" /\ cur \in attended \ intents
        /\ cur \in Message /\ reg # 0
    BY DEF IInv, TypeOK, Places, AttentionRecord
  <1>3. \A x \in Message :
          /\ record'[x] \in Record
          /\ record'[x].wake_attempts = record[x].wake_attempts
          /\ record'[x].attention_attempts = record[x].attention_attempts
          /\ x # cur => record'[x] = record[x]
    <2> DEFINE s == [record[cur] EXCEPT !.wake_status = "needs_attention", !.wake_timer = FALSE]
    <2>1. record[cur] \in Record
      BY <1>2 DEF IInv, TypeOK
    <2>2. /\ s \in Record /\ s.wake_attempts = record[cur].wake_attempts
          /\ s.attention_attempts = record[cur].attention_attempts
      BY <2>1 DEF Record, WakeStatus
    <2>3. record' = [record EXCEPT ![cur] = s]
      BY DEF AttentionRecord, Write
    <2> HIDE DEF s
    <2> QED BY <1>2, <2>2, <2>3, Written DEF IInv, TypeOK
  <1>4. TypeOK'
    <2>1. record' \in [Message -> Record]
      BY <1>3 DEF IInv, TypeOK, AttentionRecord, Write
    <2> QED BY <2>1 DEF IInv, TypeOK, AttentionRecord
  <1>5. AttentionSound'
    BY <1>2, <1>3 DEF IInv, AttentionSound, AttentionRecord
  <1>6. Places'
    BY <1>1, <1>2 DEF IInv, Places, AttentionRecord
  <1>7. Counts' /\ Generations'
    BY <1>1, <1>3 DEF IInv, Counts, Generations, BindDurable, AttentionRecord
  <1> QED BY <1>4, <1>5, <1>6, <1>7 DEF IInv

-----------------------------------------------------------------------------
(* The leases of the router.                                               *)

LEMMA PollWakeKeeps ==
  ASSUME IInv, NEW m \in Message, PollWake(m)
  PROVE  IInv'
PROOF
  <1> USE DEF delivery, binding, handler, history
  <1>1. \A x, g : AttentionCount(x, g)' = AttentionCount(x, g)
    BY SameCount DEF PollWake
  <1>2. reg \in Generation
    <2>1. reg # 0 /\ reg \in OptionalGeneration
      BY DEF IInv, TypeOK, Places, PollWake, Polling, Bound
    <2> QED BY <2>1, BoundAssumption DEF OptionalGeneration, Generation
  <1>3. /\ wakeLog' = [wakeLog EXCEPT ![m] = Append(wakeLog[m], reg)]
        /\ wakeLog' \in [Message -> Seq(Generation)]
        /\ Len(wakeLog'[m]) = record[m].wake_attempts + 1
        /\ \A x \in Message \ {m} : wakeLog'[x] = wakeLog[x]
    BY <1>2 DEF IInv, TypeOK, Counts, PollWake
  <1>4. record[m].wake_attempts + 1 \in 0..MaxWakes
    BY BoundAssumption DEF IInv, TypeOK, Record, PollWake
  <1>5. /\ record' \in [Message -> Record]
        /\ record'[m].wake_attempts = record[m].wake_attempts + 1
        /\ record'[m].wake_status = "leased"
        /\ \A x \in Message \ {m} : record'[x] = record[x]
        /\ \A x \in Message : record'[x].attention_attempts = record[x].attention_attempts
    <2> DEFINE n == Len(wakeLog'[m])
               k == record[m].wake_attempts + 1
    <2>1. n \in Nat /\ k \in 0..MaxWakes /\ reg \in OptionalGeneration
      BY <1>3, <1>4 DEF IInv, TypeOK
    <2> DEFINE s == [record[m] EXCEPT !.wake_status = "leased", !.wake_timer = TRUE,
                                      !.wake_attempts = k, !.wake_notification_id = n,
                                      !.wake_binding_generation = reg]
    <2>2. record' = [record EXCEPT ![m] = s]
      BY DEF PollWake, Write
    <2>5. s = [record[m] EXCEPT !.wake_status = "leased", !.wake_timer = TRUE,
                                !.wake_attempts = k, !.wake_notification_id = n,
                                !.wake_binding_generation = reg]
      OBVIOUS
    <2> HIDE DEF n, k, s
    <2>4. /\ s \in Record /\ s.wake_attempts = k /\ s.wake_status = "leased"
          /\ s.attention_attempts = record[m].attention_attempts
      <3>1. record[m] \in Record
        BY DEF IInv, TypeOK
      <3> QED BY <2>1, <2>5, <3>1 DEF Record, WakeStatus
    <2>3. /\ record' \in [Message -> Record]
          /\ record'[m].wake_attempts = k
          /\ record'[m].wake_status = "leased"
          /\ \A x \in Message \ {m} : record'[x] = record[x]
          /\ \A x \in Message : record'[x].attention_attempts = record[x].attention_attempts
      BY <2>2, <2>4, Written DEF IInv
    <2> QED BY <2>3 DEF k
  <1>6. TypeOK'
    BY <1>3, <1>5 DEF IInv, TypeOK, PollWake, Done
  <1>7. AttentionSound'
    <2>1. m \notin attended
      BY <1>4, BoundAssumption DEF IInv, TypeOK, Record, Counts, AttentionSound
    <2> QED BY <1>3, <1>5, <2>1 DEF IInv, AttentionSound, PollWake
  <1>8. Places'
    BY DEF Places, PollWake, Done
  <1>9. Counts' /\ Generations'
    BY <1>1, <1>3, <1>5 DEF IInv, Counts, Generations, BindDurable, PollWake
  <1> QED BY <1>6, <1>7, <1>8, <1>9 DEF IInv

LEMMA AttentionLeaseKeeps ==
  ASSUME IInv, AttentionLease
  PROVE  IInv'
PROOF
  <1> USE DEF delivery, binding, handler, history
  <1>0. /\ pc = "attention_lease" /\ cur \in attended \ intents
        /\ cur \in Message /\ reg # 0 /\ reg \in Generation
    <2>1. /\ pc = "attention_lease" /\ cur \in attended \ intents
          /\ cur \in Message /\ reg # 0 /\ reg \in OptionalGeneration
      BY DEF IInv, TypeOK, Places, AttentionLease
    <2> QED BY <2>1, BoundAssumption DEF OptionalGeneration, Generation
  <1>a. Places'
    BY DEF Places, AttentionLease, Done
  <1>1. CASE ~DueForAttention(record[cur])
    <2>1. \A x, g : AttentionCount(x, g)' = AttentionCount(x, g)
      BY <1>1, SameCount DEF AttentionLease
    <2>2. TypeOK' /\ AttentionSound'
      BY <1>1 DEF IInv, TypeOK, AttentionSound, AttentionLease, Done
    <2>3. Counts' /\ Generations'
      BY <1>1, <2>1 DEF IInv, Counts, Generations, BindDurable, AttentionLease
    <2> QED BY <1>a, <2>2, <2>3 DEF IInv
  <1>2. CASE DueForAttention(record[cur])
    <2> DEFINE n == Len(attentionLog'[cur])
               k == record[cur].attention_attempts + 1
    <2>1. /\ attentionLog' = [attentionLog EXCEPT ![cur] = Append(attentionLog[cur], reg)]
          /\ attentionLog' \in [Message -> Seq(Generation)]
          /\ attentionLog'[cur] = Append(attentionLog[cur], reg)
          /\ \A x \in Message \ {cur} : attentionLog'[x] = attentionLog[x]
      <3>1. attentionLog' = [attentionLog EXCEPT ![cur] = Append(attentionLog[cur], reg)]
        BY <1>2 DEF AttentionLease
      <3>2. attentionLog \in [Message -> Seq(Generation)]
        BY DEF IInv, TypeOK
      <3> QED BY <1>0, <3>1, <3>2
    <2>2. k \in 0..MaxWakes /\ n \in Nat /\ reg \in OptionalGeneration
      BY <1>0, <1>2, <2>1, BoundAssumption
         DEF IInv, TypeOK, Record, DueForAttention
    <2> DEFINE s == [record[cur] EXCEPT !.attention_timer = TRUE, !.attention_attempts = k,
                                        !.attention_notification_id = n,
                                        !.attention_binding_generation = reg]
    <2>3. record' = [record EXCEPT ![cur] = s]
      BY <1>2 DEF AttentionLease, Write
    <2>b. s = [record[cur] EXCEPT !.attention_timer = TRUE, !.attention_attempts = k,
                                  !.attention_notification_id = n,
                                  !.attention_binding_generation = reg]
      OBVIOUS
    <2> HIDE DEF n, k, s
    <2>a. /\ s \in Record /\ s.wake_attempts = record[cur].wake_attempts
          /\ s.wake_status = record[cur].wake_status /\ s.attention_attempts = k
      <3>1. record[cur] \in Record
        BY <1>0 DEF IInv, TypeOK
      <3> QED BY <2>2, <2>b, <3>1 DEF Record
    <2>4. /\ record' \in [Message -> Record]
          /\ record'[cur].attention_attempts = k
          /\ \A x \in Message \ {cur} : record'[x] = record[x]
          /\ \A x \in Message : /\ record'[x].wake_attempts = record[x].wake_attempts
                                /\ record'[x].wake_status = record[x].wake_status
      BY <1>0, <2>3, <2>a, Written DEF IInv
    <2>5. TypeOK'
      BY <2>1, <2>4 DEF IInv, TypeOK, AttentionLease, Done
    <2>6. AttentionSound'
      BY <1>0, <2>1, <2>4 DEF IInv, AttentionSound, AttentionLease
    <2>7. ASSUME NEW x \in Message, x = cur, NEW g
          PROVE  /\ AttentionCount(x, g) \in Nat
                 /\ AttentionCount(x, g)' = IF reg = g THEN AttentionCount(x, g) + 1
                                            ELSE AttentionCount(x, g)
      <3>1. attentionLog[x] \in Seq(Generation) /\ attentionLog'[x] = Append(attentionLog[x], reg)
        BY <2>1, <2>7 DEF IInv, TypeOK
      <3> QED BY <1>0, <3>1, CountAppend DEF AttentionCount
    <2>8. ASSUME NEW x \in Message, x # cur, NEW g
          PROVE  AttentionCount(x, g)' = AttentionCount(x, g)
      BY <2>1, <2>8 DEF AttentionCount
    <2>9. Counts'
      <3>1. /\ wakeLog' = wakeLog /\ bindings' = bindings /\ reg' = reg /\ route' = route
            /\ reg \in Nat /\ route \in Nat /\ bindings \in Nat /\ reg <= bindings
        BY BoundAssumption DEF AttentionLease, IInv, TypeOK, OptionalGeneration, Generations
      <3>2. ASSUME NEW x \in Message
            PROVE  /\ Len(wakeLog'[x]) = record'[x].wake_attempts
                   /\ \A i \in DOMAIN attentionLog'[x] : attentionLog'[x][i] <= bindings'
        <4>1. \A i \in DOMAIN attentionLog[x] : attentionLog[x][i] <= bindings
          BY DEF IInv, Counts
        <4>2. attentionLog[x] \in Seq(Generation)
          BY DEF IInv, TypeOK
        <4>3. \A i \in DOMAIN attentionLog'[x] : attentionLog'[x][i] <= bindings
          BY <1>0, <2>1, <3>1, <4>1, <4>2
        <4> QED BY <2>4, <3>1, <4>3 DEF IInv, Counts
      <3>3. ASSUME NEW x \in Message, NEW g \in {reg, route} \ {0}
            PROVE  AttentionCount(x, g)' <= record'[x].attention_attempts
        <4>1. /\ AttentionCount(x, g) <= record[x].attention_attempts
              /\ record[x].attention_attempts \in Nat
          BY BoundAssumption DEF IInv, Counts, TypeOK, Record
        <4>2. CASE x = cur
          BY <2>4, <2>7, <4>1, <4>2 DEF k
        <4>3. CASE x # cur
          BY <2>4, <2>8, <4>1, <4>3
        <4> QED BY <4>2, <4>3
      <3>4. ASSUME NEW x \in Message, NEW g \in Generation
            PROVE  AttentionCount(x, g)' <= MaxWakes
        <4>1. AttentionCount(x, g) <= MaxWakes
          BY DEF IInv, Counts
        <4>2. CASE x = cur /\ g = reg
          <5>1. AttentionCount(x, g)' <= k
            BY <1>0, <2>4, <3>3, <4>2
          <5> QED BY <2>2, <2>7, <4>2, <5>1, BoundAssumption
        <4>3. CASE ~(x = cur /\ g = reg)
          BY <2>7, <2>8, <4>1, <4>3
        <4> QED BY <4>2, <4>3
      <3> QED BY <3>1, <3>2, <3>3, <3>4 DEF Counts
    <2>10. Generations'
      BY DEF IInv, Generations, BindDurable, AttentionLease
    <2> QED BY <1>a, <2>5, <2>6, <2>9, <2>10 DEF IInv
  <1> QED BY <1>1, <1>2

-----------------------------------------------------------------------------
(* The invariant.                                                          *)

LEMMA InitInvariant == Init => IInv
PROOF
  <1> SUFFICES ASSUME Init PROVE IInv
    OBVIOUS
  <1>1. /\ 0 \in OptionalGeneration /\ 0 \in 0..MaxWakes /\ 0 \in 0..MaxFaults
        /\ MaxWakes \in Nat
    BY BoundAssumption DEF OptionalGeneration
  <1>2. FreshRecord \in Record
    BY <1>1 DEF FreshRecord, Record, Status, WakeStatus
  <1>3. <<>> \in Seq(Generation) /\ Len(<<>>) = 0 /\ DOMAIN <<>> = {}
    OBVIOUS
  <1>4. \A m \in Message : /\ record[m] = FreshRecord /\ audit[m] = 0
                           /\ wakeLog[m] = <<>> /\ attentionLog[m] = <<>>
    BY DEF Init
  <1>5. \A m \in Message, g \in Generation : AttentionCount(m, g) = 0
    BY <1>3, <1>4, CountNone
  <1>6. TypeOK
    BY <1>1, <1>2, <1>3 DEF Init, TypeOK
  <1>7. Places
    BY DEF Init, Places
  <1>8. Counts
    BY <1>1, <1>3, <1>4, <1>5 DEF Init, Counts, FreshRecord
  <1>9. AttentionSound
    BY <1>4 DEF Init, AttentionSound, FreshRecord
  <1>10. Generations
    BY DEF Init, Generations, BindDurable
  <1> QED BY <1>6, <1>7, <1>8, <1>9, <1>10 DEF IInv

LEMMA StutterInvariant ==
  ASSUME IInv, UNCHANGED vars
  PROVE  IInv'
PROOF
  <1> USE DEF vars, delivery, binding, handler, history
  <1>1. \A m, g : AttentionCount(m, g)' = AttentionCount(m, g)
    BY SameCount
  <1>2. TypeOK' /\ AttentionSound'
    BY DEF IInv, TypeOK, AttentionSound
  <1>3. Places' /\ Counts' /\ Generations'
    BY <1>1 DEF IInv, Places, Counts, Generations, BindDurable
  <1> QED BY <1>2, <1>3 DEF IInv

LEMMA NextInvariant == IInv /\ [Next]_vars => IInv'
PROOF
  <1> SUFFICES ASSUME IInv, [Next]_vars PROVE IInv'
    OBVIOUS
  <1>1. CASE RecordAction
    BY <1>1, RecordActionsAre, RecordStepsKeep DEF IInv
  <1>2. CASE Calls
    BY <1>1, <1>2, BindKeeps, BindAgainKeeps, UnbindKeeps DEF Calls, RecordAction
  <1>3. CASE Continue
    BY <1>1, <1>3, BindPersistKeeps, BindRearmKeeps, BindReplyKeeps, UnbindKeeps, DrainingKeeps,
       AttentionRecordKeeps, AttentionLeaseKeeps DEF Continue, RecordAction
  <1>4. CASE \E m \in Message : Poll(m)
    BY <1>1, <1>4, PollWakeKeeps, PollEscalateKeeps DEF Poll, RecordAction
  <1>5. CASE Timers
    BY <1>1, <1>5, BindingExpiresKeeps DEF Timers, RecordAction
  <1>6. CASE Fail
    BY <1>1, <1>6 DEF RecordAction
  <1>7. CASE Crash \/ Restart
    BY <1>7, CrashKeeps, RestartKeeps
  <1>8. CASE UNCHANGED vars
    BY <1>8, StutterInvariant
  <1> QED BY <1>2, <1>3, <1>4, <1>5, <1>6, <1>7, <1>8 DEF Next

\* Everything known of the states of the specification.
THEOREM WakesInvariant == Spec => []IInv
PROOF BY InitInvariant, NextInvariant, PTL DEF Spec

\* The variables stay well formed.
THEOREM WakesTypeCorrect == Spec => []TypeOK
PROOF
  <1>1. IInv => TypeOK
    BY DEF IInv
  <1> QED BY <1>1, WakesInvariant, PTL

\* No message is ever the cause of more wakes, or of more attention notices to
\* one binding, than allowed (pending_wakes).
THEOREM WakesAlwaysBounded == Spec => []WakesBounded
PROOF
  <1>1. IInv => WakesBounded
    BY BoundAssumption DEF IInv, TypeOK, Record, Counts, WakesBounded
  <1> QED BY <1>1, WakesInvariant, PTL

\* An attention entry is durable and logged once before anything follows from
\* it (_record_needs_attention).
THEOREM AttentionAlwaysSound == Spec => []AttentionSound
PROOF
  <1>1. IInv => AttentionSound
    BY DEF IInv
  <1> QED BY <1>1, WakesInvariant, PTL

\* An answered bind survives crashes at any point of any handler (bind,
\* _restore_registrations).
THEOREM BindAlwaysDurable == Spec => []BindDurable
PROOF
  <1>1. IInv => BindDurable
    BY DEF IInv, Generations
  <1> QED BY <1>1, WakesInvariant, PTL

-----------------------------------------------------------------------------
(* Claims and leases of one message.                                       *)

\* Somebody has the record while a claim of it runs, a consumed wake is that of a record
\* that was claimed, and a wake names the generation it was last leased to.
ClaimSound(m) ==
  LET r == record[m] IN
  /\ r.claim # "none" => r.status = "claimed"
  /\ r.wake_status = "consumed" => r.status \notin {"staged", "pending"}
  /\ r.wake_binding_generation # 0 =>
       wakeLog[m] # <<>> /\ wakeLog[m][Len(wakeLog[m])] = r.wake_binding_generation

\* What is escalated nobody has claimed.
EscalationSound ==
  /\ pc \in {"attention_audit", "attention_record", "attention_lease"} =>
       record[cur].claim # "live"
  /\ pc \in {"attention_audit", "attention_record"} => record[cur].wake_status # "consumed"

ClaimsSound == EscalationSound /\ \A m \in Message : ClaimSound(m)

WakeKept(r, s) == /\ s.wake_status = r.wake_status
                  /\ s.wake_binding_generation = r.wake_binding_generation

ClaimKept(r, s) == s.status = r.status /\ s.claim = r.claim

\* What a step that neither claims nor leases does to a record.
Moved(m, r, s) ==
  \/ ClaimKept(r, s) /\ WakeKept(r, s)
  \/ s.status = r.status /\ r.claim = "live" /\ s.claim = "expired" /\ WakeKept(r, s)
  \/ s.status \in {"acknowledged", "superseded"} /\ s.claim = "none" /\ WakeKept(r, s)
  \/ r.status = "staged" /\ s.status = "pending" /\ s.claim = r.claim /\ WakeKept(r, s)
  \/ /\ HolderGone(r) /\ s.status = "pending" /\ s.claim = "none"
     /\ s.wake_status = "retry_pending"
     /\ s.wake_binding_generation = r.wake_binding_generation
  \/ /\ ClaimKept(r, s) /\ s.wake_binding_generation \in {0, r.wake_binding_generation}
     /\ \/ s.wake_status = r.wake_status
        \/ r.wake_status \in {"leased", "notified"} /\ s.wake_status = "retry_pending"
  \/ /\ pc = "attention_record" /\ cur = m
     /\ ClaimKept(r, s) /\ s.wake_status = "needs_attention"
     /\ s.wake_binding_generation = r.wake_binding_generation
  \/ /\ r.wake_status = "leased" /\ r.wake_binding_generation = reg /\ reg # 0
     /\ ClaimKept(r, s) /\ s.wake_status \in {"notified", "retry_pending"}
     /\ s.wake_binding_generation = r.wake_binding_generation

ClaimedBy(m, r, s) ==
  /\ Claimable(r) /\ s.status = "claimed" /\ s.claim = "live" /\ s.wake_status = "consumed"
  /\ s.wake_binding_generation = r.wake_binding_generation
  /\ holder'[m] = reg

LeasedTo(m, r, s) ==
  /\ Claimable(r) /\ ~HolderGone(r) /\ r.wake_attempts < MaxWakes
  /\ ClaimKept(r, s) /\ s.wake_status = "leased"
  /\ s.wake_binding_generation = reg /\ reg \in Generation
  /\ wakeLog'[m] = Append(wakeLog[m], reg)

\* Everything a step may do to a message.
Moves(m) ==
  LET r == record[m]
      s == record'[m]
  IN  \/ ClaimedBy(m, r, s) /\ wakeLog'[m] = wakeLog[m] /\ attentionLog'[m] = attentionLog[m]
      \/ LeasedTo(m, r, s) /\ holder'[m] = holder[m] /\ attentionLog'[m] = attentionLog[m]
      \/ /\ pc = "attention_lease" /\ cur = m /\ ClaimKept(r, s) /\ WakeKept(r, s)
         /\ holder'[m] = holder[m] /\ wakeLog'[m] = wakeLog[m]
      \/ /\ Moved(m, r, s)
         /\ holder'[m] = holder[m] /\ wakeLog'[m] = wakeLog[m]
         /\ attentionLog'[m] = attentionLog[m]

LogsStay == UNCHANGED <<holder, wakeLog, attentionLog>>

LEMMA StayMoves ==
  ASSUME record' = record, LogsStay, NEW x \in Message
  PROVE  Moves(x)
PROOF BY DEF LogsStay, Moves, Moved, ClaimKept, WakeKept

LEMMA WriteMoves ==
  ASSUME TypeOK, NEW m \in Message, NEW s, Write(m, s), Moved(m, record[m], s), LogsStay,
         NEW x \in Message
  PROVE  Moves(x)
PROOF
  <1>1. record'[m] = s /\ \A y \in Message \ {m} : record'[y] = record[y]
    BY DEF Write, TypeOK
  <1>2. CASE x = m
    BY <1>1, <1>2 DEF LogsStay, Moves
  <1>3. CASE x # m
    BY <1>1, <1>3 DEF LogsStay, Moves, Moved, ClaimKept, WakeKept
  <1> QED BY <1>2, <1>3

\* The updates that end a claim or a wait for one.
LEMMA EndingsMove ==
  ASSUME NEW m \in Message, NEW r \in Record
  PROVE  /\ Moved(m, r, Acknowledged(r)) /\ Moved(m, r, Superseded(r))
         /\ HolderGone(r) => Moved(m, r, Returned(r))
         /\ r.status = "staged" => Moved(m, r, [r EXCEPT !.status = "pending"])
PROOF
  <1>1. Moved(m, r, Acknowledged(r)) /\ Moved(m, r, Superseded(r))
    BY DEF Moved, WakeKept, Acknowledged, Superseded, Record
  <1>2. HolderGone(r) => Moved(m, r, Returned(r))
    BY DEF Moved, Returned, Record
  <1>3. r.status = "staged" => Moved(m, r, [r EXCEPT !.status = "pending"])
    BY DEF Moved, WakeKept, Record
  <1> QED BY <1>1, <1>2, <1>3

LEMMA TimersMove ==
  ASSUME NEW m \in Message, NEW r \in Record
  PROVE  /\ r.claim = "live" => Moved(m, r, [r EXCEPT !.claim = "expired"])
         /\ Moved(m, r, [r EXCEPT !.wake_timer = FALSE])
         /\ Moved(m, r, [r EXCEPT !.attention_timer = FALSE])
PROOF
  <1>1. r.claim = "live" => Moved(m, r, [r EXCEPT !.claim = "expired"])
    BY DEF Moved, WakeKept, Record
  <1>2. /\ Moved(m, r, [r EXCEPT !.wake_timer = FALSE])
        /\ Moved(m, r, [r EXCEPT !.attention_timer = FALSE])
    BY DEF Moved, ClaimKept, WakeKept, Record
  <1> QED BY <1>1, <1>2

LEMMA ReportsMove ==
  ASSUME NEW m \in Message, NEW r \in Record, NEW d \in BOOLEAN
  PROVE  /\ Moved(m, r, [r EXCEPT !.attention_timer = FALSE,
                                  !.attention_notified = IF d THEN TRUE ELSE @])
         /\ r.wake_status = "leased" /\ r.wake_binding_generation = reg /\ reg # 0 =>
              Moved(m, r, [r EXCEPT !.wake_status = IF d THEN "notified" ELSE "retry_pending",
                                    !.wake_timer = d])
PROOF
  <1>1. Moved(m, r, [r EXCEPT !.attention_timer = FALSE,
                              !.attention_notified = IF d THEN TRUE ELSE @])
    BY DEF Moved, ClaimKept, WakeKept, Record
  <1>2. r.wake_status = "leased" /\ r.wake_binding_generation = reg /\ reg # 0 =>
          Moved(m, r, [r EXCEPT !.wake_status = IF d THEN "notified" ELSE "retry_pending",
                                !.wake_timer = d])
    BY DEF Moved, ClaimKept, Record
  <1> QED BY <1>1, <1>2

LEMMA RearmedMoves ==
  ASSUME NEW m \in Message, NEW r \in Record, NEW g
  PROVE  Moved(m, r, Rearmed(r, g))
PROOF
  <1> DEFINE w == IF r.wake_binding_generation \in {0, g} THEN r
                  ELSE [r EXCEPT !.wake_status = IF @ \in {"leased", "notified"}
                                                 THEN "retry_pending" ELSE @,
                                 !.wake_timer = FALSE,
                                 !.wake_notification_id = 0, !.wake_binding_generation = 0]
             z == IF r.attention_binding_generation \in {0, g} THEN w
                  ELSE [w EXCEPT !.attention_timer = FALSE, !.attention_attempts = 0,
                                 !.attention_notified = FALSE,
                                 !.attention_notification_id = 0,
                                 !.attention_binding_generation = 0]
  <1>0. 0 \in OptionalGeneration /\ 0 \in Nat
    BY BoundAssumption DEF OptionalGeneration
  <1>1. /\ w \in Record
        /\ w.status = r.status /\ w.claim = r.claim
        /\ w.wake_binding_generation \in {0, r.wake_binding_generation}
        /\ \/ w.wake_status = r.wake_status
           \/ r.wake_status \in {"leased", "notified"} /\ w.wake_status = "retry_pending"
    BY <1>0 DEF Record, WakeStatus
  <1> HIDE DEF w
  <1>2. /\ z.status = r.status /\ z.claim = r.claim
        /\ z.wake_binding_generation = w.wake_binding_generation
        /\ z.wake_status = w.wake_status
    BY <1>1 DEF Record
  <1>3. Rearmed(r, g) = z
    BY DEF Rearmed, w
  <1> HIDE DEF z
  <1> QED BY <1>1, <1>2, <1>3 DEF Moved, ClaimKept

LEMMA ClaimMoves ==
  ASSUME TypeOK, ClaimFor(reg), UNCHANGED <<wakeLog, attentionLog>>, NEW x \in Message
  PROVE  Moves(x)
PROOF
  <1>1. PICK m \in Message : /\ Claimable(record[m]) /\ Write(m, Claimed(record[m]))
                             /\ holder' = [holder EXCEPT ![m] = reg]
    BY DEF ClaimFor
  <1>2. /\ record'[m] = Claimed(record[m]) /\ holder'[m] = reg
        /\ \A y \in Message \ {m} : record'[y] = record[y] /\ holder'[y] = holder[y]
    BY <1>1 DEF Write, TypeOK
  <1>3. CASE x = m
    <2>1. record[m] \in Record
      BY DEF TypeOK
    <2>2. ClaimedBy(m, record[m], Claimed(record[m]))
      BY <1>1, <1>2, <2>1 DEF ClaimedBy, Claimed, Record
    <2> QED BY <1>2, <1>3, <2>2 DEF Moves
  <1>4. CASE x # m
    BY <1>2, <1>4 DEF Moves, Moved, ClaimKept, WakeKept
  <1> QED BY <1>3, <1>4

LEMMA ReconcileMoves ==
  ASSUME TypeOK, NEW next, Reconcile(next), LogsStay, NEW x \in Message
  PROVE  Moves(x)
PROOF
  <1>1. CASE \E m \in Message : CanRecoverAck(m)
    <2>1. PICK m \in Message : Write(m, Acknowledged(record[m]))
      BY <1>1 DEF Reconcile
    <2>2. Moved(m, record[m], Acknowledged(record[m]))
      BY EndingsMove DEF TypeOK
    <2> QED BY <2>1, <2>2, WriteMoves
  <1>2. CASE record' = record
    BY <1>2, StayMoves
  <1> QED BY <1>1, <1>2 DEF Reconcile

LEMMA PollWakeMoves ==
  ASSUME IInv, NEW m \in Message, PollWake(m), NEW x \in Message
  PROVE  Moves(x)
PROOF
  <1> DEFINE n == Len(wakeLog'[m])
             k == record[m].wake_attempts + 1
             s == [record[m] EXCEPT !.wake_status = "leased", !.wake_timer = TRUE,
                                    !.wake_attempts = k, !.wake_notification_id = n,
                                    !.wake_binding_generation = reg]
  <1>1. /\ ~HolderGone(record[m]) /\ Claimable(record[m])
        /\ record[m].wake_attempts < MaxWakes
        /\ wakeLog' = [wakeLog EXCEPT ![m] = Append(wakeLog[m], reg)]
        /\ record' = [record EXCEPT ![m] = s]
        /\ UNCHANGED <<holder, attentionLog>>
    BY DEF PollWake, DueForWake, Write
  <1>2. reg \in Generation
    <2>1. reg # 0 /\ reg \in OptionalGeneration
      BY DEF IInv, TypeOK, Places, PollWake, Polling, Bound
    <2> QED BY <2>1, BoundAssumption DEF OptionalGeneration, Generation
  <1>3. /\ record[m] \in Record /\ record \in [Message -> Record]
        /\ wakeLog \in [Message -> Seq(Generation)]
    BY DEF IInv, TypeOK
  <1>4. s = [record[m] EXCEPT !.wake_status = "leased", !.wake_timer = TRUE,
                              !.wake_attempts = k, !.wake_notification_id = n,
                              !.wake_binding_generation = reg]
    OBVIOUS
  <1> HIDE DEF n, k, s
  <1>5. /\ ClaimKept(record[m], s) /\ s.wake_status = "leased"
        /\ s.wake_binding_generation = reg
    BY <1>3, <1>4 DEF ClaimKept, Record
  <1>6. /\ record'[m] = s /\ wakeLog'[m] = Append(wakeLog[m], reg)
        /\ \A y \in Message \ {m} : record'[y] = record[y] /\ wakeLog'[y] = wakeLog[y]
    BY <1>1, <1>3
  <1>7. CASE x = m
    BY <1>1, <1>2, <1>5, <1>6, <1>7 DEF Moves, LeasedTo
  <1>8. CASE x # m
    BY <1>1, <1>6, <1>8 DEF Moves, Moved, ClaimKept, WakeKept
  <1> QED BY <1>7, <1>8

LEMMA AttentionRecordMoves ==
  ASSUME IInv, AttentionRecord, NEW x \in Message
  PROVE  Moves(x)
PROOF
  <1>1. /\ pc = "attention_record" /\ cur \in Message /\ LogsStay
        /\ Write(cur, [record[cur] EXCEPT !.wake_status = "needs_attention",
                                          !.wake_timer = FALSE])
    BY DEF AttentionRecord, IInv, Places, TypeOK, LogsStay, history
  <1>2. Moved(cur, record[cur], [record[cur] EXCEPT !.wake_status = "needs_attention",
                                                    !.wake_timer = FALSE])
    <2>1. record[cur] \in Record
      BY <1>1 DEF IInv, TypeOK
    <2> QED BY <1>1, <2>1 DEF Moved, ClaimKept, Record
  <1> QED BY <1>1, <1>2, WriteMoves DEF IInv

LEMMA AttentionLeaseMoves ==
  ASSUME IInv, AttentionLease, NEW x \in Message
  PROVE  Moves(x)
PROOF
  <1>1. pc = "attention_lease" /\ cur \in Message /\ UNCHANGED <<holder, wakeLog>>
    BY DEF AttentionLease, IInv, Places, TypeOK
  <1>2. CASE ~DueForAttention(record[cur])
    BY <1>1, <1>2, StayMoves DEF AttentionLease, LogsStay
  <1>3. CASE DueForAttention(record[cur])
    <2> DEFINE n == Len(attentionLog'[cur])
               k == record[cur].attention_attempts + 1
               s == [record[cur] EXCEPT !.attention_timer = TRUE, !.attention_attempts = k,
                                        !.attention_notification_id = n,
                                        !.attention_binding_generation = reg]
    <2>1. /\ attentionLog' = [attentionLog EXCEPT ![cur] = Append(@, reg)]
          /\ record' = [record EXCEPT ![cur] = s]
      BY <1>3 DEF AttentionLease, Write
    <2>2. s = [record[cur] EXCEPT !.attention_timer = TRUE, !.attention_attempts = k,
                                  !.attention_notification_id = n,
                                  !.attention_binding_generation = reg]
      OBVIOUS
    <2>3. /\ record[cur] \in Record /\ record \in [Message -> Record]
          /\ attentionLog \in [Message -> Seq(Generation)]
      BY <1>1 DEF IInv, TypeOK
    <2> HIDE DEF n, k, s
    <2>4. ClaimKept(record[cur], s) /\ WakeKept(record[cur], s)
      BY <2>2, <2>3 DEF ClaimKept, WakeKept, Record
    <2>5. /\ record'[cur] = s
          /\ \A y \in Message \ {cur} : /\ record'[y] = record[y]
                                        /\ attentionLog'[y] = attentionLog[y]
      BY <1>1, <2>1, <2>3
    <2>6. CASE x = cur
      BY <1>1, <2>4, <2>5, <2>6 DEF Moves
    <2>7. CASE x # cur
      BY <1>1, <2>5, <2>7 DEF Moves, Moved, ClaimKept, WakeKept
    <2> QED BY <2>6, <2>7
  <1> QED BY <1>2, <1>3

\* Every step of the specification moves each message in one of these ways.
LEMMA StepsMove ==
  ASSUME IInv, [Next]_vars, NEW x \in Message
  PROVE  Moves(x)
PROOF
  <1> USE DEF delivery, binding, handler, history
  <1>0. TypeOK /\ Places /\ \A m \in Message : record[m] \in Record
    BY DEF IInv, TypeOK
  <1>1. CASE Bind \/ BindAgain \/ Unbind \/ Wait \/ BindPersist \/ UnbindForget \/ Fail
             \/ Crash \/ Restart \/ UNCHANGED vars
    BY <1>1, StayMoves DEF Bind, BindAgain, Unbind, Wait, BindPersist, UnbindForget, Fail,
          Crash, Restart, vars, LogsStay
  <1>2. ASSUME NEW g \in waiters, WaitResume(g) PROVE Moves(x)
    <2>1. CASE Bound /\ reg = g /\ \E m \in Message : Claimable(record[m])
      BY <1>0, <1>2, <2>1, ClaimMoves DEF WaitResume
    <2>2. CASE UNCHANGED <<record, holder>>
      BY <1>2, <2>2, StayMoves DEF WaitResume, LogsStay
    <2> QED BY <1>2, <2>1, <2>2 DEF WaitResume
  <1>3. CASE WaitScan
    <2>1. CASE \E m \in Message : Claimable(record[m])
      BY <1>0, <1>3, <2>1, ClaimMoves DEF WaitScan
    <2>2. CASE UNCHANGED <<record, holder>>
      BY <1>3, <2>2, StayMoves DEF WaitScan, LogsStay
    <2> QED BY <1>3, <2>1, <2>2 DEF WaitScan
  <1>4. CASE WaitReconcile \/ BindReply \/ RecoverAcks
    BY <1>0, <1>4, ReconcileMoves DEF WaitReconcile, BindReply, RecoverAcks, LogsStay
  <1>5. ASSUME NEW m \in Message, Ack(m) \/ Transition(m) PROVE Moves(x)
    <2>1. CASE Ack(m)
      BY <1>0, <2>1, EndingsMove, WriteMoves DEF Ack, LogsStay
    <2>2. CASE Transition(m)
      BY <2>2, StayMoves DEF Transition, LogsStay
    <2> QED BY <1>5, <2>1, <2>2
  <1>6. ASSUME NEW m \in Message, NEW d \in BOOLEAN, NEW id, WakeAck(m, id, d)
        PROVE  Moves(x)
    <2> DEFINE s == [record[m] EXCEPT !.wake_status = IF d THEN "notified" ELSE "retry_pending",
                                      !.wake_timer = d]
    <2>1. /\ record[m].wake_status = "leased" /\ record[m].wake_binding_generation = reg
          /\ reg # 0 /\ Write(m, s) /\ LogsStay
      BY <1>6 DEF WakeAck, LogsStay
    <2>2. Moved(m, record[m], s)
      BY <1>0, <2>1, ReportsMove
    <2> QED BY <1>0, <2>1, <2>2, WriteMoves
  <1>7. ASSUME NEW m \in Message, NEW d \in BOOLEAN, NEW id, AttentionAck(m, id, d)
        PROVE  Moves(x)
    <2> DEFINE s == [record[m] EXCEPT !.attention_timer = FALSE,
                                      !.attention_notified = IF d THEN TRUE ELSE @]
    <2>1. Write(m, s) /\ LogsStay
      BY <1>7 DEF AttentionAck, LogsStay
    <2>2. Moved(m, record[m], s)
      BY <1>0, ReportsMove
    <2> QED BY <1>0, <2>1, <2>2, WriteMoves
  <1>8. CASE BindRearm
    <2>1. CASE todo = {}
      BY <1>8, <2>1, StayMoves DEF BindRearm, LogsStay
    <2>2. CASE todo # {}
      <3>1. PICK m \in todo : Write(m, Rearmed(record[m], reg))
        BY <1>8, <2>2 DEF BindRearm
      <3>2. m \in Message
        BY <1>0 DEF TypeOK
      <3> QED BY <1>0, <1>8, <3>1, <3>2, RearmedMoves, WriteMoves DEF BindRearm, LogsStay
    <2> QED BY <2>1, <2>2
  <1>9. CASE TransitionDrain \/ AttentionAudit \/ RecoverAudit
    BY <1>9, StayMoves DEF TransitionDrain, AttentionAudit, RecoverAudit, LogsStay
  <1>10. CASE TransitionCommit
    <2>1. cur \in Message /\ LogsStay
      BY <1>0, <1>10 DEF TransitionCommit, Places, LogsStay
    <2>2. \/ record' = record \/ Write(cur, Superseded(record[cur]))
          \/ /\ record[cur].status = "staged"
             /\ Write(cur, [record[cur] EXCEPT !.status = "pending"])
      BY <1>10 DEF TransitionCommit
    <2> QED BY <1>0, <2>1, <2>2, EndingsMove, WriteMoves, StayMoves
  <1>11. CASE AttentionRecord \/ AttentionLease
    BY <1>11, AttentionRecordMoves, AttentionLeaseMoves
  <1>12. ASSUME NEW m \in Message, Poll(m) PROVE Moves(x)
    <2>1. CASE PollRecover(m)
      <3>1. /\ HolderGone(record[m]) /\ LogsStay
            /\ \/ Write(m, Acknowledged(record[m])) \/ Write(m, Returned(record[m]))
        BY <2>1 DEF PollRecover, LogsStay
      <3> QED BY <1>0, <3>1, EndingsMove, WriteMoves
    <2>2. CASE PollEscalate(m)
      BY <2>2, StayMoves DEF PollEscalate, LogsStay
    <2> QED BY <1>12, <2>1, <2>2, PollWakeMoves DEF Poll
  <1>13. ASSUME NEW m \in Message, ClaimExpires(m) \/ WakeTimerEnds(m) \/ AttentionTimerEnds(m)
         PROVE  Moves(x)
    BY <1>0, <1>13, TimersMove, WriteMoves
       DEF ClaimExpires, WakeTimerEnds, AttentionTimerEnds, LogsStay
  <1>14. ASSUME NEW g \in Generation, BindingExpires(g) PROVE Moves(x)
    BY <1>14, StayMoves DEF BindingExpires, LogsStay
  <1> QED
    BY <1>1, <1>2, <1>3, <1>4, <1>5, <1>6, <1>7, <1>8, <1>9, <1>10, <1>11, <1>12, <1>13, <1>14
       DEF Next, Calls, Continue, Timers

LEMMA MovesKeepClaims ==
  ASSUME IInv, NEW m \in Message, Moves(m), ClaimSound(m), EscalationSound
  PROVE  ClaimSound(m)'
PROOF
  <1> DEFINE r == record[m]
             s == record'[m]
  <1>1. wakeLog[m] \in Seq(Generation)
    BY DEF IInv, TypeOK
  <1>2. CASE ClaimedBy(m, r, s) /\ wakeLog'[m] = wakeLog[m]
    BY <1>2 DEF ClaimedBy, ClaimSound
  <1>3. CASE LeasedTo(m, r, s)
    <2>1. reg \in Generation /\ wakeLog'[m] = Append(wakeLog[m], reg)
      BY <1>3 DEF LeasedTo
    <2>2. wakeLog'[m] # <<>> /\ wakeLog'[m][Len(wakeLog'[m])] = reg
      BY <1>1, <2>1
    <2> QED BY <1>3, <2>2 DEF LeasedTo, ClaimKept, ClaimSound
  <1>4. CASE ClaimKept(r, s) /\ WakeKept(r, s) /\ wakeLog'[m] = wakeLog[m]
    BY <1>4 DEF ClaimKept, WakeKept, ClaimSound
  <1>5. CASE Moved(m, r, s) /\ wakeLog'[m] = wakeLog[m]
    BY <1>5 DEF Moved, ClaimKept, WakeKept, HolderGone, ClaimSound
  <1> QED BY <1>2, <1>3, <1>4, <1>5 DEF Moves

LEMMA EscalationKept ==
  ASSUME IInv, ClaimsSound, [Next]_vars
  PROVE  EscalationSound'
PROOF
  <1> USE DEF delivery, binding, handler, history
  <1>1. CASE AttentionAudit
    <2>1. /\ pc = "attention_audit" /\ pc' \in {"attention_audit", "attention_record"}
          /\ cur' = cur /\ record' = record
      BY <1>1 DEF AttentionAudit, Drain
    <2> QED BY <2>1 DEF ClaimsSound, EscalationSound
  <1>2. CASE AttentionRecord
    <2>1. /\ pc = "attention_record" /\ pc' = "attention_lease" /\ cur' = cur
          /\ cur \in Message
          /\ record' = [record EXCEPT ![cur] = [record[cur] EXCEPT
                          !.wake_status = "needs_attention", !.wake_timer = FALSE]]
      BY <1>2 DEF AttentionRecord, Write, IInv, Places, TypeOK
    <2>2. record'[cur].claim = record[cur].claim
      BY <2>1 DEF IInv, TypeOK, Record
    <2> QED BY <2>1, <2>2 DEF ClaimsSound, EscalationSound
  <1>3. ASSUME NEW m \in Message, PollEscalate(m) PROVE EscalationSound'
    <2>1. /\ cur' = m /\ record' = record /\ Claimable(record[m]) /\ ~HolderGone(record[m])
      BY <1>3 DEF PollEscalate, DueForWake
    <2> QED BY <2>1 DEF ClaimsSound, ClaimSound, EscalationSound, Claimable, HolderGone
  <1>4. CASE UNCHANGED vars
    BY <1>4 DEF ClaimsSound, EscalationSound, vars
  <1>5. ASSUME pc' \notin {"attention_audit", "attention_record", "attention_lease"}
        PROVE  EscalationSound'
    BY <1>5 DEF EscalationSound
  <1>6. CASE Calls
    BY <1>5, <1>6 DEF Calls, Bind, BindAgain, Unbind, Wait, WaitResume, Ack, Transition,
          WakeAck, AttentionAck
  <1>7. CASE BindPersist \/ BindRearm \/ UnbindForget \/ WaitScan \/ TransitionCommit
             \/ AttentionLease
    BY <1>5, <1>7 DEF BindPersist, BindRearm, UnbindForget, WaitScan, TransitionCommit,
          AttentionLease, Done
  <1>8. CASE BindReply \/ WaitReconcile \/ RecoverAcks \/ TransitionDrain \/ RecoverAudit
    BY <1>5, <1>8 DEF BindReply, WaitReconcile, RecoverAcks, TransitionDrain, RecoverAudit,
          Reconcile, Drain
  <1>9. ASSUME NEW m \in Message, PollRecover(m) \/ PollWake(m) PROVE EscalationSound'
    BY <1>5, <1>9 DEF PollRecover, PollWake, Done
  <1>10. CASE Timers \/ Fail \/ Crash \/ Restart
    BY <1>5, <1>10 DEF Timers, ClaimExpires, WakeTimerEnds, AttentionTimerEnds, BindingExpires,
          Fail, Crash, Restart, Done
  <1> QED BY <1>1, <1>2, <1>3, <1>4, <1>6, <1>7, <1>8, <1>9, <1>10 DEF Next, Continue, Poll

\* What is known of claims holds in every reachable state.
THEOREM ClaimsInvariant == Spec => []ClaimsSound
PROOF
  <1>1. Init => ClaimsSound
    BY DEF Init, ClaimsSound, EscalationSound, ClaimSound, FreshRecord
  <1>2. IInv /\ ClaimsSound /\ [Next]_vars => ClaimsSound'
    BY StepsMove, MovesKeepClaims, EscalationKept DEF ClaimsSound
  <1> QED BY <1>1, <1>2, WakesInvariant, PTL DEF Spec

\* A message is handed to the current binding only, and while it is held nobody else gets
\* it and no notification about it is sent, also by a wait that slept through a rebind
\* or an escalation that began before (wait, pending_wakes).
THEOREM ClaimsAlwaysRespected == Spec => ClaimsRespected
PROOF
  <1>1. ASSUME IInv, ClaimsSound, [Next]_vars, NEW m \in Message
        PROVE  /\ holder'[m] # holder[m] => record[m].claim # "live" /\ holder'[m] = reg
               /\ record[m].claim = "live" =>
                    wakeLog'[m] = wakeLog[m] /\ attentionLog'[m] = attentionLog[m]
    <2>1. Moves(m) /\ ClaimSound(m) /\ EscalationSound
      BY <1>1, StepsMove DEF ClaimsSound
    <2>2. record[m].claim = "live" => ~Claimable(record[m])
      BY <2>1 DEF ClaimSound, Claimable
    <2> QED BY <2>1, <2>2 DEF Moves, ClaimedBy, LeasedTo, EscalationSound
  <1>2. IInv /\ ClaimsSound /\ [Next]_vars =>
          [\A m \in Message :
             /\ holder'[m] # holder[m] => record[m].claim # "live" /\ holder'[m] = reg
             /\ record[m].claim = "live" =>
                  wakeLog'[m] = wakeLog[m] /\ attentionLog'[m] = attentionLog[m]]_vars
    BY <1>1
  <1> QED BY <1>2, WakesInvariant, ClaimsInvariant, PTL DEF Spec, ClaimsRespected

\* A report settles a wake only while the lease it was given under is the last one and
\* belongs to the current binding, and what was claimed or escalated meanwhile is not
\* changed by a late one (wake_ack).
THEOREM OnlyOwnerAlwaysSettles == Spec => OnlyOwnerSettles
PROOF
  <1>1. ASSUME IInv, ClaimsSound, [Next]_vars, NEW m \in Message,
               record[m].wake_status # record'[m].wake_status
        PROVE  /\ record'[m].wake_status = "notified" =>
                    /\ record[m].wake_status = "leased" /\ reg # 0
                    /\ wakeLog[m][Len(wakeLog[m])] = reg
               /\ record[m].wake_status = "needs_attention" =>
                    record'[m].wake_status = "consumed"
               /\ record[m].wake_status = "consumed" =>
                    record'[m].wake_status = "retry_pending" /\ record[m].claim = "expired"
    <2> DEFINE r == record[m]
               s == record'[m]
    <2>1. Moves(m) /\ ClaimSound(m) /\ EscalationSound
      BY <1>1, StepsMove DEF ClaimsSound
    <2>2. CASE ClaimedBy(m, r, s)
      BY <1>1, <2>2 DEF ClaimedBy
    <2>3. CASE LeasedTo(m, r, s)
      <3>1. r.wake_status # "needs_attention"
        <4>1. Len(wakeLog[m]) = r.wake_attempts /\ r.wake_attempts < MaxWakes
          BY <1>1, <2>3 DEF LeasedTo, IInv, Counts
        <4>2. m \notin attended
          BY <1>1, <4>1, BoundAssumption DEF IInv, AttentionSound, TypeOK, Record
        <4> QED BY <1>1, <4>2 DEF IInv, AttentionSound
      <3>2. r.wake_status # "consumed"
        BY <2>1, <2>3 DEF LeasedTo, ClaimSound, Claimable, HolderGone
      <3> QED BY <2>3, <3>1, <3>2 DEF LeasedTo
    <2>4. CASE WakeKept(r, s)
      BY <1>1, <2>4 DEF WakeKept
    <2>5. CASE Moved(m, r, s)
      BY <1>1, <2>1, <2>5
         DEF Moved, WakeKept, ClaimKept, HolderGone, ClaimSound, EscalationSound
    <2> QED BY <2>1, <2>2, <2>3, <2>4, <2>5 DEF Moves
  <1>2. IInv /\ ClaimsSound /\ [Next]_vars =>
          [\A m \in Message :
             LET was == record[m].wake_status
                 is == record'[m].wake_status
             IN  was # is =>
                   /\ is = "notified" =>
                        /\ was = "leased" /\ reg # 0
                        /\ wakeLog[m][Len(wakeLog[m])] = reg
                   /\ was = "needs_attention" => is = "consumed"
                   /\ was = "consumed" => is = "retry_pending" /\ record[m].claim = "expired"]_vars
    BY <1>1
  <1> QED BY <1>2, WakesInvariant, ClaimsInvariant, PTL DEF Spec, OnlyOwnerSettles
=============================================================================
