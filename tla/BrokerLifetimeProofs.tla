------------------------ MODULE BrokerLifetimeProofs ------------------------
(***************************************************************************)
(* Proofs about BrokerLifetime for every number of processes, clients,     *)
(* dialogues and outbox records, and without any bound on faults.          *)
(*                                                                         *)
(* Neither DeletionSound nor ServerReachable nor WrittenAsAdmitted is      *)
(* inductive.  Why a deletion is finished before anybody is served lies in *)
(* the stages every process goes through with the lock in its hands, so    *)
(* the inductive invariant says of each stage what its process has, what   *)
(* it is admitted as and which dialogues it has settled.                   *)
(***************************************************************************)
EXTENDS BrokerLifetime, TLAPS

Stage == {"off", "begun", "locked", "clearing", "truncating", "recording",
          "reconciling", "retaining", "commanded", "binding", "serving",
          "draining", "done", "pending", "installed"}

ProcessState ==
  [stage : Stage, role : {"daemon", "delete", "update"}, cohort : {Old, New},
   launcher : Client \cup {None}, orphan : BOOLEAN,
   deleting : Dialogue \cup {None}, handlers : SUBSET Client]

ClientState ==
  [state : {"idle", "asking", "launching", "served", "refused"},
   child : Process \cup {None}, cohort : {Old, New}]

Shape ==
  /\ {holder, socket} \subseteq Process \cup {None}
  /\ admission \in {Old, New, Recovery} /\ installed \in {Old, New}
  /\ files \in [Dialogue -> SUBSET Whole]
  /\ phase \in [Dialogue -> {"open", "terminal"}]
  /\ tombstone \in [Dialogue -> {NoTombstone} \cup SUBSET Record]
  /\ processes \in [Process -> ProcessState]
  /\ clients \in [Client -> ClientState]


-----------------------------------------------------------------------------
(* What is true of a process in each stage.                                *)

Unlocked == {"off", "begun"}

Writing == {"clearing", "truncating", "recording", "reconciling", "retaining",
            "commanded", "binding", "serving", "draining", "done"}

Settled == {"retaining", "commanded", "binding", "serving", "draining"}

\* A process that has passed the lock has it, and one that may write is admitted.
LockHeld(p) == processes[p].stage \in Unlocked \/ holder = p

AdmittedAs(p) == processes[p].stage \in Writing => processes[p].cohort = admission

\* Requests are handled by a broker that serves or drains.
HandledInService(p) == processes[p].handlers # {} => At(p, "serving") \/ At(p, "draining")

\* What a process deletes has its tombstone.
Condemned(p) ==
  processes[p].deleting # None =>
    /\ processes[p].stage \in {"reconciling", "retaining", "done"}
    /\ tombstone[processes[p].deleting] # NoTombstone

\* From its own reconciliation on, a process knows every dialogue whole or gone,
\* but for the one it is deleting itself.
KnowsSettled(p) ==
  processes[p].stage \in Settled =>
    \A d \in Dialogue : d = processes[p].deleting \/ Bimodal(d)

Reachable(p) == At(p, "serving") => socket = p

Orderly(p) ==
  /\ LockHeld(p) /\ AdmittedAs(p) /\ HandledInService(p)
  /\ Condemned(p) /\ KnowsSettled(p) /\ Reachable(p)

\* Nothing is missing without a tombstone, which is written once, of a whole
\* terminal dialogue; the manifest goes before what it describes.
Dying(d) ==
  /\ tombstone[d] = NoTombstone => files[d] = Whole
  /\ tombstone[d] # NoTombstone => phase[d] = "terminal" /\ tombstone[d] = Record
  /\ "manifest" \in files[d] => Children \subseteq files[d]

IInv ==
  /\ Shape
  /\ \A p \in Process : Orderly(p)
  /\ \A d \in Dialogue : Dying(d)

-----------------------------------------------------------------------------
(* One process at a time.                                                  *)

Others(p) == \A q \in Process \ {p} : processes'[q] = processes[q]

\* Whoever has not passed the lock handles nothing and deletes nothing.
LEMMA UnlockedIsIdle ==
  ASSUME NEW p \in Process, Orderly(p), processes[p].stage \in Unlocked
  PROVE  processes[p].handlers = {} /\ processes[p].deleting = None
PROOF BY DEF Orderly, HandledInService, Condemned, Unlocked, At

LEMMA UnlockedIsOrderly ==
  ASSUME NEW p \in Process, processes'[p].stage \in Unlocked,
         processes'[p].handlers = {}, processes'[p].deleting = None
  PROVE  Orderly(p)'
PROOF BY DEF Orderly, LockHeld, AdmittedAs, HandledInService, Condemned,
             KnowsSettled, Reachable, Unlocked, Writing, Settled, At

\* While one process has the lock, all others are idle, so that nothing this one
\* does to the shared state concerns them.
LEMMA HolderIsAlone ==
  ASSUME IInv, NEW p \in Process, holder = p, Others(p), Shape',
         Orderly(p)', \A d \in Dialogue : Dying(d)'
  PROVE  IInv'
PROOF
  <1>1. ASSUME NEW q \in Process \ {p}
        PROVE  Orderly(q)'
    <2>1. Orderly(q) /\ processes'[q] = processes[q]
      BY DEF IInv, Others
    <2>2. processes[q].stage \in Unlocked
      BY <2>1 DEF Orderly, LockHeld
    <2>3. processes[q].handlers = {} /\ processes[q].deleting = None
      BY <2>1, <2>2, UnlockedIsIdle
    <2> QED BY <2>1, <2>2, <2>3, UnlockedIsOrderly
  <1> QED BY <1>1 DEF IInv

\* A process that is idle before and after a step concerns nobody.
LEMMA IdleConcernsNobody ==
  ASSUME IInv, NEW p \in Process, Others(p), Shape',
         UNCHANGED <<holder, socket, admission, files, phase, tombstone>>,
         Orderly(p)'
  PROVE  IInv'
PROOF
  <1>1. ASSUME NEW q \in Process \ {p}
        PROVE  Orderly(q)'
    <2>1. Orderly(q) /\ processes'[q] = processes[q]
      BY DEF IInv, Others
    <2> QED BY <2>1 DEF Orderly, LockHeld, AdmittedAs, HandledInService, Condemned,
                        KnowsSettled, Reachable, Bimodal, At
  <1>2. ASSUME NEW d \in Dialogue
        PROVE  Dying(d)'
    BY DEF IInv, Dying
  <1> QED BY <1>1, <1>2 DEF IInv

\* What moving to another stage leaves of a process.
LEMMA Moves ==
  ASSUME Shape, NEW p \in Process, NEW s \in Stage, To(p, s)
  PROVE  /\ processes' \in [Process -> ProcessState]
         /\ Others(p)
         /\ processes'[p].stage = s
         /\ processes'[p].cohort = processes[p].cohort
         /\ processes'[p].deleting = processes[p].deleting
         /\ processes'[p].handlers = processes[p].handlers
PROOF BY DEF Shape, To, Others, ProcessState

LEMMA OffIsProcess == Off \in ProcessState
PROOF BY DEF Off, ProcessState, Stage

\* What is left of a process that ends.
LEMMA Ends ==
  ASSUME IInv, NEW p \in Process, Released(p)
  PROVE  /\ processes' \in [Process -> ProcessState]
         /\ Others(p)
         /\ Orderly(p)'
         /\ holder' \in Process \cup {None}
PROOF
  <1>1. /\ processes' \in [Process -> ProcessState]
        /\ Others(p) /\ processes'[p] = Off
    BY OffIsProcess DEF Released, IInv, Shape, Others
  <1>2. Orderly(p)'
    BY <1>1, UnlockedIsOrderly DEF Off, Unlocked
  <1> QED BY <1>1, <1>2 DEF Released, IInv, Shape

\* A client that is told something stays a client.
LEMMA ToldShape ==
  ASSUME Shape, NEW p, NEW s \in {"asking", "refused"}, Told(p, s)
  PROVE  clients' \in [Client -> ClientState]
PROOF BY DEF Shape, Told, ClientState

-----------------------------------------------------------------------------
(* Clients, and the start of a process.                                    *)

\* A step that leaves alone what the processes are ordered by.
LEMMA SameOrder ==
  ASSUME IInv, Shape',
         UNCHANGED <<holder, socket, admission, files, phase, tombstone>>,
         \A p \in Process :
           /\ processes'[p].stage = processes[p].stage
           /\ processes'[p].cohort = processes[p].cohort
           /\ processes'[p].deleting = processes[p].deleting
           /\ \/ processes'[p].handlers \subseteq processes[p].handlers
              \/ At(p, "serving")
  PROVE  IInv'
PROOF
  <1>1. ASSUME NEW p \in Process
        PROVE  Orderly(p)'
    BY DEF IInv, Orderly, LockHeld, AdmittedAs, HandledInService, Condemned,
           KnowsSettled, Reachable, Bimodal, At
  <1>2. ASSUME NEW d \in Dialogue
        PROVE  Dying(d)'
    BY DEF IInv, Dying
  <1> QED BY <1>1, <1>2 DEF IInv

LEMMA ClientSteps ==
  ASSUME IInv, NEW c \in Client,
         Want(c) \/ AskServed(c) \/ GiveUp(c) \/ ClientDies(c)
  PROVE  IInv'
PROOF
  <1> USE DEF shared, code, disk
  <1>1. CASE Want(c) \/ GiveUp(c)
    <2>1. Shape'
      BY <1>1 DEF Want, GiveUp, IInv, Shape, ClientState
    <2> QED BY <1>1, <2>1, SameOrder DEF Want, GiveUp
  <1>2. CASE AskServed(c)
    <2>1. PICK p \in Process :
            /\ Listening(p)
            /\ \/ /\ clients' = [clients EXCEPT ![c].state = "served"]
                  /\ processes' = [processes EXCEPT ![p].handlers = @ \cup {c}]
               \/ /\ clients' = [clients EXCEPT ![c].state = "refused"]
                  /\ UNCHANGED processes
      BY <1>2 DEF AskServed
    <2>2. processes' \in [Process -> ProcessState]
      BY <2>1 DEF IInv, Shape, ProcessState
    <2>3. clients' \in [Client -> ClientState]
      BY <2>1 DEF IInv, Shape, ClientState
    <2>4. Shape'
      BY <1>2, <2>2, <2>3 DEF AskServed, IInv, Shape
    <2>5. ASSUME NEW q \in Process
          PROVE  /\ processes'[q].stage = processes[q].stage
                 /\ processes'[q].cohort = processes[q].cohort
                 /\ processes'[q].deleting = processes[q].deleting
                 /\ processes'[q].handlers = processes[q].handlers \/ At(q, "serving")
      BY <2>1 DEF IInv, Shape, ProcessState, Listening
    <2> QED BY <1>2, <2>4, <2>5, SameOrder DEF AskServed
  <1>3. CASE ClientDies(c)
    <2>1. ASSUME NEW q \in Process
          PROVE  /\ processes'[q].stage = processes[q].stage
                 /\ processes'[q].cohort = processes[q].cohort
                 /\ processes'[q].deleting = processes[q].deleting
                 /\ processes'[q].handlers \subseteq processes[q].handlers
                 /\ processes'[q] \in ProcessState
      <3>1. processes[q] \in ProcessState
        BY DEF IInv, Shape
      <3>2. processes'[q] =
              [processes[q] EXCEPT !.orphan = @ \/ processes[q].launcher = c,
                                   !.handlers = @ \ {c}]
        BY <1>3 DEF ClientDies
      <3>3. (processes[q].orphan \/ processes[q].launcher = c) \in BOOLEAN
        BY <3>1 DEF ProcessState
      <3> QED BY <3>1, <3>2, <3>3 DEF ProcessState
    <2>2. processes' \in [Process -> ProcessState]
      BY <1>3, <2>1 DEF ClientDies
    <2>3. clients' \in [Client -> ClientState]
      BY <1>3 DEF ClientDies, IInv, Shape, ClientState
    <2>4. Shape'
      BY <1>3, <2>2, <2>3 DEF ClientDies, IInv, Shape
    <2> QED BY <1>3, <2>1, <2>4, SameOrder DEF ClientDies
  <1> QED BY <1>1, <1>2, <1>3

\* A process that has only just begun.
LEMMA BeginsIdle ==
  ASSUME IInv, NEW p \in Process, NEW new \in ProcessState,
         new.stage = "begun", new.handlers = {}, new.deleting = None,
         processes' = [processes EXCEPT ![p] = new],
         clients' \in [Client -> ClientState],
         UNCHANGED <<shared, code, disk>>
  PROVE  IInv'
PROOF
  <1>1. /\ processes' \in [Process -> ProcessState]
        /\ Others(p) /\ processes'[p] = new
    BY DEF IInv, Shape, Others
  <1>2. Orderly(p)'
    BY <1>1, UnlockedIsOrderly DEF Unlocked
  <1>3. Shape'
    BY <1>1 DEF IInv, Shape, shared, code, disk
  <1> QED BY <1>1, <1>2, <1>3, IdleConcernsNobody DEF shared, code, disk

LEMMA LaunchKeeps ==
  ASSUME IInv, NEW c \in Client, Launch(c)
  PROVE  IInv'
PROOF
  <1> DEFINE new == [Off EXCEPT !.stage = "begun", !.cohort = installed, !.launcher = c]
  <1>1. PICK p \in Process :
          /\ processes' = [processes EXCEPT ![p] = new]
          /\ clients' = [clients EXCEPT ![c].state = "launching", ![c].child = p]
    BY DEF Launch
  <1>2. clients' \in [Client -> ClientState]
    BY <1>1 DEF IInv, Shape, ClientState
  <1>3. /\ new \in ProcessState
        /\ new.stage = "begun" /\ new.handlers = {} /\ new.deleting = None
    BY DEF Off, ProcessState, Stage, IInv, Shape
  <1> HIDE DEF new
  <1> QED BY <1>1, <1>2, <1>3, BeginsIdle DEF Launch

LEMMA CommandKeeps ==
  ASSUME IInv, NEW p \in Process, NEW role \in {"delete", "update"}, Command(p, role)
  PROVE  IInv'
PROOF
  <1> DEFINE new == [Off EXCEPT !.stage = "begun", !.role = role, !.cohort = installed]
  <1>1. processes' = [processes EXCEPT ![p] = new]
    BY DEF Command
  <1>2. clients' \in [Client -> ClientState]
    BY DEF Command, IInv, Shape
  <1>3. /\ new \in ProcessState
        /\ new.stage = "begun" /\ new.handlers = {} /\ new.deleting = None
    BY DEF Off, ProcessState, Stage, IInv, Shape
  <1> HIDE DEF new
  <1> QED BY <1>1, <1>2, <1>3, BeginsIdle DEF Command

LEMMA AcquireKeeps ==
  ASSUME IInv, NEW p \in Process, Acquire(p)
  PROVE  IInv'
PROOF
  <1> USE DEF shared, code, disk
  <1>1. processes[p].handlers = {} /\ processes[p].deleting = None
    BY UnlockedIsIdle DEF Acquire, At, Unlocked, IInv
  <1>2. CASE holder = None
    <2>1. /\ holder' = p /\ To(p, "locked")
          /\ UNCHANGED <<socket, code, disk, clients>>
      BY <1>2 DEF Acquire, Lockable
    <2>2. "locked" \in Stage
      BY DEF Stage
    <2>3. /\ processes' \in [Process -> ProcessState] /\ Others(p)
          /\ processes'[p].stage = "locked"
          /\ processes'[p].deleting = None /\ processes'[p].handlers = {}
      BY <1>1, <2>1, <2>2, Moves DEF IInv
    <2>4. Shape'
      BY <2>1, <2>3 DEF IInv, Shape
    <2>5. ASSUME NEW q \in Process \ {p}
          PROVE  Orderly(q)'
      <3>1. Orderly(q) /\ processes'[q] = processes[q]
        BY <2>3 DEF IInv, Others
      <3>2. processes[q].stage \in Unlocked
        BY <1>2, <3>1, NamesAssumption DEF Orderly, LockHeld
      <3>3. processes[q].handlers = {} /\ processes[q].deleting = None
        BY <3>1, <3>2, UnlockedIsIdle
      <3> QED BY <3>1, <3>2, <3>3, UnlockedIsOrderly
    <2>6. Orderly(p)'
      BY <2>1, <2>3 DEF Orderly, LockHeld, AdmittedAs, HandledInService, Condemned,
                        KnowsSettled, Reachable, Writing, Settled, At
    <2>7. ASSUME NEW d \in Dialogue
          PROVE  Dying(d)'
      BY <2>1 DEF IInv, Dying
    <2> QED BY <2>4, <2>5, <2>6, <2>7 DEF IInv
  <1>3. CASE holder # None
    <2>1. /\ processes' = [processes EXCEPT ![p] = Off]
          /\ Told(p, "asking")
          /\ UNCHANGED <<holder, socket, code, disk>>
      BY <1>3 DEF Acquire, Lockable
    <2>2. /\ processes' \in [Process -> ProcessState]
          /\ Others(p) /\ processes'[p] = Off
      BY <2>1, OffIsProcess DEF IInv, Shape, Others
    <2>3. Orderly(p)'
      BY <2>2, UnlockedIsOrderly DEF Off, Unlocked
    <2>4. clients' \in [Client -> ClientState]
      BY <2>1, ToldShape DEF IInv
    <2>5. Shape'
      BY <2>1, <2>2, <2>4 DEF IInv, Shape
    <2> QED BY <2>1, <2>2, <2>3, <2>5, IdleConcernsNobody
  <1> QED BY <1>2, <1>3

-----------------------------------------------------------------------------
(* What the holder of the lock does.                                       *)

LEMMA HolderOf ==
  ASSUME IInv, NEW p \in Process, processes[p].stage \notin Unlocked
  PROVE  holder = p /\ Orderly(p) /\ processes[p] \in ProcessState
PROOF BY DEF IInv, Orderly, LockHeld, Shape

\* It ends.
LEMMA EndsKeeps ==
  ASSUME IInv, NEW p \in Process, holder = p, Released(p),
         clients' \in [Client -> ClientState],
         socket' \in Process \cup {None},
         admission' \in {Old, New, Recovery}, installed' \in {Old, New},
         UNCHANGED disk
  PROVE  IInv'
PROOF
  <1>1. /\ processes' \in [Process -> ProcessState] /\ Others(p)
        /\ Orderly(p)' /\ holder' \in Process \cup {None}
    BY Ends
  <1>2. Shape'
    BY <1>1 DEF IInv, Shape, disk
  <1>3. ASSUME NEW d \in Dialogue
        PROVE  Dying(d)'
    BY DEF IInv, Dying, disk
  <1> QED BY <1>1, <1>2, <1>3, HolderIsAlone

\* It moves on, and nothing it shares changes but the socket and the admission.
LEMMA MovesKeeps ==
  ASSUME IInv, NEW p \in Process, holder = p, NEW s \in Stage, To(p, s),
         clients' \in [Client -> ClientState],
         socket' \in Process \cup {None},
         admission' \in {Old, New, Recovery}, installed' \in {Old, New},
         UNCHANGED <<holder, disk>>,
         Orderly(p)'
  PROVE  IInv'
PROOF
  <1>1. processes' \in [Process -> ProcessState] /\ Others(p)
    BY Moves DEF IInv
  <1>2. Shape'
    BY <1>1 DEF IInv, Shape, disk
  <1>3. ASSUME NEW d \in Dialogue
        PROVE  Dying(d)'
    BY DEF IInv, Dying, disk
  <1> QED BY <1>1, <1>2, <1>3, HolderIsAlone

LEMMA AdmitKeeps ==
  ASSUME IInv, NEW p \in Process, Admit(p)
  PROVE  IInv'
PROOF
  <1> USE DEF shared, code, disk
  <1>1. holder = p /\ Orderly(p) /\ processes[p] \in ProcessState
    BY HolderOf DEF Admit, At, Unlocked
  <1>2. CASE Admitted(p)
    <2>1. PICK s \in {"clearing", "reconciling"} : To(p, s)
      BY <1>2 DEF Admit, StartOrder
    <2>2. s \in Stage /\ s \in Writing \ Settled /\ s \notin Unlocked \cup {"serving"}
      BY DEF Stage, Writing, Settled, Unlocked
    <2>3. /\ processes'[p].stage = s
          /\ processes'[p].cohort = processes[p].cohort
          /\ processes'[p].deleting = processes[p].deleting
          /\ processes'[p].handlers = processes[p].handlers
      BY <2>1, <2>2, Moves DEF IInv
    <2>4. processes[p].handlers = {} /\ processes[p].deleting = None
      BY <1>1 DEF Orderly, HandledInService, Condemned, At, Admit
    <2>5. Orderly(p)'
      BY <1>1, <1>2, <2>2, <2>3, <2>4
         DEF Admit, Admitted, Orderly, LockHeld, AdmittedAs, HandledInService, Condemned,
             KnowsSettled, Reachable, At
    <2> QED BY <1>1, <1>2, <2>1, <2>2, <2>5, MovesKeeps DEF Admit, IInv, Shape
  <1>3. CASE ~Admitted(p)
    <2>1. Released(p) /\ Told(p, "refused")
      BY <1>3 DEF Admit
    <2>2. clients' \in [Client -> ClientState]
      BY <2>1, ToldShape DEF IInv
    <2> QED BY <1>1, <2>1, <2>2, EndsKeeps DEF Admit, IInv, Shape
  <1> QED BY <1>2, <1>3

\* An update has no role in what the other stages promise.
LEMMA UpdateKeeps ==
  ASSUME IInv, NEW p \in Process, Update(p)
  PROVE  IInv'
PROOF
  <1> USE DEF shared, code, disk
  <1>1. holder = p /\ Orderly(p) /\ processes[p] \in ProcessState
    BY HolderOf DEF Update, At, Unlocked
  <1>2. clients' \in [Client -> ClientState] /\ socket' \in Process \cup {None}
    BY DEF Update, IInv, Shape
  <1>3. ASSUME NEW s \in {"pending", "installed"}, To(p, s),
               processes[p].stage \in {"locked", "pending"}
        PROVE  Orderly(p)' \/ holder' # holder
    <2>1. s \in Stage /\ s \notin Writing \cup Settled \cup {"serving"}
      BY DEF Stage, Writing, Settled
    <2>2. /\ processes'[p].stage = s
          /\ processes'[p].deleting = processes[p].deleting
          /\ processes'[p].handlers = processes[p].handlers
      BY <1>3, <2>1, Moves DEF IInv
    <2>3. processes[p].handlers = {} /\ processes[p].deleting = None
      BY <1>1, <1>3 DEF Orderly, HandledInService, Condemned, At
    <2> QED BY <1>1, <2>1, <2>2, <2>3
            DEF Orderly, LockHeld, AdmittedAs, HandledInService, Condemned,
                KnowsSettled, Reachable, At
  <1>4. CASE At(p, "locked") /\ admission' = Recovery /\ To(p, "pending")
              /\ UNCHANGED <<holder, installed>>
    <2>1. "pending" \in Stage /\ Orderly(p)'
      BY <1>3, <1>4 DEF Stage, At
    <2> QED BY <1>1, <1>2, <1>4, <2>1, MovesKeeps DEF Update, IInv, Shape
  <1>5. CASE At(p, "pending") /\ installed' \in {Old, New} \ {installed}
              /\ To(p, "installed") /\ UNCHANGED <<holder, admission>>
    <2>1. "installed" \in Stage /\ Orderly(p)'
      BY <1>3, <1>5 DEF Stage, At
    <2> QED BY <1>1, <1>2, <1>5, <2>1, MovesKeeps DEF Update, IInv, Shape
  <1>6. CASE At(p, "installed") /\ admission' = installed /\ Released(p)
              /\ UNCHANGED installed
    BY <1>1, <1>2, <1>6, EndsKeeps DEF Update, IInv, Shape
  <1> QED BY <1>4, <1>5, <1>6 DEF Update

LEMMA ClearKeeps ==
  ASSUME IInv, NEW p \in Process, Clear(p)
  PROVE  IInv'
PROOF
  <1> USE DEF shared, code, disk
  <1>1. holder = p /\ Orderly(p) /\ processes[p] \in ProcessState
    BY HolderOf DEF Clear, At, Unlocked
  <1>2. CASE Released(p) /\ Told(p, "asking") /\ UNCHANGED socket
    <2>1. clients' \in [Client -> ClientState]
      BY <1>2, ToldShape DEF IInv
    <2> QED BY <1>1, <1>2, <2>1, EndsKeeps DEF Clear, IInv, Shape
  <1>3. CASE Begun(p, "clearing") /\ socket' = None /\ UNCHANGED <<holder, clients>>
    <2>1. To(p, "truncating") /\ "truncating" \in Stage
      BY <1>3 DEF Begun, StartOrder, Stage
    <2>2. /\ processes'[p].stage = "truncating"
          /\ processes'[p].cohort = processes[p].cohort
          /\ processes'[p].deleting = processes[p].deleting
          /\ processes'[p].handlers = processes[p].handlers
      BY <2>1, Moves DEF IInv
    <2>3. Orderly(p)'
      BY <1>1, <1>3, <2>2
         DEF Clear, Begun, Orderly, LockHeld, AdmittedAs, HandledInService, Condemned,
             KnowsSettled, Reachable, At, Writing, Settled
    <2> QED BY <1>1, <1>3, <2>1, <2>3, MovesKeeps DEF Clear, IInv, Shape
  <1> QED BY <1>2, <1>3 DEF Clear

LEMMA RewriteKeeps ==
  ASSUME IInv, NEW p \in Process, Rewrite(p)
  PROVE  IInv'
PROOF
  <1> USE DEF shared, code, disk
  <1>1. /\ processes[p].stage \in {"truncating", "recording"}
        /\ \E s \in {"recording", "reconciling"} : To(p, s)
    BY DEF Rewrite, Begun, StartOrder, At
  <1>2. PICK s \in {"recording", "reconciling"} : To(p, s)
    BY <1>1
  <1>3. holder = p /\ Orderly(p) /\ processes[p] \in ProcessState
    BY <1>1, HolderOf DEF Unlocked
  <1>4. s \in Stage
    BY DEF Stage
  <1>5. /\ processes'[p].stage = s
        /\ processes'[p].cohort = processes[p].cohort
        /\ processes'[p].deleting = processes[p].deleting
        /\ processes'[p].handlers = processes[p].handlers
    BY <1>2, <1>4, Moves DEF IInv
  <1>6. processes[p].handlers = {} /\ processes[p].deleting = None
    BY <1>1, <1>3 DEF Orderly, HandledInService, Condemned, At
  <1>7. Orderly(p)'
    BY <1>1, <1>3, <1>5, <1>6
       DEF Rewrite, Orderly, LockHeld, AdmittedAs, HandledInService, Condemned,
           KnowsSettled, Reachable, At, Writing, Settled
  <1> QED BY <1>2, <1>3, <1>4, <1>7, MovesKeeps DEF Rewrite, IInv, Shape

-----------------------------------------------------------------------------
(* Deletions.                                                              *)

\* The names of a dialogue's files are told apart.
LEMMA FileNames ==
  /\ Children \cap Record = {} /\ {"manifest", "directory"} \cap Record = {}
  /\ "manifest" \notin Children /\ Children \subseteq Whole /\ Record \subseteq Whole
  /\ "manifest" \in Whole /\ NoTombstone # Record
PROOF BY NamesAssumption DEF Children, Whole, NoTombstone

\* The next file to go is never a child of a manifest that is still there.
LEMMA RemovableSound ==
  ASSUME NEW d \in Dialogue, NEW f \in Removable(d),
         "manifest" \in files[d], f # "manifest"
  PROVE  f \notin Children
PROOF BY FileNames DEF Removable

LEMMA RemoveKeeps ==
  ASSUME IInv, NEW p \in Process, Remove(p)
  PROVE  IInv'
PROOF
  <1> USE DEF shared, code
  <1> DEFINE d == processes[p].deleting
  <1>1. /\ d # None
        /\ UNCHANGED <<shared, code, phase, tombstone, clients>>
    BY DEF Remove
  <1>2. Orderly(p) /\ processes[p] \in ProcessState
    BY DEF IInv, Shape
  <1>3. /\ processes[p].stage \in {"reconciling", "retaining", "done"}
        /\ d \in Dialogue /\ tombstone[d] # NoTombstone
    BY <1>1, <1>2 DEF Orderly, Condemned, ProcessState
  <1>4. holder = p
    BY <1>3, HolderOf DEF Unlocked
  <1>5. CASE files[d] = {}
    <2>1. processes' = [processes EXCEPT ![p].deleting = None] /\ UNCHANGED files
      BY <1>5 DEF Remove
    <2>2. /\ processes' \in [Process -> ProcessState] /\ Others(p)
          /\ processes'[p].stage = processes[p].stage
          /\ processes'[p].cohort = processes[p].cohort
          /\ processes'[p].deleting = None
          /\ processes'[p].handlers = processes[p].handlers
      BY <2>1 DEF IInv, Shape, ProcessState, Others
    <2>3. Bimodal(d)
      BY <1>3, <1>5 DEF Bimodal
    <2>4. processes[p].stage \in Settled => \A e \in Dialogue : Bimodal(e)
      BY <1>2, <2>3 DEF Orderly, KnowsSettled
    <2>5. ASSUME NEW e \in Dialogue
          PROVE  Bimodal(e)' = Bimodal(e) /\ Dying(e)'
      BY <1>1, <2>1 DEF Bimodal, Dying, IInv
    <2>6. Orderly(p)'
      BY <1>1, <1>2, <1>3, <1>4, <2>1, <2>2, <2>4, <2>5
         DEF Orderly, LockHeld, AdmittedAs, HandledInService, Condemned,
             KnowsSettled, Reachable, At
    <2>7. Shape'
      BY <1>1, <2>1, <2>2 DEF IInv, Shape
    <2> QED BY <1>4, <2>2, <2>5, <2>6, <2>7, HolderIsAlone
  <1>6. CASE files[d] # {}
    <2>1. UNCHANGED processes
      BY <1>6 DEF Remove
    <2>2. PICK f \in Removable(d) : files' = [files EXCEPT ![d] = @ \ {f}]
      BY <1>6 DEF Remove
    <2>3. Shape'
      BY <1>1, <1>3, <2>1, <2>2 DEF IInv, Shape
    <2>4. ASSUME NEW e \in Dialogue
          PROVE  Dying(e)'
      <3>1. CASE e = d
        <4>1. files'[d] = files[d] \ {f}
          BY <1>3, <2>2 DEF IInv, Shape
        <4>2. "manifest" \in files'[d] => Children \subseteq files'[d]
          BY <1>3, <4>1, RemovableSound DEF IInv, Dying
        <4> QED BY <1>1, <1>3, <3>1, <4>2 DEF IInv, Dying
      <3>2. CASE e # d
        BY <1>1, <2>2, <3>2 DEF IInv, Shape, Dying
      <3> QED BY <3>1, <3>2
    <2>5. ASSUME NEW e \in Dialogue, e # d, Bimodal(e)
          PROVE  Bimodal(e)'
      BY <1>1, <2>2, <2>5 DEF IInv, Shape, Bimodal
    <2>6. Orderly(p)'
      BY <1>1, <1>2, <1>3, <1>4, <2>1, <2>5
         DEF Orderly, LockHeld, AdmittedAs, HandledInService, Condemned,
             KnowsSettled, Reachable, At
    <2> QED BY <1>4, <2>1, <2>3, <2>4, <2>6, HolderIsAlone DEF Others
  <1> QED BY <1>5, <1>6

\* Recovery knows every dialogue settled when no tombstone is left to act on.
LEMMA ReconcileKeeps ==
  ASSUME IInv, NEW p \in Process, Reconcile(p)
  PROVE  IInv'
PROOF
  <1> USE DEF shared, code, disk
  <1>1. holder = p /\ Orderly(p) /\ processes[p] \in ProcessState
    BY HolderOf DEF Reconcile, At, Unlocked
  <1>2. processes[p].handlers = {}
    BY <1>1 DEF Reconcile, Orderly, HandledInService, At
  <1>3. CASE Unfinished = {}
    <2>1. To(p, "retaining") /\ "retaining" \in Stage
      BY <1>3 DEF Reconcile, Stage
    <2>2. /\ processes'[p].stage = "retaining"
          /\ processes'[p].cohort = processes[p].cohort
          /\ processes'[p].deleting = processes[p].deleting
          /\ processes'[p].handlers = processes[p].handlers
      BY <2>1, Moves DEF IInv
    <2>3. ASSUME NEW d \in Dialogue
          PROVE  Bimodal(d)'
      BY <1>3 DEF Reconcile, Unfinished, Bimodal, IInv, Dying
    <2>4. Orderly(p)'
      BY <1>1, <1>2, <2>2, <2>3
         DEF Reconcile, Orderly, LockHeld, AdmittedAs, HandledInService, Condemned,
             KnowsSettled, Reachable, At, Writing
    <2> QED BY <1>1, <2>1, <2>4, MovesKeeps DEF Reconcile, IInv, Shape
  <1>4. CASE Unfinished # {}
    <2>1. PICK d \in Unfinished : processes' = [processes EXCEPT ![p].deleting = d]
      BY <1>4 DEF Reconcile
    <2>2. d \in Dialogue /\ tombstone[d] # NoTombstone
      BY DEF Unfinished
    <2>3. /\ processes' \in [Process -> ProcessState] /\ Others(p)
          /\ processes'[p].stage = "reconciling"
          /\ processes'[p].cohort = processes[p].cohort
          /\ processes'[p].deleting = d
          /\ processes'[p].handlers = {}
      BY <1>2, <2>1, <2>2 DEF Reconcile, At, IInv, Shape, ProcessState, Others
    <2>4. Orderly(p)'
      BY <1>1, <2>2, <2>3
         DEF Reconcile, Orderly, LockHeld, AdmittedAs, HandledInService, Condemned,
             KnowsSettled, Reachable, At, Writing, Settled
    <2>5. Shape'
      BY <2>3 DEF Reconcile, IInv, Shape
    <2>6. \A e \in Dialogue : Dying(e)'
      BY DEF Reconcile, IInv, Dying
    <2> QED BY <1>1, <2>3, <2>4, <2>5, <2>6, HolderIsAlone
  <1> QED BY <1>3, <1>4

\* A dialogue that still has its manifest when nothing is half deleted is whole.
LEMMA CondemnKeeps ==
  ASSUME IInv, NEW p \in Process, NEW d \in Dialogue, NEW s \in {"retaining", "done"},
         Condemn(p, d, s), processes[p].deleting = None,
         processes[p].stage \in {"retaining", "commanded"},
         UNCHANGED <<shared, code, files, phase, clients>>
  PROVE  IInv'
PROOF
  <1> USE DEF shared, code
  <1>1. holder = p /\ Orderly(p) /\ processes[p] \in ProcessState
    BY HolderOf DEF Unlocked
  <1>2. processes[p].handlers = {}
    BY <1>1 DEF Orderly, HandledInService, At
  <1>3. \A e \in Dialogue : Bimodal(e)
    BY <1>1, NamesAssumption DEF Orderly, KnowsSettled, Settled
  <1>4. files[d] = Whole
    BY <1>3 DEF Condemn, Bimodal
  <1>5. tombstone' = [tombstone EXCEPT ![d] = Record]
    BY <1>4, FileNames DEF Condemn
  <1>6. /\ processes' \in [Process -> ProcessState] /\ Others(p)
        /\ processes'[p].stage = s
        /\ processes'[p].cohort = processes[p].cohort
        /\ processes'[p].deleting = d
        /\ processes'[p].handlers = {}
    <2> DEFINE half == [processes EXCEPT ![p].deleting = d]
    <2>1. /\ half \in [Process -> ProcessState]
          /\ \A q \in Process \ {p} : half[q] = processes[q]
          /\ half[p].stage = processes[p].stage /\ half[p].cohort = processes[p].cohort
          /\ half[p].deleting = d /\ half[p].handlers = {}
      BY <1>2 DEF IInv, Shape, ProcessState
    <2>2. processes' = [half EXCEPT ![p].stage = s]
      BY DEF Condemn
    <2> HIDE DEF half
    <2> QED BY <2>1, <2>2 DEF ProcessState, Stage, Others
  <1>7. ASSUME NEW e \in Dialogue
        PROVE  Bimodal(e)' /\ Dying(e)'
    <2>1. CASE e = d
      <3>1. tombstone'[d] = Record
        BY <1>5 DEF IInv, Shape
      <3> QED BY <1>4, <2>1, <3>1, FileNames DEF Bimodal, Dying, Condemn
    <2>2. CASE e # d
      BY <1>3, <1>5, <2>2 DEF Bimodal, Dying, IInv, Shape
    <2> QED BY <2>1, <2>2
  <1>8. tombstone'[d] # NoTombstone
    BY <1>5, FileNames DEF IInv, Shape
  <1>9. Orderly(p)'
    BY <1>1, <1>6, <1>7, <1>8
       DEF Orderly, LockHeld, AdmittedAs, HandledInService, Condemned,
           KnowsSettled, Reachable, At, Writing, Settled
  <1>10. Shape'
    BY <1>5, <1>6 DEF IInv, Shape
  <1> QED BY <1>1, <1>6, <1>7, <1>9, <1>10, HolderIsAlone

\* Moving on with nothing half deleted.
LEMMA MovesSettled ==
  ASSUME IInv, NEW p \in Process, NEW s \in {"binding", "commanded", "done"}, To(p, s),
         processes[p].stage \in {"retaining", "commanded"}, processes[p].deleting = None,
         UNCHANGED <<shared, code, disk, clients>>
  PROVE  IInv'
PROOF
  <1> USE DEF shared, code, disk
  <1>1. holder = p /\ Orderly(p) /\ processes[p] \in ProcessState
    BY HolderOf DEF Unlocked
  <1>2. s \in Stage
    BY DEF Stage
  <1>3. /\ processes'[p].stage = s
        /\ processes'[p].cohort = processes[p].cohort
        /\ processes'[p].deleting = processes[p].deleting
        /\ processes'[p].handlers = processes[p].handlers
    BY <1>2, Moves DEF IInv
  <1>4. processes[p].handlers = {}
    BY <1>1 DEF Orderly, HandledInService, At
  <1>5. ASSUME NEW e \in Dialogue
        PROVE  Bimodal(e)'
    BY <1>1, NamesAssumption DEF Orderly, KnowsSettled, Settled, Bimodal
  <1>6. Orderly(p)'
    BY <1>1, <1>3, <1>4, <1>5
       DEF Orderly, LockHeld, AdmittedAs, HandledInService, Condemned,
           KnowsSettled, Reachable, At, Writing, Settled
  <1> QED BY <1>1, <1>2, <1>6, MovesKeeps DEF IInv, Shape

LEMMA RetainKeeps ==
  ASSUME IInv, NEW p \in Process, Retain(p)
  PROVE  IInv'
PROOF
  <1>1. CASE \E d \in Dialogue : Condemn(p, d, "retaining")
    BY <1>1, CondemnKeeps DEF Retain, At
  <1>2. CASE To(p, IF Role(p, "daemon") THEN "binding" ELSE "commanded")
             /\ UNCHANGED tombstone
    BY <1>2, MovesSettled DEF Retain, At, disk
  <1> QED BY <1>1, <1>2 DEF Retain

LEMMA DeleteKeeps ==
  ASSUME IInv, NEW p \in Process, Delete(p)
  PROVE  IInv'
PROOF
  <1>1. CASE \E d \in Dialogue : Condemn(p, d, "done")
    BY <1>1, CondemnKeeps DEF Delete, At
  <1>2. CASE To(p, "done") /\ UNCHANGED tombstone
    BY <1>2, MovesSettled DEF Delete, At, disk
  <1> QED BY <1>1, <1>2 DEF Delete

-----------------------------------------------------------------------------
(* A daemon that serves, and every end.                                    *)

LEMMA CloseKeeps ==
  ASSUME IInv, NEW p \in Process, Close(p)
  PROVE  IInv'
PROOF
  <1>1. holder = p
    BY HolderOf DEF Close, At, Unlocked
  <1> QED BY <1>1, EndsKeeps DEF Close, IInv, Shape, code

LEMMA ServeKeeps ==
  ASSUME IInv, NEW p \in Process, Serve(p)
  PROVE  IInv'
PROOF
  <1> USE DEF code, disk
  <1>1. holder = p /\ Orderly(p) /\ processes[p] \in ProcessState
    BY HolderOf DEF Serve, At, Unlocked
  <1>2. To(p, "serving") /\ "serving" \in Stage
    BY DEF Serve, Stage
  <1>3. /\ processes'[p].stage = "serving"
        /\ processes'[p].cohort = processes[p].cohort
        /\ processes'[p].deleting = processes[p].deleting
    BY <1>2, Moves DEF IInv
  <1>4. processes[p].deleting = None
    BY <1>1 DEF Serve, At, Orderly, Condemned
  <1>5. ASSUME NEW e \in Dialogue
        PROVE  Bimodal(e)'
    BY <1>1, <1>4, NamesAssumption DEF Serve, At, Orderly, KnowsSettled, Settled, Bimodal
  <1>6. Orderly(p)'
    BY <1>1, <1>3, <1>4, <1>5
       DEF Serve, Orderly, LockHeld, AdmittedAs, HandledInService, Condemned,
           KnowsSettled, Reachable, At, Writing
  <1>7. clients' \in [Client -> ClientState]
    BY ToldShape DEF Serve, IInv
  <1> QED BY <1>1, <1>2, <1>6, <1>7, MovesKeeps DEF Serve, IInv, Shape

\* What a handler brings to its end is terminal from then on.
LEMMA HandlerEndsKeeps ==
  ASSUME IInv, NEW p \in Process, NEW c \in Client, HandlerEnds(p, c)
  PROVE  IInv'
PROOF
  <1> USE DEF shared, code
  <1>1. Orderly(p) /\ processes[p] \in ProcessState /\ processes[p].handlers # {}
    BY DEF IInv, Shape, HandlerEnds
  <1>2. At(p, "serving") \/ At(p, "draining")
    BY <1>1 DEF Orderly, HandledInService
  <1>3. holder = p
    BY <1>2, HolderOf DEF At, Unlocked
  <1>4. processes' = [processes EXCEPT ![p].handlers = @ \ {c}]
    BY DEF HandlerEnds
  <1>5. /\ processes' \in [Process -> ProcessState] /\ Others(p)
        /\ processes'[p].stage = processes[p].stage
        /\ processes'[p].cohort = processes[p].cohort
        /\ processes'[p].deleting = processes[p].deleting
    BY <1>4 DEF IInv, Shape, ProcessState, Others
  <1>6. ASSUME NEW d \in Dialogue
        PROVE  phase'[d] \in {phase[d], "terminal"}
    BY DEF HandlerEnds, IInv, Shape
  <1>7. phase' \in [Dialogue -> {"open", "terminal"}]
    BY DEF HandlerEnds, IInv, Shape
  <1>8. clients' \in [Client -> ClientState]
    BY DEF HandlerEnds, IInv, Shape, ClientState
  <1>9. Shape'
    BY <1>5, <1>7, <1>8 DEF HandlerEnds, IInv, Shape
  <1>10. \A d \in Dialogue : Dying(d)'
    BY <1>6 DEF HandlerEnds, IInv, Dying
  <1>11. Orderly(p)'
    BY <1>1, <1>2, <1>3, <1>5
       DEF HandlerEnds, Orderly, LockHeld, AdmittedAs, HandledInService, Condemned,
           KnowsSettled, Reachable, Bimodal, At
  <1> QED BY <1>3, <1>5, <1>9, <1>10, <1>11, HolderIsAlone

LEMMA StopKeeps ==
  ASSUME IInv, NEW p \in Process, Stop(p)
  PROVE  IInv'
PROOF
  <1> USE DEF shared, code, disk
  <1>1. holder = p /\ Orderly(p) /\ processes[p] \in ProcessState
    BY HolderOf DEF Stop, At, Unlocked
  <1>2. To(p, "draining") /\ "draining" \in Stage
    BY DEF Stop, Stage
  <1>3. /\ processes'[p].stage = "draining"
        /\ processes'[p].cohort = processes[p].cohort
        /\ processes'[p].deleting = processes[p].deleting
    BY <1>2, Moves DEF IInv
  <1>4. Orderly(p)'
    BY <1>1, <1>3
       DEF Stop, Orderly, LockHeld, AdmittedAs, HandledInService, Condemned,
           KnowsSettled, Reachable, Bimodal, At, Writing, Settled
  <1> QED BY <1>1, <1>2, <1>4, MovesKeeps DEF Stop, IInv, Shape

LEMMA DrainedKeeps ==
  ASSUME IInv, NEW p \in Process, Drained(p)
  PROVE  IInv'
PROOF
  <1> USE DEF code, disk
  <1>1. holder = p /\ Orderly(p) /\ processes[p] \in ProcessState
    BY HolderOf DEF Drained, At, Unlocked
  <1>2. To(p, "done") /\ "done" \in Stage
    BY DEF Drained, Stage
  <1>3. /\ processes'[p].stage = "done"
        /\ processes'[p].cohort = processes[p].cohort
        /\ processes'[p].deleting = processes[p].deleting
        /\ processes'[p].handlers = {}
    BY <1>2, Moves DEF IInv, Drained
  <1>4. processes[p].deleting = None
    BY <1>1 DEF Drained, Orderly, Condemned, At
  <1>5. Orderly(p)'
    BY <1>1, <1>3, <1>4
       DEF Drained, Orderly, LockHeld, AdmittedAs, HandledInService, Condemned,
           KnowsSettled, Reachable, At, Writing, Settled
  <1>6. socket' \in Process \cup {None}
    BY DEF Drained, IInv, Shape
  <1> QED BY <1>1, <1>2, <1>5, <1>6, MovesKeeps DEF Drained, IInv, Shape

\* A process may die before it has the lock too.
LEMMA CrashKeeps ==
  ASSUME IInv, NEW p \in Process, Crash(p)
  PROVE  IInv'
PROOF
  <1> USE DEF code, disk
  <1>1. Released(p) /\ UNCHANGED <<socket, code, disk>>
    BY DEF Crash
  <1>2. clients' \in [Client -> ClientState]
    BY DEF Crash, IInv, Shape, ClientState
  <1>3. CASE holder = p
    BY <1>1, <1>2, <1>3, EndsKeeps DEF IInv, Shape
  <1>4. CASE holder # p
    <2>1. /\ processes' \in [Process -> ProcessState] /\ Others(p) /\ Orderly(p)'
          /\ UNCHANGED holder
      BY <1>1, <1>4, Ends DEF Released
    <2>2. Shape'
      BY <1>1, <1>2, <2>1 DEF IInv, Shape
    <2> QED BY <1>1, <2>1, <2>2, IdleConcernsNobody
  <1> QED BY <1>3, <1>4

-----------------------------------------------------------------------------
(* The theorems.                                                           *)

LEMMA InitInvariant == Init => IInv
PROOF
  <1> SUFFICES ASSUME Init PROVE IInv
    OBVIOUS
  <1>1. processes \in [Process -> ProcessState]
    BY OffIsProcess DEF Init
  <1>2. clients \in [Client -> ClientState]
    BY DEF Init, ClientState
  <1>3. Shape
    BY <1>1, <1>2 DEF Init, Shape
  <1>4. ASSUME NEW p \in Process
        PROVE  Orderly(p)
    BY DEF Init, Off, Orderly, LockHeld, AdmittedAs, HandledInService, Condemned,
           KnowsSettled, Reachable, At, Unlocked, Writing, Settled
  <1>5. ASSUME NEW d \in Dialogue
        PROVE  Dying(d)
    BY FileNames DEF Init, Dying
  <1> QED BY <1>3, <1>4, <1>5 DEF IInv

LEMMA NextInvariant == IInv /\ [Next]_vars => IInv'
PROOF
  <1> SUFFICES ASSUME IInv, [Next]_vars PROVE IInv'
    OBVIOUS
  <1>1. ASSUME NEW c \in Client,
               Want(c) \/ AskServed(c) \/ Launch(c) \/ GiveUp(c) \/ ClientDies(c)
        PROVE  IInv'
    BY <1>1, ClientSteps, LaunchKeeps
  <1>2. ASSUME NEW p \in Process, NEW role \in {"delete", "update"}, Command(p, role)
        PROVE  IInv'
    BY <1>2, CommandKeeps
  <1>3. ASSUME NEW p \in Process,
               \/ Acquire(p) \/ Admit(p) \/ Update(p) \/ Clear(p) \/ Rewrite(p)
               \/ Remove(p) \/ Reconcile(p) \/ Retain(p) \/ Delete(p) \/ Close(p)
               \/ Serve(p) \/ Stop(p) \/ Drained(p) \/ Crash(p)
        PROVE  IInv'
    BY <1>3, AcquireKeeps, AdmitKeeps, UpdateKeeps, ClearKeeps, RewriteKeeps, RemoveKeeps,
       ReconcileKeeps, RetainKeeps, DeleteKeeps, CloseKeeps, ServeKeeps, StopKeeps,
       DrainedKeeps, CrashKeeps
  <1>4. ASSUME NEW p \in Process, NEW c \in Client, HandlerEnds(p, c)
        PROVE  IInv'
    BY <1>4, HandlerEndsKeeps
  <1>5. CASE UNCHANGED vars
    <2>1. Shape' /\ \A p \in Process : processes'[p] = processes[p]
      BY <1>5 DEF vars, shared, code, disk, IInv, Shape
    <2> QED BY <1>5, <2>1, SameOrder DEF vars, shared, code, disk
  <1> QED BY <1>1, <1>2, <1>3, <1>4, <1>5 DEF Next

\* Every process is orderly and every dialogue dies in order, always.
THEOREM LifetimeInvariant == Spec => []IInv
PROOF BY InitInvariant, NextInvariant, PTL DEF Spec

\* A broker that serves is reachable until it stops, however many of them start,
\* lose the race, die or stop late.
THEOREM ServerAlwaysReachable == Spec => []ServerReachable
PROOF
  <1>1. IInv => ServerReachable
    <2> SUFFICES ASSUME IInv, NEW p \in Process, At(p, "serving")
                 PROVE  socket = p /\ holder = p
      BY DEF ServerReachable
    <2>1. Orderly(p)
      BY DEF IInv
    <2> QED BY <2>1 DEF Orderly, Reachable, LockHeld, At, Unlocked
  <1> QED BY <1>1, LifetimeInvariant, PTL

\* Deletions are sound however often they are interrupted, and whichever process
\* finishes them: only terminal dialogues lose anything, in an order in which nobody
\* reads a manifest whose files are going, and a broker that serves finds every
\* dialogue whole or gone.
THEOREM DeletionAlwaysSound == Spec => []DeletionSound
PROOF
  <1>1. IInv => DeletionSound
    <2> SUFFICES ASSUME IInv PROVE DeletionSound
      OBVIOUS
    <2>1. TypeOK
      BY DEF IInv, Shape, TypeOK, ProcessState, ClientState
    <2>2. ASSUME NEW d \in Dialogue
          PROVE  /\ (phase[d] = "open" \/ tombstone[d] = NoTombstone) => files[d] = Whole
                 /\ "manifest" \in files[d] => Children \subseteq files[d]
                 /\ tombstone[d] # NoTombstone => Record \ files[d] \subseteq tombstone[d]
      BY DEF IInv, Dying
    <2>3. ASSUME NEW p \in Process, At(p, "serving"), NEW d \in Dialogue
          PROVE  Bimodal(d)
      <3>1. Orderly(p)
        BY DEF IInv
      <3>2. processes[p].deleting = None
        BY <2>3, <3>1 DEF Orderly, Condemned, At
      <3> QED BY <2>3, <3>1, <3>2, NamesAssumption DEF Orderly, KnowsSettled, At, Settled
    <2> QED BY <2>1, <2>2, <2>3 DEF DeletionSound
  <1> QED BY <1>1, LifetimeInvariant, PTL

\* Whoever is past its admission writes as the code that is admitted now.
LEMMA WriterIsAdmitted ==
  ASSUME IInv, NEW p \in Process, processes[p].stage \in Writing
  PROVE  holder = p /\ processes[p].cohort = admission
PROOF
  <1>1. Orderly(p) /\ processes[p].stage \notin Unlocked
    BY DEF IInv, Writing, Unlocked
  <1> QED BY <1>1 DEF Orderly, LockHeld, AdmittedAs

\* No step writes a dialogue but under the lock and as the admission says, though
\* the code is replaced, or half replaced, while other processes start and wait.
THEOREM AlwaysWrittenAsAdmitted == Spec => WrittenAsAdmitted
PROOF
  <1>1. ASSUME IInv, [Next]_vars, disk' # disk
        PROVE  \E p \in Process : holder = p /\ processes[p].cohort = admission
    <2>1. ASSUME NEW p \in Process, Remove(p) \/ Retain(p) \/ Delete(p)
          PROVE  processes[p].stage \in Writing
      <3>1. CASE Remove(p)
        <4>1. Orderly(p) /\ processes[p].deleting # None
          BY <1>1, <3>1 DEF IInv, Remove
        <4> QED BY <4>1 DEF Orderly, Condemned, Writing
      <3> QED BY <2>1, <3>1 DEF Retain, Delete, At, Writing
    <2>2. ASSUME NEW p \in Process, NEW c \in Client, HandlerEnds(p, c)
          PROVE  processes[p].stage \in Writing
      <3>1. Orderly(p) /\ processes[p].handlers # {}
        BY <1>1, <2>2 DEF IInv, HandlerEnds
      <3> QED BY <3>1 DEF Orderly, HandledInService, At, Writing
    <2>3. \A c \in Client :
            ~(Want(c) \/ AskServed(c) \/ Launch(c) \/ GiveUp(c) \/ ClientDies(c))
      BY <1>1 DEF Want, AskServed, Launch, GiveUp, ClientDies, disk
    <2>4. ASSUME NEW p \in Process
          PROVE  /\ \A role \in {"delete", "update"} : ~Command(p, role)
                 /\ ~(\/ Acquire(p) \/ Admit(p) \/ Update(p) \/ Clear(p) \/ Rewrite(p)
                      \/ Reconcile(p) \/ Close(p) \/ Serve(p) \/ Stop(p)
                      \/ Drained(p) \/ Crash(p))
      BY <1>1 DEF Command, Acquire, Admit, Update, Clear, Rewrite, Reconcile, Close, Serve,
                  Stop, Drained, Crash, disk
    <2>5. ~UNCHANGED vars
      BY <1>1 DEF vars
    <2>6. \E p \in Process : processes[p].stage \in Writing
      BY <1>1, <2>1, <2>2, <2>3, <2>4, <2>5 DEF Next
    <2> QED BY <1>1, <2>6, WriterIsAdmitted
  <1> QED BY <1>1, LifetimeInvariant, PTL DEF Spec, WrittenAsAdmitted
=============================================================================
