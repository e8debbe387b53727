--------------------------- MODULE BrokerLifetime ---------------------------
(***************************************************************************)
(* The processes that come and go over one state root: broker daemons,     *)
(* each started by a client that found none (run_daemon and CouncilClient  *)
(* of council.py), the offline command that deletes a dialogue, and the    *)
(* lifecycle tool that replaces the installed code.                        *)
(*                                                                         *)
(* They meet in four places.  The lock of broker.lock, which dies with its *)
(* process; the socket, which does not; the admission, which says whose    *)
(* code may write (council_admission.py); and the dialogues, from which a  *)
(* deletion removes one file after another, behind a tombstone that lets   *)
(* the next process finish what this one began.                            *)
(***************************************************************************)
EXTENDS Naturals, FiniteSets

CONSTANTS
  Process,      \* processes that may exist at one time
  Client,       \* runtimes that call the broker and start it
  Dialogue,
  Record,       \* outbox records of a dialogue
  Old, New,     \* cohorts: two versions of the code
  MaxHandlers,  \* requests that a broker serves at one time
  MaxCommands,  \* bound on offline commands
  MaxFaults     \* bound on deaths of processes and clients, and on signals

ASSUME LifetimeAssumption == Old # New /\ MaxHandlers \in Nat \ {0}

VARIABLES
  holder,     \* the process that has the lock
  recorded,   \* the lock file says whose it was
  socket,     \* the process whose socket has the path
  admission,  \* the cohort that is committed, or "recovery"
  installed,  \* the cohort of the installed code
  files,      \* the files of each dialogue that exist, its records included
  phase,      \* its phase, by the manifest
  tombstone,  \* the records that its tombstone names
  processes,  \* the state of each process
  clients,    \* the state of each client
  commands, faults

shared == <<holder, recorded, socket>>
code == <<admission, installed>>
disk == <<files, phase, tombstone>>
vars == <<shared, code, disk, processes, clients, commands, faults>>

-----------------------------------------------------------------------------
None == "none"
NoTombstone == {"no tombstone"}
Recovery == "recovery"

\* What the directory of a dialogue holds beside its manifest.
Children == {"audit", "final"}
Whole == {"directory", "manifest"} \cup Children \cup Record

\* Outbox records are not named like the other files, nor like what stands for
\* the absence of something.
ASSUME NamesAssumption ==
  /\ None \notin Process \cup Client \cup Dialogue
  /\ Recovery \notin {Old, New}
  /\ Record \cap (Children \cup {"directory", "manifest", "no tombstone"}) = {}

Off == [stage |-> "off", role |-> "daemon", cohort |-> Old, launcher |-> None,
        orphan |-> FALSE, deleting |-> None, handlers |-> {}]

Init ==
  /\ holder = None /\ recorded = FALSE /\ socket = None
  /\ admission = Old /\ installed = Old
  /\ files = [d \in Dialogue |-> Whole]
  /\ phase = [d \in Dialogue |-> "open"]
  /\ tombstone = [d \in Dialogue |-> NoTombstone]
  /\ processes = [p \in Process |-> Off]
  /\ clients = [c \in Client |-> [state |-> "idle", child |-> None, cohort |-> Old]]
  /\ commands = 0 /\ faults = 0

At(p, stage) == processes[p].stage = stage
To(p, stage) == processes' = [processes EXCEPT ![p].stage = stage]
Role(p, role) == processes[p].role = role

Fault == faults < MaxFaults /\ faults' = faults + 1

\* The client still waits for the status of the process.
Awaited(c, p) == clients[c].state = "launching" /\ clients[c].child = p

\* The client that waits for the status of the process, if any, gets one.
Told(p, state) ==
  clients' = [c \in Client |->
    IF Awaited(c, p) THEN [clients[c] EXCEPT !.state = state] ELSE clients[c]]

-----------------------------------------------------------------------------
(* Clients.                                                                *)

\* One that was refused waits for somebody to see to the installation.
Want(c) ==
  /\ clients[c].state = "idle"
  /\ clients' = [clients EXCEPT ![c].state = "asking"]
  /\ UNCHANGED <<shared, code, disk, processes, commands, faults>>

\* A connection to the socket is accepted by the process that listens on it.
Listening(p) == socket = p /\ At(p, "serving")

Full(p) == Cardinality(processes[p].handlers) >= MaxHandlers

SameCohort(c, p) == processes[p].cohort = clients[c].cohort

AskServed(c) ==
  /\ clients[c].state = "asking"
  /\ \E p \in Process :
       /\ Listening(p) /\ ~Full(p)
       /\ IF SameCohort(c, p)
          THEN /\ clients' = [clients EXCEPT ![c].state = "served"]
               /\ processes' = [processes EXCEPT ![p].handlers = @ \cup {c}]
          ELSE /\ clients' = [clients EXCEPT ![c].state = "refused"]
               /\ UNCHANGED processes
  /\ UNCHANGED <<shared, code, disk, commands, faults>>

\* ensure_daemon: nobody answered, so a daemon is started and its status awaited.
Launch(c) ==
  /\ clients[c].state = "asking"
  /\ \A p \in Process : Listening(p) => Full(p)
  /\ \E p \in Process :
       /\ At(p, "off")
       /\ processes' = [processes EXCEPT ![p] =
            [Off EXCEPT !.stage = "begun", !.cohort = installed, !.launcher = c]]
       /\ clients' = [clients EXCEPT ![c].state = "launching", ![c].child = p]
  /\ UNCHANGED <<shared, code, disk, commands, faults>>

\* The status did not come in time, from a process that has much to do once it is
\* admitted; the process goes on.
GiveUp(c) ==
  /\ clients[c].state = "launching"
  /\ \A p \in Process : Awaited(c, p) => ~At(p, "begun") /\ ~At(p, "locked")
  /\ clients' = [clients EXCEPT ![c].state = "asking"]
  /\ UNCHANGED <<shared, code, disk, processes, commands, faults>>

\* A runtime ends; one that takes its place has loaded the installed code.
ClientDies(c) ==
  /\ Fault
  /\ clients' = [clients EXCEPT ![c] = [state |-> "idle", child |-> None,
                                       cohort |-> installed]]
  /\ processes' = [p \in Process |->
       [processes[p] EXCEPT !.orphan = @ \/ processes[p].launcher = c,
                            !.handlers = @ \ {c}]]
  /\ UNCHANGED <<shared, code, disk, commands>>

-----------------------------------------------------------------------------
(* Every writer: the lock, and then the admission.                         *)

Command(p, role) ==
  /\ At(p, "off") /\ commands < MaxCommands
  /\ commands' = commands + 1
  /\ processes' = [processes EXCEPT ![p] =
       [Off EXCEPT !.stage = "begun", !.role = role, !.cohort = installed]]
  /\ UNCHANGED <<shared, code, disk, clients, faults>>

\* Mutant: the lock of another process does not exclude this one.
Lockable_Shared(p) == TRUE

Lockable(p) == holder = None

\* acquire_writer_lease.
Acquire(p) ==
  /\ At(p, "begun")
  /\ IF Lockable(p)
     THEN holder' = p /\ To(p, "locked") /\ UNCHANGED clients
     ELSE /\ processes' = [processes EXCEPT ![p] = Off]
          /\ Told(p, "asking") /\ UNCHANGED holder
  /\ UNCHANGED <<recorded, socket, code, disk, commands, faults>>

\* Mutant: any committed cohort will do.
Admitted_Any(p) == admission # Recovery

Admitted(p) == admission = processes[p].cohort

Released(p) ==
  /\ holder' = IF holder = p THEN None ELSE holder
  /\ processes' = [processes EXCEPT ![p] = Off]

\* Mutant: the lock file is emptied before the socket is removed.
StartOrder_EmptiedFirst == [locked |-> "truncating", truncating |-> "clearing",
                            clearing |-> "recording", recording |-> "reconciling"]

StartOrder == [locked |-> "clearing", clearing |-> "truncating",
               truncating |-> "recording", recording |-> "reconciling"]

\* admit_runtime_writer, under the lock.
Admit(p) ==
  /\ At(p, "locked") /\ ~Role(p, "update")
  /\ IF Admitted(p)
     THEN /\ To(p, IF Role(p, "daemon") THEN StartOrder["locked"] ELSE "reconciling")
          /\ UNCHANGED <<holder, clients>>
     ELSE Released(p) /\ Told(p, "refused")
  /\ UNCHANGED <<recorded, socket, code, disk, commands, faults>>

\* An update: the admission is pending while the code is replaced.
Update(p) ==
  /\ Role(p, "update")
  /\ \/ /\ At(p, "locked") /\ admission' = Recovery /\ To(p, "pending")
        /\ UNCHANGED <<holder, installed>>
     \/ /\ At(p, "pending") /\ installed' \in {Old, New} \ {installed} /\ To(p, "installed")
        /\ UNCHANGED <<holder, admission>>
     \/ /\ At(p, "installed") /\ admission' = installed /\ Released(p)
        /\ UNCHANGED installed
  /\ UNCHANGED <<recorded, socket, disk, clients, commands, faults>>

-----------------------------------------------------------------------------
(* The start of a daemon: the socket that a dead one left is removed if    *)
(* the lock file shows that it was a broker's, then the file is emptied    *)
(* and written anew.                                                       *)

Begun(p, stage) == At(p, stage) /\ To(p, StartOrder[stage])

Clear(p) ==
  /\ At(p, "clearing")
  /\ IF socket # None /\ ~recorded
     THEN Released(p) /\ Told(p, "asking") /\ UNCHANGED socket
     ELSE Begun(p, "clearing") /\ socket' = None /\ UNCHANGED <<holder, clients>>
  /\ UNCHANGED <<recorded, code, disk, commands, faults>>

Rewrite(p) ==
  /\ \/ Begun(p, "truncating") /\ recorded' = FALSE
     \/ Begun(p, "recording") /\ recorded' = TRUE
  /\ UNCHANGED <<holder, socket, code, disk, clients, commands, faults>>

-----------------------------------------------------------------------------
(* _initialize: deletions are finished, then retention begins others.      *)

\* _complete_tombstoned_deletion: what it removes next.
Removable(d) ==
  IF files[d] \cap Record # {} THEN files[d] \cap Record
  ELSE IF "manifest" \in files[d] THEN {"manifest"}
  ELSE IF files[d] \cap Children # {} THEN files[d] \cap Children
  ELSE {"directory"}

Remove(p) ==
  LET d == processes[p].deleting IN
  /\ d # None
  /\ IF files[d] = {}
     THEN processes' = [processes EXCEPT ![p].deleting = None] /\ UNCHANGED files
     ELSE /\ \E f \in Removable(d) : files' = [files EXCEPT ![d] = @ \ {f}]
          /\ UNCHANGED processes
  /\ UNCHANGED <<shared, code, phase, tombstone, clients, commands, faults>>

\* Mutant: deletions are looked for among the dialogues that have a manifest.
Unfinished_Listed ==
  {d \in Dialogue : tombstone[d] # NoTombstone /\ "manifest" \in files[d]}

Unfinished == {d \in Dialogue : tombstone[d] # NoTombstone /\ files[d] # {}}

Reconcile(p) ==
  /\ At(p, "reconciling") /\ processes[p].deleting = None
  /\ IF Unfinished = {}
     THEN To(p, "retaining")
     ELSE \E d \in Unfinished : processes' = [processes EXCEPT ![p].deleting = d]
  /\ UNCHANGED <<shared, code, disk, clients, commands, faults>>

\* delete_terminal_dialogue, to where its tombstone is written.
Condemn(p, d, stage) ==
  /\ "manifest" \in files[d] /\ phase[d] = "terminal"
  /\ tombstone' = [tombstone EXCEPT ![d] = files[d] \cap Record]
  /\ processes' = [processes EXCEPT ![p].deleting = d, ![p].stage = stage]

\* The clock and retention.json decide which dialogues are old enough.
Retain(p) ==
  /\ At(p, "retaining") /\ processes[p].deleting = None
  /\ \/ \E d \in Dialogue : Condemn(p, d, "retaining")
     \/ /\ To(p, IF Role(p, "daemon") THEN "binding" ELSE "commanded")
        /\ UNCHANGED tombstone
  /\ UNCHANGED <<shared, code, files, phase, clients, commands, faults>>

\* The delete command, and the end of its broker.
Delete(p) ==
  /\ At(p, "commanded") /\ processes[p].deleting = None
  /\ \/ \E d \in Dialogue : Condemn(p, d, "done")
     \/ (\E d \in Dialogue : ~("manifest" \in files[d] /\ phase[d] = "terminal"))
        /\ To(p, "done") /\ UNCHANGED tombstone
  /\ UNCHANGED <<shared, code, files, phase, clients, commands, faults>>

Close(p) ==
  /\ At(p, "done") /\ processes[p].deleting = None
  /\ Released(p)
  /\ UNCHANGED <<recorded, socket, code, disk, clients, commands, faults>>

-----------------------------------------------------------------------------
(* A daemon that serves, and its end.                                      *)

Serve(p) ==
  /\ At(p, "binding")
  /\ socket' = p /\ To(p, "serving") /\ Told(p, "asking")
  /\ UNCHANGED <<holder, recorded, code, disk, commands, faults>>

\* A handler ends; it may have brought a dialogue to its end.
HandlerEnds(p, c) ==
  /\ c \in processes[p].handlers
  /\ processes' = [processes EXCEPT ![p].handlers = @ \ {c}]
  /\ clients' = [clients EXCEPT ![c].state = "idle"]
  /\ \/ UNCHANGED phase
     \/ \E d \in Dialogue : /\ "manifest" \in files[d]
                            /\ phase' = [phase EXCEPT ![d] = "terminal"]
  /\ UNCHANGED <<shared, code, files, tombstone, commands, faults>>

Stop(p) ==
  /\ At(p, "serving")
  /\ \/ processes[p].orphan /\ UNCHANGED faults    \* stop_if_launcher_dies
     \/ Fault                                      \* a signal
  /\ To(p, "draining")
  /\ UNCHANGED <<shared, code, disk, clients, commands>>

\* server_close waits for the handlers.
Drained(p) ==
  /\ At(p, "draining") /\ processes[p].handlers = {}
  /\ socket' = IF socket = p THEN None ELSE socket
  /\ To(p, "done")
  /\ UNCHANGED <<holder, recorded, code, disk, clients, commands, faults>>

\* A process dies, or stops because a file cannot be written or removed.
Crash(p) ==
  /\ ~At(p, "off") /\ Fault
  /\ Released(p)
  /\ clients' = [c \in Client |->
       IF \/ c \in processes[p].handlers
          \/ Awaited(c, p)
       THEN [clients[c] EXCEPT !.state = "asking"] ELSE clients[c]]
  /\ UNCHANGED <<recorded, socket, code, disk, commands>>

-----------------------------------------------------------------------------
Next ==
  \/ \E c \in Client : Want(c) \/ AskServed(c) \/ Launch(c) \/ GiveUp(c) \/ ClientDies(c)
  \/ \E p \in Process :
       \/ \E role \in {"delete", "update"} : Command(p, role)
       \/ Acquire(p) \/ Admit(p) \/ Update(p) \/ Clear(p) \/ Rewrite(p)
       \/ Remove(p) \/ Reconcile(p) \/ Retain(p) \/ Delete(p) \/ Close(p)
       \/ Serve(p) \/ Stop(p) \/ Drained(p) \/ Crash(p)
       \/ \E c \in Client : HandlerEnds(p, c)

Spec == Init /\ [][Next]_vars

\* What a process does when nothing disturbs it.
Advance(p) ==
  \/ Acquire(p) \/ Admit(p) \/ Update(p) \/ Clear(p) \/ Rewrite(p)
  \/ Remove(p) \/ Reconcile(p) \/ Retain(p) \/ Delete(p) \/ Close(p)
  \/ Serve(p) \/ Drained(p)
  \/ processes[p].orphan /\ Stop(p)
  \/ \E c \in Client : HandlerEnds(p, c)

\* Processes and their handlers go on.  A client asks again until it is told
\* something, and when there is a place for its request again and again it
\* gets one.
FairSpec ==
  /\ Spec
  /\ \A p \in Process : WF_vars(Advance(p))
  /\ \A c \in Client : WF_vars(Launch(c)) /\ SF_vars(AskServed(c))

-----------------------------------------------------------------------------
(* Properties                                                              *)

TypeOK ==
  /\ {holder, socket} \subseteq Process \cup {None}
  /\ admission \in {Old, New, Recovery} /\ installed \in {Old, New}
  /\ files \in [Dialogue -> SUBSET Whole]
  /\ phase \in [Dialogue -> {"open", "terminal"}]
  /\ \A d \in Dialogue : tombstone[d] = NoTombstone \/ tombstone[d] \subseteq Record
  /\ \A p \in Process :
       /\ processes[p].deleting \in Dialogue \cup {None}
       /\ processes[p].handlers \subseteq Client
       /\ processes[p].cohort \in {Old, New}
  /\ \A c \in Client :
       clients[c].state \in {"idle", "asking", "launching", "served", "refused"}

\* The two outcomes of a deletion (verification-map.md, I4).
Bimodal(d) == files[d] = Whole \/ (tombstone[d] # NoTombstone /\ files[d] = {})

\* However often a deletion is interrupted, by whichever process: only a terminal
\* dialogue loses anything; nobody can read a manifest whose files are going; the
\* tombstone names every record that is gone; and no broker serves before every
\* dialogue is whole or gone.
DeletionSound ==
  /\ TypeOK
  /\ \A d \in Dialogue :
       /\ (phase[d] = "open" \/ tombstone[d] = NoTombstone) => files[d] = Whole
       /\ "manifest" \in files[d] => Children \subseteq files[d]
       /\ tombstone[d] # NoTombstone => Record \ files[d] \subseteq tombstone[d]
  /\ (\E p \in Process : At(p, "serving")) => \A d \in Dialogue : Bimodal(d)

\* A broker that serves can be reached until it stops: its socket is neither
\* removed nor replaced by one that starts, loses the race, dies or stops late.
ServerReachable ==
  \A p \in Process : At(p, "serving") => socket = p /\ holder = p

\* State is only written by code that the admission names at that moment, though
\* the code is replaced, and broken off half-way, while brokers start and wait.
WrittenAsAdmitted ==
  [][disk' # disk => \E p \in Process : holder = p /\ processes[p].cohort = admission]_vars

\* A client that asks is served, or told to have the installation seen to, or finds
\* every place taken, whatever the processes before it left behind.
EventuallyServed ==
  \A c \in Client :
    clients[c].state = "asking"
      ~> \/ clients[c].state \in {"idle", "served", "refused"}
         \/ \E p \in Process : Listening(p) /\ Full(p)
=============================================================================
