--------------------------- MODULE SessionDelivery ---------------------------
(***************************************************************************)
(* How one participant that runs in OpenCode sessions is bound to the      *)
(* broker and gets its messages: the plugin (opencode_council_plugin.ts    *)
(* with opencode_delivery_registry.ts), its one-shot bridge and client,    *)
(* and bind, unbind, retry and delivery in council.py.                     *)
(*                                                                         *)
(* The plugin and the broker share no memory.  A tool call of a session    *)
(* awaits the broker twice, once to see that it is there and once for the  *)
(* answer, and other calls run in between; an answer may be lost, and a    *)
(* request whose caller gave up may still be handled.  A session proves    *)
(* who it is by a capability that only the plugin keeps in the clear, so   *)
(* the plugin must not forget the one the broker holds.  The broker        *)
(* delivers under its lock, by a request to the relay of the plugin, and   *)
(* gives up after a while: the plugin must tell a message it is asked to   *)
(* post again from a new one.                                              *)
(***************************************************************************)
EXTENDS Naturals

CONSTANTS
  Session,     \* the sessions of one OpenCode process
  Message,     \* messages to the participant
  BindCall,    \* tool calls that may run at one time, by what they do
  AuthCall,
  SessionOf,   \* the session of each call
  Capabilities, \* bound on the capabilities that somebody holds at one time
  MaxFaults    \* bound on crashes, exceptions, lost answers and failed posts

Call == BindCall \cup AuthCall

NoCap == 0
NoCall == "none"

ASSUME CallAssumption ==
  /\ Session # {} /\ SessionOf \in [Call -> Session]
  /\ BindCall \cap AuthCall = {} /\ NoCall \notin Call
ASSUME BoundsAssumption == {Capabilities, MaxFaults} \subseteq Nat

VARIABLES
  \* the plugin
  bindings,      \* the confirmed capability of each session
  pendings,      \* its pending rotation
  registry,      \* its delivery state
  posts,         \* posts to sessions that have not ended
  calls,         \* its running tool calls
  \* the broker
  registration,  \* the registration of the participant, in memory
  route,         \* and in its file
  records,       \* the status of each message in the outbox
  answered,      \* messages whose response is recorded
  handler,       \* the handler that holds the lock
  late,          \* requests whose caller has given up
  \* history
  landed,        \* how often a message reached a session, since it last moved
  seen,          \* the messages each session has ever got
  served,        \* the last bind that was accepted ran to its end
  lapsed,        \* sessions whose delivery state expired while they were attached
  faults

plugin == <<bindings, pendings, registry, posts>>
broker == <<registration, route, records, answered>>
history == <<landed, seen, served, lapsed>>
vars == <<plugin, calls, broker, handler, late, history, faults>>

-----------------------------------------------------------------------------
\* present says what retain found: whether there was a delivery state already.
NoPending == [cap |-> NoCap, previous |-> NoCap, uncertain |-> FALSE,
              present |-> "unasked"]

NoState == [known |-> FALSE, delivered |-> {}, inflight |-> {},
            clearWhenIdle |-> FALSE]

NoCallYet == [stage |-> "none", action |-> "bind", cap |-> NoCap,
              previous |-> NoCap, answer |-> "none"]

\* ready: the relay capability is known, which is not written to the file.
NotBound == [session |-> CHOOSE s \in Session : TRUE, cap |-> NoCap,
             ready |-> FALSE]

Idle == [pc |-> "idle", call |-> NoCall, action |-> "none", todo |-> {}]

Bound == registration.cap # NoCap

Init ==
  /\ bindings = [s \in Session |-> NoCap]
  /\ pendings = [s \in Session |-> NoPending]
  /\ registry = [s \in Session |-> NoState]
  /\ posts = {}
  /\ calls = [c \in Call |-> NoCallYet]
  /\ registration = NotBound /\ route = NotBound
  /\ records = [m \in Message |-> "absent"] /\ answered = {}
  /\ handler = Idle /\ late = {}
  /\ landed = [s \in Session |-> [m \in Message |-> 0]]
  /\ seen = [s \in Session |-> {}] /\ served = FALSE /\ lapsed = {}
  /\ faults = 0

Fault == faults < MaxFaults /\ faults' = faults + 1

-----------------------------------------------------------------------------
(* The delivery registry of the plugin.  A post goes on after its state is *)
(* discarded, and no longer counts for the one that takes its place.       *)

\* Mutant: the session starts again with nothing delivered.
Retained_Anew(state) == [NoState EXCEPT !.known = TRUE]

Retained(state) == [state EXCEPT !.known = TRUE, !.clearWhenIdle = FALSE]

Cleared(state) == [state EXCEPT !.clearWhenIdle = state.known]

Orphaned(sessions) == {[p EXCEPT !.live = @ /\ p.session \notin sessions] : p \in posts}

\* Mutant: a post that failed is still in flight.
AfterPost_Stuck(state, m, ok) ==
  IF ok THEN [state EXCEPT !.delivered = @ \cup {m}, !.inflight = @ \ {m}] ELSE state

AfterPost(state, m, ok) ==
  [state EXCEPT !.delivered = IF ok THEN @ \cup {m} ELSE @, !.inflight = @ \ {m}]

\* deliver, of a message that is not delivered yet: a post that is on its way is
\* joined.
Posted(s, m) ==
  /\ registry' = [registry EXCEPT ![s].known = TRUE, ![s].inflight = @ \cup {m}]
  /\ posts' = IF m \in registry[s].inflight
              THEN {[p EXCEPT !.awaited = @ \/ (p.live /\ p.session = s /\ p.message = m)] :
                      p \in posts}
              ELSE posts \cup {[session |-> s, message |-> m, live |-> TRUE,
                               awaited |-> TRUE]}

-----------------------------------------------------------------------------
(* Tool calls of the sessions.                                             *)

Ended(c) == [calls EXCEPT ![c] = NoCallYet]

\* pending.inFlight: the running calls of a pending rotation.
InFlight(cap, running) ==
  {c \in BindCall : running[c].stage # "none" /\ running[c].cap = cap}

HasBinding(s) == bindings[s] # NoCap

\* Mutant: a rotation that is on its way is forgotten.
Overtaken_Never(s) == FALSE

\* A rotation is on its way that may still be committed.
Overtaken(s) == pendings[s].cap # NoCap /\ InFlight(pendings[s].cap, calls) # {}

\* Five minutes after the session was detached and its last post ended; or after it
\* was told that it is not bound, though a bind that was on its way attached it again.
ExpireState(s) ==
  /\ registry[s].known /\ registry[s].clearWhenIdle /\ registry[s].inflight = {}
  /\ registry' = [registry EXCEPT ![s] = NoState]
  /\ landed' = [landed EXCEPT ![s] = [m \in Message |-> 0]]
  /\ lapsed' = IF HasBinding(s) \/ Overtaken(s) THEN lapsed \cup {s} ELSE lapsed
  /\ UNCHANGED <<bindings, pendings, posts, calls, broker, handler, late, seen, served, faults>>

\* A new capability is one that nobody holds any more.
Held ==
  {registration.cap, route.cap} \cup {bindings[s] : s \in Session}
    \cup (UNION {{r.cap, r.previous} : r \in late})
    \cup (UNION {{pendings[s].cap, pendings[s].previous} : s \in Session})
    \cup (UNION {{calls[c].cap, calls[c].previous} : c \in Call})

Fresh == (1..Capabilities) \ Held

New == CHOOSE cap \in Fresh : TRUE

BeginBind(c) ==
  LET s == SessionOf[c]
      new == pendings[s].cap = NoCap
      pending == IF new THEN [NoPending EXCEPT !.cap = New, !.previous = bindings[s]]
                 ELSE pendings[s]
  IN  /\ c \in BindCall /\ calls[c].stage = "none"
      /\ new => Fresh # {}
      /\ pendings' = [pendings EXCEPT ![s] = pending]
      /\ calls' = [calls EXCEPT ![c] = [NoCallYet EXCEPT
                     !.stage = "begun", !.cap = pending.cap,
                     !.previous = pending.previous]]
      /\ UNCHANGED <<bindings, registry, posts, broker, handler, late, history, faults>>

\* deliveryStateWasPresent, once it is set.
PresentAt(s) ==
  IF pendings[s].present # "unasked" THEN pendings[s].present
  ELSE IF registry[s].known THEN "present" ELSE "absent"

\* The broker is there: the delivery state is kept and the bind sent.
Ensured(c) ==
  LET s == SessionOf[c] IN
  /\ calls[c].stage = "begun"
  /\ registry' = [registry EXCEPT ![s] = Retained(@)]
  /\ IF pendings[s].cap = calls[c].cap
     THEN /\ pendings' = [pendings EXCEPT ![s].present = PresentAt(s)]
          /\ calls' = [calls EXCEPT ![c].stage = "sent",
                                   ![c].previous = pendings[s].previous]
     ELSE calls' = [calls EXCEPT ![c].stage = "sent"] /\ UNCHANGED pendings
  /\ UNCHANGED <<bindings, posts, broker, handler, late, history, faults>>

Releasable(pending, cap, running) ==
  pending.cap = cap /\ ~pending.uncertain /\ InFlight(cap, running) = {}

\* releaseUncommittedRotation, after a failure that came before the commit.
Release(s, cap, running) ==
  IF ~Releasable(pendings[s], cap, running)
  THEN UNCHANGED <<pendings, registry, posts>>
  ELSE /\ pendings' = [pendings EXCEPT ![s] = NoPending]
       /\ CASE pendings[s].previous = NoCap /\ pendings[s].present = "present" ->
                 /\ registry' = [registry EXCEPT ![s] = Cleared(@)]
                 /\ UNCHANGED posts
            [] pendings[s].previous = NoCap /\ pendings[s].present = "absent" ->
                 /\ registry' = [registry EXCEPT ![s] = NoState]
                 /\ posts' = Orphaned({s})
            [] OTHER -> UNCHANGED <<registry, posts>>

\* The broker is not there.
EnsureFails(c) ==
  /\ calls[c].stage = "begun" /\ Fault
  /\ calls' = Ended(c)
  /\ Release(SessionOf[c], calls[c].cap, Ended(c))
  /\ UNCHANGED <<bindings, broker, handler, late, history>>

\* The bind was accepted: the session is the only one with the participant.
Accepted(c) ==
  LET s == SessionOf[c]
      others == Session \ {s}
      moved == {o \in others : bindings[o] # NoCap}
  IN  IF pendings[s].cap # calls[c].cap
      THEN UNCHANGED <<bindings, pendings, registry, posts, landed>>
      ELSE /\ bindings' = [o \in Session |-> IF o = s THEN calls[c].cap ELSE NoCap]
           /\ pendings' = [o \in Session |-> NoPending]
           /\ registry' = [o \in Session |-> IF o \in moved THEN NoState ELSE registry[o]]
           /\ posts' = Orphaned(moved)
           /\ landed' = [o \in Session |-> IF o \in moved THEN [m \in Message |-> 0]
                                                          ELSE landed[o]]

BindAnswered(c) ==
  /\ c \in BindCall /\ calls[c].stage = "answered"
  /\ calls' = Ended(c)
  /\ CASE calls[c].answer = "ok" -> Accepted(c)
       [] calls[c].answer = "rejected" ->
            /\ Release(SessionOf[c], calls[c].cap, Ended(c))
            /\ UNCHANGED <<bindings, landed>>
       [] calls[c].answer = "error" ->
            /\ pendings' = [s \in Session |->
                 IF s = SessionOf[c] /\ pendings[s].cap = calls[c].cap
                 THEN [pendings[s] EXCEPT !.uncertain = TRUE] ELSE pendings[s]]
            /\ UNCHANGED <<bindings, registry, posts, landed>>
  /\ UNCHANGED <<broker, handler, late, seen, served, lapsed, faults>>

\* Any other call is made with the capability the session has by then.
BeginAuthenticated(c, action) ==
  /\ c \in AuthCall /\ calls[c].stage = "none" /\ HasBinding(SessionOf[c])
  /\ calls' = [calls EXCEPT ![c] = [NoCallYet EXCEPT
                 !.stage = "sent", !.action = action, !.cap = bindings[SessionOf[c]]]]
  /\ UNCHANGED <<plugin, broker, handler, late, history, faults>>

\* The unbind was accepted: what overlaps it becomes a bind of its own.
Detached(s) ==
  IF Overtaken(s)
  THEN /\ pendings' = [pendings EXCEPT ![s].previous = NoCap,
                                       ![s].present = PresentAt(s)]
       /\ registry' = [registry EXCEPT ![s] = Retained(@)]
  ELSE /\ pendings' = [pendings EXCEPT ![s] = NoPending]
       /\ registry' = [registry EXCEPT ![s] = Cleared(@)]

SameBinding(c) == bindings[SessionOf[c]] = calls[c].cap

AuthAnswered(c) ==
  LET s == SessionOf[c] IN
  /\ c \in AuthCall /\ calls[c].stage = "answered"
  /\ calls' = Ended(c)
  /\ CASE calls[c].answer = "ok" /\ calls[c].action = "unbind" /\ SameBinding(c) ->
            bindings' = [bindings EXCEPT ![s] = NoCap] /\ Detached(s)
       [] calls[c].answer = "not_bound" /\ SameBinding(c) ->
            /\ bindings' = [bindings EXCEPT ![s] = NoCap]
            /\ registry' = [registry EXCEPT ![s] = Cleared(@)]
            /\ UNCHANGED pendings
       [] OTHER -> UNCHANGED <<bindings, pendings, registry>>
  /\ UNCHANGED <<posts, broker, handler, late, history, faults>>

-----------------------------------------------------------------------------
(* The broker.  A handler holds the lock from its first step to its last.  *)

\* A call's request, or one whose caller has given up.
Request(c) == [session |-> SessionOf[c], action |-> calls[c].action,
               cap |-> calls[c].cap, previous |-> calls[c].previous]

\* The caller, if there still is one, gets an answer.
Answer(c, answer) ==
  calls' = IF c = NoCall THEN calls
           ELSE [calls EXCEPT ![c].stage = "answered", ![c].answer = answer]

\* bind: a free seat, a repeated bind, or a rotation by the bound session.
Renewable(r) ==
  \/ ~Bound
  \/ r.cap = registration.cap
  \/ r.previous = registration.cap /\ r.session = registration.session

Registered(r) == [session |-> r.session, cap |-> r.cap, ready |-> TRUE]

\* Messages that a bind looks at.
Queued == {m \in Message : records[m] \in {"pending", "delivered"}}

HandleBind(r, c) ==
  /\ r.action = "bind"
  /\ \/ /\ Renewable(r)
        /\ registration' = Registered(r) /\ route' = Registered(r)
        /\ handler' = [pc |-> "retry", call |-> c, action |-> "bind", todo |-> Queued]
        /\ served' = FALSE
        /\ UNCHANGED <<calls, faults>>
     \/ /\ Renewable(r) /\ Fault                \* the file cannot be written
        /\ registration' = Registered(r)
        /\ served' = FALSE
        /\ Answer(c, "error")
        /\ UNCHANGED <<route, handler>>
     \/ /\ ~Renewable(r)
        /\ Answer(c, "rejected")
        /\ UNCHANGED <<registration, route, handler, served, faults>>

Authorized(r) ==
  IF ~Bound THEN "not_bound" ELSE IF r.cap = registration.cap THEN "ok" ELSE "rejected"

HandleAuthenticated(r, c) ==
  /\ r.action \in {"unbind", "status"}
  /\ IF r.action = "unbind" /\ Authorized(r) = "ok"
     THEN registration' = NotBound /\ route' = NotBound
     ELSE UNCHANGED <<registration, route>>
  /\ Answer(c, Authorized(r))
  /\ UNCHANGED <<handler, served, faults>>

Handle(c) ==
  /\ handler.pc = "idle" /\ calls[c].stage = "sent"
  /\ HandleBind(Request(c), c) \/ HandleAuthenticated(Request(c), c)
  /\ UNCHANGED <<plugin, records, answered, late, landed, seen, lapsed>>

HandleLate(r) ==
  /\ handler.pc = "idle" /\ late' = late \ {r}
  /\ HandleBind(r, NoCall) \/ HandleAuthenticated(r, NoCall)
  /\ UNCHANGED <<plugin, records, answered, landed, seen, lapsed>>

\* It does not arrive.
Dropped(r) ==
  /\ late' = late \ {r}
  /\ UNCHANGED <<plugin, calls, broker, handler, history, faults>>

\* A transition of the dialogue queues a message and delivers it.
Queue(m) ==
  /\ handler.pc = "idle" /\ records[m] = "absent"
  /\ records' = [records EXCEPT ![m] = "pending"]
  /\ handler' = [Idle EXCEPT !.pc = "retry", !.action = "queue", !.todo = {m}]
  /\ UNCHANGED <<plugin, calls, registration, route, answered, late, history, faults>>

\* Mutant: what was delivered to the session before is taken as delivered.
Rearmed_Never(m) == FALSE

\* A message whose response is recorded is acknowledged instead.
Rearmed(m) == records[m] = "delivered" /\ m \notin answered

\* relayBinding: the session whose confirmed or pending rotation has the relay
\* capability, which was made with it.
Relayed ==
  {s \in Session : /\ registration.ready
                   /\ registration.cap \in {bindings[s], pendings[s].cap}}

Passed(m, status) ==
  /\ records' = [records EXCEPT ![m] = status]
  /\ handler' = [handler EXCEPT !.todo = @ \ {m}]

\* retry and _attempt_delivery, to where the relay waits for the session.
Attempt(m) ==
  /\ handler.pc = "retry" /\ m \in handler.todo
  /\ IF records[m] = "delivered" /\ ~Rearmed(m)
     THEN /\ Passed(m, "delivered")
          /\ UNCHANGED <<registry, posts>>
     ELSE \/ /\ Relayed = {}
             /\ Passed(m, "pending")
             /\ UNCHANGED <<registry, posts>>
          \/ \E s \in Relayed :
               IF m \in registry[s].delivered
               THEN Passed(m, "delivered") /\ UNCHANGED <<registry, posts>>
               ELSE /\ records' = [records EXCEPT ![m] = "pending"]
                    /\ handler' = [handler EXCEPT !.pc = "waiting", !.todo = @ \ {m}]
                    /\ Posted(s, m)
  /\ UNCHANGED <<bindings, pendings, calls, registration, route, answered, late,
                 history, faults>>

Unawaited == {[p EXCEPT !.awaited = FALSE] : p \in posts}

\* The relay gave no answer in time; its post goes on.
TimeOut ==
  /\ handler.pc = "waiting"
  /\ handler' = [handler EXCEPT !.pc = "retry"]
  /\ posts' = Unawaited
  /\ UNCHANGED <<bindings, pendings, registry, calls, broker, late, history, faults>>

\* The post to the session ends, and whoever waits for it is told.
PostEnds(p, ok) ==
  /\ posts' = posts \ {p}
  /\ IF ok THEN UNCHANGED faults ELSE Fault
  /\ registry' = IF p.live
                 THEN [registry EXCEPT ![p.session] = AfterPost(@, p.message, ok)]
                 ELSE registry
  /\ seen' = IF ok THEN [seen EXCEPT ![p.session] = @ \cup {p.message}] ELSE seen
  /\ landed' = IF ok /\ p.live /\ landed[p.session][p.message] < 2
               THEN [landed EXCEPT ![p.session][p.message] = @ + 1] ELSE landed
  /\ handler' = IF p.awaited THEN [handler EXCEPT !.pc = "retry"] ELSE handler
  /\ records' = IF p.awaited /\ ok THEN [records EXCEPT ![p.message] = "delivered"]
                ELSE records
  /\ UNCHANGED <<bindings, pendings, calls, registration, route, answered, late, served,
                 lapsed>>

HandlerEnds ==
  /\ handler.pc = "retry" /\ handler.todo = {}
  /\ Answer(handler.call, "ok") /\ handler' = Idle
  /\ served' = (served \/ handler.action = "bind")
  /\ UNCHANGED <<plugin, broker, late, landed, seen, lapsed, faults>>

\* An exception in the loop over the records.
HandlerRaises ==
  /\ handler.pc = "retry" /\ Fault
  /\ Answer(handler.call, "error") /\ handler' = Idle
  /\ UNCHANGED <<plugin, broker, late, history>>

\* The registration's lease ends; a route that is over its lease is not restored.
Expire ==
  /\ handler.pc = "idle" /\ Bound
  /\ registration' = NotBound /\ route' = NotBound
  /\ UNCHANGED <<plugin, calls, records, answered, handler, late, history, faults>>

\* The participant submits its response from the session that has the message.
Respond(s, m) ==
  /\ handler.pc = "idle" /\ Bound /\ bindings[s] = registration.cap
  /\ m \in seen[s] \ answered
  /\ answered' = answered \cup {m}
  /\ UNCHANGED <<plugin, calls, registration, route, records, handler, late, history,
                 faults>>

\* The caller gets no answer; a request that is on its way may still be handled.
LoseAnswer(c) ==
  /\ calls[c].stage \in {"sent", "answered"} /\ calls[c].answer # "error" /\ Fault
  /\ calls' = [calls EXCEPT ![c].stage = "answered", ![c].answer = "error"]
  /\ handler' = IF handler.call = c THEN [handler EXCEPT !.call = NoCall] ELSE handler
  /\ late' = IF calls[c].stage = "sent" /\ handler.call # c
             THEN late \cup {Request(c)} ELSE late
  /\ UNCHANGED <<plugin, broker, history>>

\* The broker dies, and with it the answer of the handler that runs.
Crash ==
  /\ handler.pc # "down" /\ Fault
  /\ Answer(handler.call, "error")
  /\ handler' = [Idle EXCEPT !.pc = "down"]
  /\ posts' = Unawaited
  /\ registration' = NotBound
  /\ UNCHANGED <<bindings, pendings, registry, route, records, answered, late, history>>

\* _restore_registrations: the seat is kept, the relay must be bound again.
Restored == [route EXCEPT !.ready = FALSE]

Restart ==
  /\ handler.pc = "down"
  /\ handler' = Idle
  /\ registration' = Restored
  /\ UNCHANGED <<plugin, calls, route, records, answered, late, history, faults>>

-----------------------------------------------------------------------------
Next ==
  \/ \E c \in BindCall : BeginBind(c) \/ Ensured(c) \/ EnsureFails(c) \/ BindAnswered(c)
  \/ \E c \in AuthCall :
       \/ \E action \in {"unbind", "status"} : BeginAuthenticated(c, action)
       \/ AuthAnswered(c)
  \/ \E c \in Call : Handle(c) \/ LoseAnswer(c)
  \/ \E r \in late : HandleLate(r) \/ Dropped(r)
  \/ \E m \in Message : Queue(m) \/ Attempt(m)
  \/ TimeOut
  \/ \E p \in posts, ok \in BOOLEAN : PostEnds(p, ok)
  \/ HandlerEnds \/ HandlerRaises
  \/ \E s \in Session : ExpireState(s)
  \/ \E s \in Session, m \in Message : Respond(s, m)
  \/ Expire \/ Crash \/ Restart

Spec == Init /\ [][Next]_vars

\* The plugin can no longer prove that it is the session that is bound.
LockedOut ==
  /\ Bound
  /\ \A s \in Session : registration.cap \notin {bindings[s], pendings[s].cap}

\* Handlers, posts and the steps of a call go on, calls get the lock in turn,
\* every session is told to bind again when the participant hears nothing, and
\* a lease that nobody can renew runs out.
FairSpec ==
  /\ Spec
  /\ WF_vars(HandlerEnds \/ TimeOut \/ Restart \/ \E m \in Message : Attempt(m))
  /\ WF_vars(\E r \in late : HandleLate(r) \/ Dropped(r))
  /\ SF_vars(\E p \in posts : p.awaited /\ PostEnds(p, TRUE))
  /\ \A c \in BindCall : WF_vars(BeginBind(c) \/ Ensured(c) \/ BindAnswered(c))
  /\ \A c \in AuthCall : WF_vars(AuthAnswered(c))
  /\ \A c \in Call : SF_vars(Handle(c))
  /\ SF_vars(LockedOut /\ Expire)

-----------------------------------------------------------------------------
(* Properties                                                              *)

TypeOK ==
  /\ bindings \in [Session -> 0..Capabilities]
  /\ pendings \in [Session -> [cap : 0..Capabilities,
                                previous : 0..Capabilities,
                                uncertain : BOOLEAN,
                                present : {"unasked", "present", "absent"}]]
  /\ registry \in [Session -> [known : BOOLEAN, delivered : SUBSET Message,
                                inflight : SUBSET Message, clearWhenIdle : BOOLEAN]]
  /\ posts \subseteq [session : Session, message : Message, live : BOOLEAN,
                      awaited : BOOLEAN]
  /\ {registration.cap, route.cap} \subseteq 0..Capabilities
  /\ records \in [Message -> {"absent", "pending", "delivered"}]
  /\ handler.pc \in {"idle", "retry", "waiting", "down"}
  /\ faults \in 0..MaxFaults

\* A message reaches a session at most once, however often the broker gives up
\* and tries again, and whichever rotations, unbinds and lost answers come
\* between, unless the participant was bound to another session meanwhile or the
\* session was detached until its tombstone expired (protocol.md, on concurrent
\* retries and completed-message dedupe).  Of a session whose state expired while it
\* was attached nothing is said (see DedupeSurvives).
PostedOnce == \A s \in Session \ lapsed, m \in Message : landed[s][m] <= 1

\* What a session was given stays known for as long as it is bound: completed-message
\* dedupe "survives capability rotation in that session", and its tombstone is cleared
\* by "same-session retain, confirmed session move, or bounded expiry" (protocol.md).
DedupeSurvives ==
  [][\A s \in Session : HasBinding(s) /\ bindings'[s] # NoCap
       => registry[s].delivered \subseteq registry'[s].delivered]_vars

\* What the broker counts as delivered, and nobody has answered, is in the session
\* that was told it is bound: not only in another one that was bound before.
DeliveredIsThere ==
  \A s \in Session, m \in Message :
    /\ served /\ handler.pc = "idle" /\ Bound /\ bindings[s] = registration.cap
    /\ records[m] = "delivered" /\ m \notin answered
    => m \in seen[s]

\* What a session holds of the registration is sound.
DeliverySound == TypeOK /\ DeliveredIsThere

Proven == \E s \in Session : registration.cap \in {bindings[s], pendings[s].cap}

\* The session gives up a capability, by a call with it, while a bind with it may
\* still arrive or just has (see RotationRetained), or its binding while nobody
\* knows whether a bind that was given up on may still arrive.
LeavesInDoubt ==
  \/ \E c \in AuthCall : calls[c].cap = registration.cap /\ calls'[c].stage = "none"
  \/ \E s \in Session : /\ bindings[s] # NoCap /\ bindings'[s] = NoCap
                        /\ pendings[s].uncertain /\ ~Overtaken(s)

\* A bind is answered after the lease it got has ended.
AnsweredTooLate ==
  \E c \in BindCall : /\ calls[c].answer = "ok" /\ calls'[c].stage = "none"
                      /\ calls[c].cap # registration.cap

\* While the broker holds a capability, the plugin never forgets it: not when a
\* rotation that overlaps fails or is refused, not when an unbind of the
\* capability before it is answered late, not when its session is told that it is
\* not bound (protocol.md, on retry-safe rotation).
NeverForgotten ==
  [][Bound /\ Proven /\ registration' = registration
     => Proven' \/ LeavesInDoubt \/ AnsweredTooLate]_vars

\* A queued message is delivered sooner or later, whatever was lost or failed
\* before: no rotation ends in a state that no further bind gets out of.
EventuallyDelivered ==
  \A m \in Message : records[m] = "pending" ~> records[m] # "pending"

\* Capability rotation is retry-safe (protocol.md): when nothing is on its way,
\* the plugin still has the capability of the registration the broker holds.
RotationRetained ==
  (/\ handler.pc = "idle" /\ late = {}
   /\ \A c \in Call : calls[c].stage = "none")
  => ~LockedOut
=============================================================================
