------------------------ MODULE SessionDeliveryProofs ------------------------
(***************************************************************************)
(* Proofs about SessionDelivery for any sessions, messages and calls, and  *)
(* any number of capabilities and faults.                                  *)
(*                                                                         *)
(* Two arguments are behind them.  A capability belongs to one session,    *)
(* though the plugin, the broker, its file and requests that nobody awaits *)
(* any more each have a copy of it.  And a rotation whose request the      *)
(* broker accepted leaves a trace in the plugin, in a call or in the       *)
(* rotation, so that the plugin does not undo it as one that never was.    *)
(***************************************************************************)
EXTENDS SessionDelivery, TLAPS

Cap == 0..Capabilities

Pendings == [cap : Cap, previous : Cap, uncertain : BOOLEAN,
             present : {"unasked", "present", "absent"}]

States == [known : BOOLEAN, delivered : SUBSET Message, inflight : SUBSET Message,
           clearWhenIdle : BOOLEAN]

Posts == [session : Session, message : Message, live : BOOLEAN, awaited : BOOLEAN]

Calls == [stage : {"none", "begun", "sent", "answered"},
          action : {"bind", "unbind", "status"}, cap : Cap, previous : Cap,
          answer : {"none", "ok", "rejected", "error", "not_bound"}]

Routes == [session : Session, cap : Cap, ready : BOOLEAN]

Requests == [session : Session, action : {"bind", "unbind", "status"},
             cap : Cap, previous : Cap]

Handlers == [pc : {"idle", "retry", "waiting", "down"}, call : Call \cup {NoCall},
             action : {"none", "bind", "queue"}, todo : SUBSET Message]

PluginType == /\ bindings \in [Session -> Cap] /\ pendings \in [Session -> Pendings]
              /\ registry \in [Session -> States] /\ posts \subseteq Posts

BrokerType == /\ registration \in Routes /\ route \in Routes
              /\ records \in [Message -> {"absent", "pending", "delivered"}]
              /\ answered \subseteq Message
              /\ handler \in Handlers /\ late \subseteq Requests

HistoryType == /\ landed \in [Session -> [Message -> Nat]]
               /\ seen \in [Session -> SUBSET Message] /\ served \in BOOLEAN
               /\ faults \in 0..MaxFaults

\* What a call does, and how far it has come.
CallSound(c) ==
  /\ c \in BindCall =>
       /\ calls[c].action = "bind"
       /\ calls[c].stage # "none" => calls[c].cap # NoCap
       /\ calls[c].stage = "answered" => calls[c].answer \in {"ok", "rejected", "error"}
  /\ c \in AuthCall /\ calls[c].stage # "none" =>
       calls[c].action # "bind" /\ calls[c].cap # NoCap
  /\ calls[c].stage \in {"begun", "sent"} => calls[c].answer = "none"

CallsSound ==
  /\ calls \in [Call -> Calls] /\ \A c \in Call : CallSound(c)
  /\ handler.call # NoCall => calls[handler.call].stage = "sent"
  /\ handler.pc \in {"idle", "down"} => handler.action = "none" /\ handler.call = NoCall
  /\ \A r \in late : r.action = "bind" => r.cap # NoCap
  /\ registration.ready => Bound

Types == PluginType /\ BrokerType /\ HistoryType /\ CallsSound

\* Somebody has the capability as one of the session.
Holds(k, s) ==
  \/ bindings[s] = k
  \/ pendings[s].cap = k
  \/ \E c \in Call : SessionOf[c] = s /\ calls[c].cap = k
  \/ \E r \in late : r.session = s /\ r.cap = k
  \/ registration.session = s /\ registration.cap = k
  \/ route.session = s /\ route.cap = k

OneOwner ==
  \A k \in Cap \ {NoCap} : \A s, t \in Session : Holds(k, s) /\ Holds(k, t) => s = t

\* A post that counts is in flight, and the one that the broker awaits is to the
\* session that is bound.
PostsSound ==
  /\ \A p \in posts : p.live =>
       /\ p.message \in registry[p.session].inflight
       /\ p.message \notin registry[p.session].delivered
  /\ \A p, q \in posts :
       p.live /\ q.live /\ p.session = q.session /\ p.message = q.message => p = q
  /\ \A p, q \in posts : p.awaited /\ q.awaited => p = q
  /\ \A p \in posts : p.awaited =>
       handler.pc = "waiting" /\ Bound /\ p.session = registration.session

\* What a session is known to have it has, and a state that is not known is empty.
StatesSound ==
  \A s \in Session :
    /\ registry[s].delivered \subseteq seen[s]
    /\ ~registry[s].known =>
         registry[s].delivered = {} /\ registry[s].inflight = {}

\* A call with the capability has been handled, and the plugin will learn of it.
Traced(k, s) ==
  \E c \in BindCall :
    /\ SessionOf[c] = s /\ calls[c].cap = k
    /\ \/ handler.call = c
       \/ calls[c].stage = "answered" /\ calls[c].answer \in {"ok", "error"}

\* The broker has the capability, or may still get it by a request nobody awaits.
Sent(k) ==
  \/ k \in {registration.cap, route.cap}
  \/ \E r \in late : r.action = "bind" /\ r.cap = k

Certain(s) == pendings[s].cap # NoCap /\ ~pendings[s].uncertain

AcceptedTraced ==
  \A s \in Session : Certain(s) /\ Sent(pendings[s].cap) => Traced(pendings[s].cap, s)

\* The delivery state of a session whose state did not expire while it was attached.
RotationSound(s) ==
  /\ bindings[s] # NoCap => registry[s].known
  /\ \A c \in BindCall :
       /\ calls[c].stage \in {"sent", "answered"} /\ pendings[s].cap # NoCap
       /\ calls[c].cap = pendings[s].cap
       => registry[s].known
  /\ pendings[s].cap # NoCap /\ pendings[s].present = "absent" =>
       /\ bindings[s] = NoCap
       /\ \/ pendings[s].uncertain \/ Traced(pendings[s].cap, s)
          \/ registry[s].delivered = {} /\ registry[s].inflight = {}
  /\ \A m \in Message : /\ landed[s][m] <= 1
                        /\ landed[s][m] # 0 => m \in registry[s].delivered

RotationsSound == \A s \in Session \ lapsed : RotationSound(s)

\* The bind that was accepted last has looked, or still looks, at every message.
LookedAt(m) == served \/ (handler.action = "bind" /\ m \notin handler.todo)

\* While that bind counts, the registration in memory is the one in the file.
RoutesAgree ==
  (served \/ handler.action = "bind") /\ Bound =>
    registration.cap = route.cap /\ registration.session = route.session

DeliveredAt(m) ==
  route.cap # NoCap /\ records[m] = "delivered" /\ m \notin answered /\ LookedAt(m)
    => m \in seen[route.session]

DeliveredSound == RoutesAgree /\ \A m \in Message : DeliveredAt(m)

IInv == /\ Types /\ OneOwner /\ PostsSound /\ StatesSound /\ AcceptedTraced
        /\ RotationsSound /\ DeliveredSound

-----------------------------------------------------------------------------
(* Types.                                                                  *)

LEMMA Constants ==
  /\ NoCap \in Cap /\ NoCap = 0
  /\ NoPending \in Pendings /\ NoState \in States /\ NoCallYet \in Calls
  /\ NotBound \in Routes /\ Idle \in Handlers
  /\ NoPending.cap = NoCap /\ NoPending.present = "unasked"
  /\ NoState.known = FALSE /\ NoState.delivered = {} /\ NoState.inflight = {}
  /\ NoCallYet.stage = "none" /\ NoCallYet.cap = NoCap /\ NoCallYet.answer = "none"
  /\ NoCallYet.action = "bind"
  /\ NotBound.cap = NoCap /\ NotBound.ready = FALSE
  /\ Idle.call = NoCall /\ Idle.action = "none" /\ Idle.pc = "idle" /\ Idle.todo = {}
PROOF
  <1>1. NoCap \in Cap
    BY BoundsAssumption DEF Cap, NoCap
  <1>2. NotBound.session \in Session
    BY CallAssumption DEF NotBound
  <1> QED BY <1>1, <1>2 DEF NoCap, NoPending, Pendings, NoState, States, NoCallYet, Calls,
                 NotBound, Routes, Idle, Handlers

LEMMA SessionsOfCalls ==
  /\ \A c \in Call : SessionOf[c] \in Session
  /\ \A c \in BindCall : c \in Call /\ c \notin AuthCall /\ c # NoCall
  /\ \A c \in AuthCall : c \in Call /\ c \notin BindCall /\ c # NoCall
  /\ NoCall \notin Call
PROOF
  <1> QED BY CallAssumption DEF Call

\* A capability that is new has no holder.
LEMMA NewIsFresh ==
  ASSUME Fresh # {}
  PROVE  New \in Cap /\ New # NoCap /\ New \notin Held
PROOF
  <1>1. New \in Fresh
    BY DEF New
  <1> QED BY <1>1, BoundsAssumption DEF Fresh, Cap, NoCap

\* A call that is answered, or had no caller any more.
LEMMA AnswerSound ==
  ASSUME Types, NEW c \in Call \cup {NoCall}, NEW a \in {"ok", "rejected", "error", "not_bound"},
         Answer(c, a), c # NoCall => calls[c].stage # "none",
         c \in BindCall => a # "not_bound"
  PROVE  /\ calls' \in [Call -> Calls]
         /\ \A d \in Call : CallSound(d)'
         /\ \A d \in Call : /\ calls'[d].cap = calls[d].cap
                            /\ calls'[d].previous = calls[d].previous
                            /\ calls'[d].action = calls[d].action
                            /\ d # c => calls'[d] = calls[d]
                            /\ d = c => calls'[d].stage = "answered" /\ calls'[d].answer = a
PROOF
  <1>0. calls \in [Call -> Calls] /\ \A d \in Call : CallSound(d)
    BY DEF Types, CallsSound
  <1>1. CASE c = NoCall
    <2>1. calls' = calls
      BY <1>1 DEF Answer
    <2> QED BY <1>0, <1>1, <2>1, SessionsOfCalls DEF CallSound
  <1>2. CASE c \in Call
    <2>0. c # NoCall
      BY <1>2, SessionsOfCalls
    <2> DEFINE half == [calls EXCEPT ![c].stage = "answered"]
    <2>1. calls' = [half EXCEPT ![c].answer = a]
      BY <2>0 DEF Answer
    <2>2. /\ half \in [Call -> Calls] /\ half[c] = [calls[c] EXCEPT !.stage = "answered"]
          /\ \A d \in Call : d # c => half[d] = calls[d]
      BY <1>0, <1>2 DEF Calls
    <2> HIDE DEF half
    <2> DEFINE x == [half[c] EXCEPT !.answer = a]
    <2>6. half[c] \in Calls
      BY <1>2, <2>2
    <2>7. /\ x \in Calls /\ x.answer = a /\ x.stage = half[c].stage
          /\ x.cap = half[c].cap /\ x.previous = half[c].previous
          /\ x.action = half[c].action
      BY <2>6 DEF Calls
    <2>8. calls' = [half EXCEPT ![c] = x]
      BY <2>1
    <2> HIDE DEF x
    <2>3. /\ calls' \in [Call -> Calls] /\ calls'[c] = x
          /\ \A d \in Call : d # c => calls'[d] = half[d]
      BY <1>2, <2>2, <2>7, <2>8
    <2>4. /\ calls'[c].stage = "answered" /\ calls'[c].answer = a
          /\ calls'[c].cap = calls[c].cap /\ calls'[c].previous = calls[c].previous
          /\ calls'[c].action = calls[c].action
      BY <1>0, <1>2, <2>2, <2>3, <2>7 DEF Calls
    <2>5. ASSUME NEW d \in Call PROVE CallSound(d)'
      <3>1. CASE d = c
        BY <1>0, <1>2, <2>0, <2>4, <3>1, SessionsOfCalls DEF CallSound
      <3>2. CASE d # c
        <4>1. calls'[d] = calls[d]
          BY <2>2, <2>3, <3>2
        <4> QED BY <1>0, <4>1 DEF CallSound
      <3> QED BY <3>1, <3>2
    <2> QED BY <1>2, <2>2, <2>3, <2>4, <2>5
  <1> QED BY <1>1, <1>2

\* A call that has ended.
LEMMA EndedSound ==
  ASSUME Types, NEW c \in Call, calls' = Ended(c)
  PROVE  /\ calls' \in [Call -> Calls]
         /\ \A d \in Call : CallSound(d)'
         /\ calls'[c] = NoCallYet /\ \A d \in Call : d # c => calls'[d] = calls[d]
PROOF
  <1>1. /\ calls \in [Call -> Calls] /\ \A d \in Call : CallSound(d)
    BY DEF Types, CallsSound
  <1>2. /\ calls' \in [Call -> Calls] /\ calls'[c] = NoCallYet
        /\ \A d \in Call : d # c => calls'[d] = calls[d]
    BY <1>1, Constants DEF Ended
  <1>3. CallSound(c)'
    BY <1>2, Constants DEF CallSound
  <1>4. \A d \in Call : d # c => CallSound(d)'
    BY <1>1, <1>2 DEF CallSound
  <1> QED BY <1>2, <1>3, <1>4

\* The call that the handler works for waits for its answer.
LEMMA HandlerCallSound ==
  ASSUME Types, handler.call # NoCall
  PROVE  handler.call \in Call /\ calls[handler.call].stage = "sent"
PROOF
  <1>1. handler \in Handlers
    BY DEF Types, BrokerType
  <1>2. handler.call \in Call \cup {NoCall}
    BY <1>1 DEF Handlers
  <1> QED BY <1>2 DEF Types, CallsSound

\* The step leaves the broker alone.
BrokerStays == UNCHANGED <<registration, route, records, answered, handler, late>>

\* What the actions that leave the broker alone keep.
LEMMA BrokerStaysSound ==
  ASSUME Types, BrokerStays, PluginType', HistoryType', calls' \in [Call -> Calls],
         \A d \in Call : CallSound(d)',
         \A d \in Call : calls[d].stage = "sent" => calls'[d].stage = "sent"
  PROVE  Types'
PROOF
  <1>1. BrokerType'
    BY DEF Types, BrokerType, BrokerStays
  <1>2. handler'.call # NoCall => calls'[handler'.call].stage = "sent"
    BY HandlerCallSound DEF BrokerStays
  <1>3. \A r \in late' : r.action = "bind" => r.cap # NoCap
    BY DEF Types, CallsSound, BrokerStays
  <1>4. registration'.ready => Bound'
    BY DEF Types, CallsSound, BrokerStays, Bound
  <1>5. handler'.pc \in {"idle", "down"} =>
          handler'.action = "none" /\ handler'.call = NoCall
    BY DEF Types, CallsSound, BrokerStays
  <1> QED BY <1>1, <1>2, <1>3, <1>4, <1>5 DEF Types, CallsSound

-----------------------------------------------------------------------------
(* What the actions do to the plugin.                                      *)

LEMMA BeginBindEffect ==
  ASSUME Types, NEW c \in BindCall, BeginBind(c)
  PROVE  LET s == SessionOf[c] IN
         /\ Types' /\ BrokerStays
         /\ UNCHANGED <<bindings, registry, posts, landed, seen, served, lapsed>>
         /\ \A t \in Session : t # s => pendings'[t] = pendings[t]
         /\ \A d \in Call : d # c => calls'[d] = calls[d]
         /\ calls[c].stage = "none" /\ calls'[c].stage = "begun"
         /\ calls'[c].cap = pendings'[s].cap
         /\ \/ pendings'[s] = pendings[s] /\ pendings[s].cap # NoCap
            \/ /\ pendings'[s].cap \in Cap \ {NoCap} /\ pendings'[s].cap \notin Held
               /\ pendings'[s].present = "unasked"
PROOF
  <1> DEFINE s == SessionOf[c]
             p == IF pendings[s].cap = NoCap
                  THEN [NoPending EXCEPT !.cap = New, !.previous = bindings[s]]
                  ELSE pendings[s]
             call == [NoCallYet EXCEPT !.stage = "begun", !.cap = p.cap,
                                       !.previous = p.previous]
  <1>1. s \in Session /\ c \in Call /\ c \notin AuthCall /\ c # NoCall
    BY SessionsOfCalls
  <1>2. /\ pendings' = [pendings EXCEPT ![s] = p] /\ calls' = [calls EXCEPT ![c] = call]
        /\ calls[c].stage = "none"
        /\ pendings[s].cap = NoCap => Fresh # {}
        /\ bindings' = bindings /\ registry' = registry /\ posts' = posts
        /\ landed' = landed /\ seen' = seen /\ served' = served /\ lapsed' = lapsed
        /\ faults' = faults /\ BrokerStays
    BY DEF BeginBind, broker, history, BrokerStays
  <1>3. /\ pendings \in [Session -> Pendings] /\ bindings \in [Session -> Cap]
        /\ calls \in [Call -> Calls] /\ \A d \in Call : CallSound(d)
    BY DEF Types, PluginType, CallsSound
  <1>4. /\ p \in Pendings /\ p.cap # NoCap
        /\ \/ p = pendings[s] /\ pendings[s].cap # NoCap
           \/ p.cap \in Cap \ {NoCap} /\ p.cap \notin Held /\ p.present = "unasked"
    <2>1. CASE pendings[s].cap = NoCap
      <3>1. New \in Cap /\ New # NoCap /\ New \notin Held
        BY <1>2, <2>1, NewIsFresh
      <3>2. bindings[s] \in Cap
        BY <1>1, <1>3
      <3>3. p = [NoPending EXCEPT !.cap = New, !.previous = bindings[s]]
        BY <2>1
      <3> HIDE DEF p
      <3>4. p \in Pendings /\ p.cap = New /\ p.present = "unasked"
        BY <3>1, <3>2, <3>3 DEF NoPending, Pendings
      <3> QED BY <3>1, <3>4
    <2>2. CASE pendings[s].cap # NoCap
      BY <1>1, <1>3, <2>2
    <2> QED BY <2>1, <2>2
  <1> HIDE DEF p
  <1>5. /\ call \in Calls /\ call.stage = "begun" /\ call.cap = p.cap
        /\ call.action = "bind" /\ call.answer = "none"
    BY <1>4 DEF NoCallYet, Calls, Pendings
  <1> HIDE DEF call
  <1>6. /\ pendings' \in [Session -> Pendings] /\ pendings'[s] = p
        /\ \A t \in Session : t # s => pendings'[t] = pendings[t]
    BY <1>1, <1>2, <1>3, <1>4
  <1>7. /\ calls' \in [Call -> Calls] /\ calls'[c] = call
        /\ \A d \in Call : d # c => calls'[d] = calls[d]
    BY <1>1, <1>2, <1>3, <1>5
  <1>8. ASSUME NEW d \in Call PROVE CallSound(d)'
    <2>1. CASE d = c
      BY <1>1, <1>4, <1>5, <1>7, <2>1 DEF CallSound
    <2>2. CASE d # c
      BY <1>3, <1>7, <2>2 DEF CallSound
    <2> QED BY <2>1, <2>2
  <1>9. Types'
    <2>1. PluginType' /\ HistoryType'
      BY <1>2, <1>6 DEF Types, PluginType, HistoryType
    <2>2. \A d \in Call : calls[d].stage = "sent" => calls'[d].stage = "sent"
      BY <1>2, <1>7
    <2> QED BY <1>2, <1>7, <1>8, <2>1, <2>2, BrokerStaysSound
  <1> QED BY <1>1, <1>2, <1>4, <1>5, <1>6, <1>7, <1>9

\* A state that is kept for another while, and one that may expire.
LEMMA RetainedSound ==
  ASSUME NEW x \in States
  PROVE  /\ Retained(x) \in States /\ Retained(x).known
         /\ Retained(x).delivered = x.delivered /\ Retained(x).inflight = x.inflight
         /\ Cleared(x) \in States /\ Cleared(x).known = x.known
         /\ Cleared(x).delivered = x.delivered /\ Cleared(x).inflight = x.inflight
PROOF
  <1> QED BY DEF Retained, Cleared, States

LEMMA EnsuredEffect ==
  ASSUME Types, NEW c \in BindCall, Ensured(c)
  PROVE  LET s == SessionOf[c] IN
         /\ Types' /\ BrokerStays
         /\ UNCHANGED <<bindings, posts, landed, seen, served, lapsed>>
         /\ \A t \in Session : t # s => pendings'[t] = pendings[t] /\ registry'[t] = registry[t]
         /\ \A d \in Call : d # c => calls'[d] = calls[d]
         /\ calls[c].stage = "begun" /\ calls'[c].stage = "sent"
         /\ calls'[c].cap = calls[c].cap
         /\ registry'[s].known /\ registry'[s].delivered = registry[s].delivered
         /\ registry'[s].inflight = registry[s].inflight
         /\ pendings'[s].cap = pendings[s].cap
         /\ pendings'[s].uncertain = pendings[s].uncertain
         /\ pendings'[s].present = "absent" =>
              pendings[s].present = "absent" \/ ~registry[s].known
PROOF
  <1> DEFINE s == SessionOf[c]
  <1>1. s \in Session /\ c \in Call /\ c \notin AuthCall /\ c # NoCall
    BY SessionsOfCalls
  <1>2. /\ registry' = [registry EXCEPT ![s] = Retained(registry[s])]
        /\ calls[c].stage = "begun"
        /\ bindings' = bindings /\ posts' = posts
        /\ landed' = landed /\ seen' = seen /\ served' = served /\ lapsed' = lapsed
        /\ faults' = faults /\ BrokerStays
    BY DEF Ensured, broker, history, BrokerStays
  <1>3. /\ pendings \in [Session -> Pendings] /\ registry \in [Session -> States]
        /\ calls \in [Call -> Calls] /\ \A d \in Call : CallSound(d)
    BY DEF Types, PluginType, CallsSound
  <1>4. /\ registry' \in [Session -> States] /\ registry'[s] = Retained(registry[s])
        /\ \A t \in Session : t # s => registry'[t] = registry[t]
    BY <1>1, <1>2, <1>3, RetainedSound
  <1>5. /\ registry'[s].known /\ registry'[s].delivered = registry[s].delivered
        /\ registry'[s].inflight = registry[s].inflight
    BY <1>1, <1>3, <1>4, RetainedSound
  <1>6. /\ pendings' \in [Session -> Pendings]
        /\ \A t \in Session : t # s => pendings'[t] = pendings[t]
        /\ pendings'[s].cap = pendings[s].cap
        /\ pendings'[s].uncertain = pendings[s].uncertain
        /\ pendings'[s].present = "absent" =>
             pendings[s].present = "absent" \/ ~registry[s].known
    <2>1. CASE pendings[s].cap = calls[c].cap
      <3>1. pendings' = [pendings EXCEPT ![s].present = PresentAt(s)]
        BY <2>1 DEF Ensured
      <3>2. PresentAt(s) \in {"unasked", "present", "absent"}
        BY <1>1, <1>3 DEF PresentAt, Pendings
      <3>3. /\ pendings' \in [Session -> Pendings]
            /\ pendings'[s] = [pendings[s] EXCEPT !.present = PresentAt(s)]
            /\ \A t \in Session : t # s => pendings'[t] = pendings[t]
        BY <1>1, <1>3, <3>1, <3>2 DEF Pendings
      <3>4. /\ pendings'[s].cap = pendings[s].cap
            /\ pendings'[s].uncertain = pendings[s].uncertain
            /\ pendings'[s].present = PresentAt(s)
        BY <1>1, <1>3, <3>3 DEF Pendings
      <3> QED BY <3>3, <3>4 DEF PresentAt
    <2>2. CASE pendings[s].cap # calls[c].cap
      BY <1>3, <2>2 DEF Ensured
    <2> QED BY <2>1, <2>2
  <1>7. /\ calls' \in [Call -> Calls]
        /\ \A d \in Call : d # c => calls'[d] = calls[d]
        /\ calls'[c].stage = "sent" /\ calls'[c].cap = calls[c].cap
        /\ calls'[c].action = calls[c].action /\ calls'[c].answer = calls[c].answer
    <2> DEFINE half == [calls EXCEPT ![c].stage = "sent"]
    <2>1. /\ half \in [Call -> Calls] /\ half[c] = [calls[c] EXCEPT !.stage = "sent"]
          /\ \A d \in Call : d # c => half[d] = calls[d]
      BY <1>1, <1>3 DEF Calls
    <2>2. calls' = half \/ calls' = [half EXCEPT ![c].previous = pendings[s].previous]
      BY DEF Ensured
    <2> HIDE DEF half
    <2>3. CASE calls' = half
      BY <1>1, <1>3, <2>1, <2>3 DEF Calls
    <2>4. CASE calls' = [half EXCEPT ![c].previous = pendings[s].previous]
      <3>1. half[c] \in Calls /\ pendings[s].previous \in Cap
        BY <1>1, <1>3, <2>1 DEF Pendings
      <3> DEFINE x == [half[c] EXCEPT !.previous = pendings[s].previous]
      <3>2. /\ x \in Calls /\ x.stage = half[c].stage /\ x.cap = half[c].cap
            /\ x.action = half[c].action /\ x.answer = half[c].answer
        BY <3>1 DEF Calls
      <3>3. calls' = [half EXCEPT ![c] = x]
        BY <2>4
      <3> HIDE DEF x
      <3>4. /\ calls' \in [Call -> Calls] /\ calls'[c] = x
            /\ \A d \in Call : d # c => calls'[d] = half[d]
        BY <1>1, <2>1, <3>2, <3>3
      <3> QED BY <1>1, <1>3, <2>1, <3>2, <3>4 DEF Calls
    <2> QED BY <2>2, <2>3, <2>4
  <1>8. ASSUME NEW d \in Call PROVE CallSound(d)'
    <2>1. CASE d = c
      BY <1>1, <1>2, <1>3, <1>7, <2>1 DEF CallSound
    <2>2. CASE d # c
      BY <1>3, <1>7, <2>2 DEF CallSound
    <2> QED BY <2>1, <2>2
  <1>9. Types'
    <2>1. PluginType' /\ HistoryType'
      BY <1>2, <1>4, <1>6 DEF Types, PluginType, HistoryType
    <2>2. \A d \in Call : calls[d].stage = "sent" => calls'[d].stage = "sent"
      BY <1>2, <1>7
    <2> QED BY <1>2, <1>7, <1>8, <2>1, <2>2, BrokerStaysSound
  <1> QED BY <1>2, <1>4, <1>5, <1>6, <1>7, <1>9

LEMMA OrphanedSound ==
  ASSUME Types, NEW S \in SUBSET Session
  PROVE  Orphaned(S) \subseteq Posts
PROOF
  <1>1. ASSUME NEW p \in posts
        PROVE  [p EXCEPT !.live = p.live /\ p.session \notin S] \in Posts
    <2>1. p \in Posts
      BY DEF Types, PluginType
    <2>2. (p.live /\ p.session \notin S) \in BOOLEAN
      OBVIOUS
    <2> DEFINE b == p.live /\ p.session \notin S
    <2>3. b \in BOOLEAN
      BY <2>2
    <2> HIDE DEF b
    <2>4. [p EXCEPT !.live = b] \in Posts
      BY <2>1, <2>3 DEF Posts
    <2> QED BY <2>4 DEF b
  <1> QED BY <1>1 DEF Orphaned

\* A rotation that was not committed is undone, or nothing happens.
LEMMA ReleaseEffect ==
  ASSUME Types, NEW s \in Session, NEW cap, NEW running, Release(s, cap, running)
  PROVE  /\ pendings' \in [Session -> Pendings] /\ registry' \in [Session -> States]
         /\ posts' \subseteq Posts
         /\ \A t \in Session : t # s => pendings'[t] = pendings[t] /\ registry'[t] = registry[t]
         /\ \/ UNCHANGED <<pendings, registry, posts>>
            \/ /\ pendings[s].cap = cap /\ ~pendings[s].uncertain
               /\ InFlight(cap, running) = {} /\ pendings'[s] = NoPending
               /\ \/ /\ registry'[s].known = registry[s].known
                     /\ registry'[s].delivered = registry[s].delivered
                     /\ registry'[s].inflight = registry[s].inflight
                     /\ posts' = posts
                  \/ /\ pendings[s].present = "absent" /\ registry'[s] = NoState
                     /\ posts' = Orphaned({s})
PROOF
  <1>1. /\ pendings \in [Session -> Pendings] /\ registry \in [Session -> States]
        /\ posts \subseteq Posts
    BY DEF Types, PluginType
  <1>2. CASE ~Releasable(pendings[s], cap, running)
    BY <1>1, <1>2 DEF Release
  <1>3. CASE Releasable(pendings[s], cap, running)
    <2>1. /\ pendings' = [pendings EXCEPT ![s] = NoPending]
          /\ \/ /\ registry' = [registry EXCEPT ![s] = Cleared(registry[s])]
                /\ posts' = posts
             \/ /\ pendings[s].present = "absent"
                /\ registry' = [registry EXCEPT ![s] = NoState]
                /\ posts' = Orphaned({s})
             \/ registry' = registry /\ posts' = posts
      <3>1. CASE pendings[s].previous = NoCap /\ pendings[s].present = "present"
        BY <1>3, <3>1 DEF Release
      <3>2. CASE pendings[s].previous = NoCap /\ pendings[s].present = "absent"
        BY <1>3, <3>2 DEF Release
      <3>3. CASE ~(pendings[s].previous = NoCap /\ pendings[s].present \in {"present", "absent"})
        BY <1>3, <3>3 DEF Release
      <3> QED BY <3>1, <3>2, <3>3
    <2>2. /\ pendings' \in [Session -> Pendings] /\ pendings'[s] = NoPending
          /\ \A t \in Session : t # s => pendings'[t] = pendings[t]
      BY <1>1, <2>1, Constants
    <2>3. /\ pendings[s].cap = cap /\ ~pendings[s].uncertain
          /\ InFlight(cap, running) = {}
      BY <1>3 DEF Releasable
    <2>4. CASE registry' = [registry EXCEPT ![s] = Cleared(registry[s])] /\ posts' = posts
      <3>1. /\ Cleared(registry[s]) \in States /\ registry'[s] = Cleared(registry[s])
            /\ \A t \in Session : t # s => registry'[t] = registry[t]
        BY <1>1, <2>4, RetainedSound
      <3>2. registry' \in [Session -> States]
        BY <1>1, <2>4, <3>1
      <3>3. /\ registry'[s].known = registry[s].known
            /\ registry'[s].delivered = registry[s].delivered
            /\ registry'[s].inflight = registry[s].inflight
        BY <1>1, <3>1, RetainedSound
      <3> QED BY <1>1, <2>2, <2>3, <2>4, <3>1, <3>2, <3>3
    <2>5. CASE /\ pendings[s].present = "absent"
               /\ registry' = [registry EXCEPT ![s] = NoState] /\ posts' = Orphaned({s})
      <3>1. /\ registry' \in [Session -> States] /\ registry'[s] = NoState
            /\ \A t \in Session : t # s => registry'[t] = registry[t]
        BY <1>1, <2>5, Constants
      <3>2. posts' \subseteq Posts
        BY <2>5, OrphanedSound
      <3> QED BY <2>2, <2>3, <2>5, <3>1, <3>2
    <2>6. CASE registry' = registry /\ posts' = posts
      BY <1>1, <2>2, <2>3, <2>6
    <2> QED BY <2>1, <2>4, <2>5, <2>6
  <1> QED BY <1>2, <1>3

LEMMA EnsureFailsEffect ==
  ASSUME Types, NEW c \in BindCall, EnsureFails(c)
  PROVE  /\ Types' /\ BrokerStays
         /\ UNCHANGED <<bindings, landed, seen, served, lapsed>>
         /\ calls[c].stage = "begun" /\ calls' = Ended(c)
         /\ Release(SessionOf[c], calls[c].cap, Ended(c))
PROOF
  <1>1. /\ calls[c].stage = "begun" /\ calls' = Ended(c)
        /\ Release(SessionOf[c], calls[c].cap, Ended(c))
        /\ bindings' = bindings
        /\ landed' = landed /\ seen' = seen /\ served' = served /\ lapsed' = lapsed
        /\ BrokerStays
    BY DEF EnsureFails, broker, history, BrokerStays
  <1>2. faults' \in 0..MaxFaults
    BY BoundsAssumption DEF EnsureFails, Fault, Types, HistoryType
  <1>3. PluginType' /\ HistoryType'
    BY <1>1, <1>2, SessionsOfCalls, ReleaseEffect DEF Types, PluginType, HistoryType
  <1>4. /\ calls' \in [Call -> Calls] /\ \A d \in Call : CallSound(d)'
        /\ calls'[c] = NoCallYet /\ \A d \in Call : d # c => calls'[d] = calls[d]
    BY <1>1, SessionsOfCalls, EndedSound
  <1>5. \A d \in Call : calls[d].stage = "sent" => calls'[d].stage = "sent"
    BY <1>1, <1>4
  <1> QED BY <1>1, <1>3, <1>4, <1>5, BrokerStaysSound

\* The session is the one that is bound, and the others are not any more.
LEMMA AcceptedEffect ==
  ASSUME Types, NEW c \in BindCall, Accepted(c)
  PROVE  LET s == SessionOf[c] IN
         /\ PluginType' /\ landed' \in [Session -> [Message -> Nat]]
         /\ \/ /\ pendings[s].cap # calls[c].cap
               /\ UNCHANGED <<bindings, pendings, registry, posts, landed>>
            \/ /\ pendings[s].cap = calls[c].cap
               /\ \A t \in Session : /\ pendings'[t] = NoPending
                                     /\ t = s => bindings'[t] = calls[c].cap
                                     /\ t # s => bindings'[t] = NoCap
               /\ registry'[s] = registry[s] /\ landed'[s] = landed[s]
               /\ \E moved \in SUBSET (Session \ {s}) :
                    /\ posts' = Orphaned(moved)
                    /\ \A t \in moved : registry'[t] = NoState
                                        /\ landed'[t] = [m \in Message |-> 0]
                    /\ \A t \in Session \ moved : registry'[t] = registry[t]
                                                  /\ landed'[t] = landed[t]
PROOF
  <1> DEFINE s == SessionOf[c]
             moved == {o \in Session \ {s} : bindings[o] # NoCap}
  <1>1. s \in Session /\ c \in Call
    BY SessionsOfCalls
  <1>2. /\ bindings \in [Session -> Cap] /\ pendings \in [Session -> Pendings]
        /\ registry \in [Session -> States] /\ posts \subseteq Posts
        /\ landed \in [Session -> [Message -> Nat]] /\ calls[c].cap \in Cap
    BY <1>1 DEF Types, PluginType, HistoryType, CallsSound, Calls
  <1>3. CASE pendings[s].cap # calls[c].cap
    BY <1>2, <1>3 DEF Accepted, PluginType
  <1>4. CASE pendings[s].cap = calls[c].cap
    <2>1. /\ bindings' = [o \in Session |-> IF o = s THEN calls[c].cap ELSE NoCap]
          /\ pendings' = [o \in Session |-> NoPending]
          /\ registry' = [o \in Session |-> IF o \in moved THEN NoState ELSE registry[o]]
          /\ posts' = Orphaned(moved)
          /\ landed' = [o \in Session |-> IF o \in moved THEN [m \in Message |-> 0]
                                                         ELSE landed[o]]
      BY <1>4 DEF Accepted
    <2>2. moved \in SUBSET (Session \ {s}) /\ moved \in SUBSET Session
      OBVIOUS
    <2> HIDE DEF moved
    <2>3. posts' \subseteq Posts
      BY <2>1, <2>2, OrphanedSound
    <2>4. PluginType'
      BY <1>2, <2>1, <2>3, Constants DEF PluginType
    <2>5. [m \in Message |-> 0] \in [Message -> Nat]
      OBVIOUS
    <2>6. landed' \in [Session -> [Message -> Nat]]
      BY <1>2, <2>1, <2>5
    <2> QED BY <1>1, <1>4, <2>1, <2>2, <2>4, <2>6
  <1> QED BY <1>3, <1>4

LEMMA BindAnsweredEffect ==
  ASSUME Types, NEW c \in BindCall, BindAnswered(c)
  PROVE  LET s == SessionOf[c] IN
         /\ Types' /\ BrokerStays
         /\ UNCHANGED <<seen, served, lapsed>>
         /\ calls[c].stage = "answered" /\ calls' = Ended(c)
         /\ \/ calls[c].answer = "ok" /\ Accepted(c)
            \/ /\ calls[c].answer = "rejected" /\ Release(s, calls[c].cap, Ended(c))
               /\ UNCHANGED <<bindings, landed>>
            \/ /\ calls[c].answer = "error"
               /\ \A t \in Session :
                    /\ pendings'[t].cap = pendings[t].cap
                    /\ pendings'[t].present = pendings[t].present
                    /\ pendings'[t].uncertain =
                         IF t = s /\ pendings[t].cap = calls[c].cap THEN TRUE
                         ELSE pendings[t].uncertain
               /\ UNCHANGED <<bindings, registry, posts, landed>>
PROOF
  <1> DEFINE s == SessionOf[c]
  <1>1. s \in Session /\ c \in Call
    BY SessionsOfCalls
  <1>2. /\ calls[c].stage = "answered" /\ calls' = Ended(c)
        /\ calls[c].answer \in {"ok", "rejected", "error"}
        /\ seen' = seen /\ served' = served /\ lapsed' = lapsed /\ faults' = faults
        /\ BrokerStays
    BY <1>1 DEF BindAnswered, broker, BrokerStays, Types, CallsSound, CallSound
  <1>3. PluginType /\ HistoryType
    BY DEF Types
  <1>4. /\ calls[c].answer = "ok" => Accepted(c)
        /\ calls[c].answer = "rejected" =>
             Release(s, calls[c].cap, Ended(c)) /\ bindings' = bindings /\ landed' = landed
        /\ calls[c].answer = "error" =>
             /\ pendings' = [t \in Session |->
                  IF t = s /\ pendings[t].cap = calls[c].cap
                  THEN [pendings[t] EXCEPT !.uncertain = TRUE] ELSE pendings[t]]
             /\ bindings' = bindings /\ registry' = registry /\ posts' = posts
             /\ landed' = landed
    BY <1>2 DEF BindAnswered
  <1>5. /\ PluginType' /\ landed' \in [Session -> [Message -> Nat]]
        /\ \/ calls[c].answer = "ok" /\ Accepted(c)
           \/ /\ calls[c].answer = "rejected" /\ Release(s, calls[c].cap, Ended(c))
              /\ UNCHANGED <<bindings, landed>>
           \/ /\ calls[c].answer = "error"
              /\ \A t \in Session :
                   /\ pendings'[t].cap = pendings[t].cap
                   /\ pendings'[t].present = pendings[t].present
                   /\ pendings'[t].uncertain =
                        IF t = s /\ pendings[t].cap = calls[c].cap THEN TRUE
                        ELSE pendings[t].uncertain
              /\ UNCHANGED <<bindings, registry, posts, landed>>
    <2>1. CASE calls[c].answer = "ok"
      BY <1>4, <2>1, AcceptedEffect
    <2>2. CASE calls[c].answer = "rejected"
      BY <1>1, <1>3, <1>4, <2>2, ReleaseEffect DEF PluginType, HistoryType
    <2>3. CASE calls[c].answer = "error"
      <3>1. ASSUME NEW t \in Session
            PROVE  /\ pendings'[t] \in Pendings
                   /\ pendings'[t].cap = pendings[t].cap
                   /\ pendings'[t].present = pendings[t].present
                   /\ pendings'[t].uncertain =
                        IF t = s /\ pendings[t].cap = calls[c].cap THEN TRUE
                        ELSE pendings[t].uncertain
        <4>1. pendings[t] \in Pendings
          BY <1>3 DEF PluginType
        <4>2. CASE t = s /\ pendings[t].cap = calls[c].cap
          <5>1. pendings'[t] = [pendings[t] EXCEPT !.uncertain = TRUE]
            BY <1>4, <2>3, <4>2
          <5>2. /\ pendings'[t] \in Pendings
                /\ pendings'[t].cap = pendings[t].cap
                /\ pendings'[t].present = pendings[t].present
                /\ pendings'[t].uncertain = TRUE
            BY <4>1, <5>1 DEF Pendings
          <5> QED BY <4>2, <5>2
        <4>3. CASE ~(t = s /\ pendings[t].cap = calls[c].cap)
          BY <1>4, <2>3, <4>1, <4>3
        <4> QED BY <4>2, <4>3
      <3>2. pendings' \in [Session -> Pendings]
        BY <1>4, <2>3, <3>1
      <3> QED BY <1>3, <1>4, <2>3, <3>1, <3>2 DEF PluginType, HistoryType
    <2> QED BY <1>2, <2>1, <2>2, <2>3
  <1>6. HistoryType'
    BY <1>2, <1>3, <1>5 DEF HistoryType
  <1>7. /\ calls' \in [Call -> Calls] /\ \A d \in Call : CallSound(d)'
        /\ calls'[c] = NoCallYet /\ \A d \in Call : d # c => calls'[d] = calls[d]
    BY <1>1, <1>2, EndedSound
  <1>8. \A d \in Call : calls[d].stage = "sent" => calls'[d].stage = "sent"
    BY <1>2, <1>7
  <1>9. Types'
    BY <1>2, <1>5, <1>6, <1>7, <1>8, BrokerStaysSound
  <1> QED BY <1>2, <1>5, <1>9

LEMMA BeginAuthenticatedEffect ==
  ASSUME Types, NEW c \in AuthCall, NEW action \in {"unbind", "status"},
         BeginAuthenticated(c, action)
  PROVE  /\ Types' /\ BrokerStays
         /\ UNCHANGED <<bindings, pendings, registry, posts, landed, seen, served, lapsed>>
         /\ calls[c].stage = "none" /\ calls'[c].cap = bindings[SessionOf[c]]
         /\ \A d \in Call : d # c => calls'[d] = calls[d]
PROOF
  <1> DEFINE s == SessionOf[c]
             call == [NoCallYet EXCEPT !.stage = "sent", !.action = action,
                                       !.cap = bindings[s]]
  <1>1. s \in Session /\ c \in Call /\ c \notin BindCall
    BY SessionsOfCalls
  <1>2. /\ calls[c].stage = "none" /\ calls' = [calls EXCEPT ![c] = call]
        /\ BrokerStays
        /\ UNCHANGED <<bindings, pendings, registry, posts, landed, seen, served, lapsed, faults>>
    BY DEF BeginAuthenticated, plugin, broker, history, BrokerStays
  <1>3. /\ bindings \in [Session -> Cap] /\ calls \in [Call -> Calls]
        /\ \A d \in Call : CallSound(d)
    BY DEF Types, PluginType, CallsSound
  <1>4. /\ call \in Calls /\ call.stage = "sent" /\ call.cap = bindings[s]
        /\ call.action = action /\ call.answer = "none" /\ call.cap # NoCap
    <2>1. bindings[s] \in Cap /\ bindings[s] # NoCap
      BY <1>1, <1>3 DEF BeginAuthenticated, HasBinding
    <2> QED BY <2>1, Constants DEF NoCallYet, Calls
  <1> HIDE DEF call
  <1>5. /\ calls' \in [Call -> Calls] /\ calls'[c] = call
        /\ \A d \in Call : d # c => calls'[d] = calls[d]
    BY <1>1, <1>2, <1>3, <1>4
  <1>6. ASSUME NEW d \in Call PROVE CallSound(d)'
    <2>1. CASE d = c
      BY <1>1, <1>4, <1>5, <2>1 DEF CallSound
    <2>2. CASE d # c
      BY <1>3, <1>5, <2>2 DEF CallSound
    <2> QED BY <2>1, <2>2
  <1>7. PluginType' /\ HistoryType'
    BY <1>2 DEF Types, PluginType, HistoryType
  <1>8. \A d \in Call : calls[d].stage = "sent" => calls'[d].stage = "sent"
    BY <1>2, <1>5
  <1> QED BY <1>2, <1>4, <1>5, <1>6, <1>7, <1>8, BrokerStaysSound

\* The session is not bound any more: its rotation goes on alone, or ends, or is
\* left as it was by an answer that says nothing of it.
LEMMA AuthAnsweredEffect ==
  ASSUME Types, NEW c \in AuthCall, AuthAnswered(c)
  PROVE  LET s == SessionOf[c] IN
         /\ Types' /\ BrokerStays
         /\ UNCHANGED <<posts, landed, seen, served, lapsed>>
         /\ calls[c].stage = "answered" /\ calls' = Ended(c)
         /\ \A t \in Session : t # s => /\ bindings'[t] = bindings[t]
                                        /\ pendings'[t] = pendings[t]
                                        /\ registry'[t] = registry[t]
         /\ registry'[s].delivered = registry[s].delivered
         /\ registry'[s].inflight = registry[s].inflight
         /\ registry[s].known => registry'[s].known
         /\ \/ /\ bindings'[s] = bindings[s] /\ pendings'[s] = pendings[s]
            \/ /\ bindings'[s] = NoCap
               /\ \/ pendings'[s] = pendings[s] \/ pendings'[s] = NoPending
                  \/ /\ pendings'[s].cap = pendings[s].cap
                     /\ pendings'[s].uncertain = pendings[s].uncertain
                     /\ pendings'[s].present = "absent" =>
                          pendings[s].present = "absent" \/ ~registry[s].known
PROOF
  <1> DEFINE s == SessionOf[c]
  <1>1. s \in Session /\ c \in Call
    BY SessionsOfCalls
  <1>2. /\ calls[c].stage = "answered" /\ calls' = Ended(c) /\ BrokerStays
        /\ UNCHANGED <<posts, landed, seen, served, lapsed, faults>>
    BY DEF AuthAnswered, broker, history, BrokerStays
  <1>3. /\ bindings \in [Session -> Cap] /\ pendings \in [Session -> Pendings]
        /\ registry \in [Session -> States] /\ posts \subseteq Posts
        /\ registry[s] \in States /\ pendings[s] \in Pendings
    BY <1>1 DEF Types, PluginType
  <1>4. CASE calls[c].answer = "ok" /\ calls[c].action = "unbind" /\ SameBinding(c)
    <2>1. bindings' = [bindings EXCEPT ![s] = NoCap] /\ Detached(s)
      BY <1>4 DEF AuthAnswered
    <2>2. /\ bindings' \in [Session -> Cap] /\ bindings'[s] = NoCap
          /\ \A t \in Session : t # s => bindings'[t] = bindings[t]
      BY <1>1, <1>3, <2>1, Constants
    <2>3. CASE Overtaken(s)
      <3> DEFINE p == [pendings[s] EXCEPT !.previous = NoCap, !.present = PresentAt(s)]
      <3>1. PresentAt(s) \in {"unasked", "present", "absent"}
        BY <1>3 DEF PresentAt, Pendings
      <3>2. /\ p \in Pendings /\ p.cap = pendings[s].cap
            /\ p.uncertain = pendings[s].uncertain /\ p.present = PresentAt(s)
        BY <1>3, <3>1, Constants DEF Pendings
      <3>3. pendings' = [pendings EXCEPT ![s] = p]
        <4> DEFINE half == [pendings EXCEPT ![s].previous = NoCap]
        <4>1. pendings' = [half EXCEPT ![s].present = PresentAt(s)]
          BY <2>1, <2>3 DEF Detached
        <4>2. /\ half \in [Session -> Pendings]
              /\ half[s] = [pendings[s] EXCEPT !.previous = NoCap]
              /\ \A t \in Session : t # s => half[t] = pendings[t]
          BY <1>1, <1>3, Constants DEF Pendings
        <4>3. p = [half[s] EXCEPT !.present = PresentAt(s)]
          BY <1>3, <4>2 DEF Pendings
        <4> HIDE DEF half, p
        <4> QED BY <1>1, <1>3, <4>1, <4>2, <4>3
      <3> HIDE DEF p
      <3>4. /\ pendings' \in [Session -> Pendings] /\ pendings'[s] = p
            /\ \A t \in Session : t # s => pendings'[t] = pendings[t]
        BY <1>1, <1>3, <3>2, <3>3
      <3>5. /\ registry' \in [Session -> States] /\ registry'[s] = Retained(registry[s])
            /\ \A t \in Session : t # s => registry'[t] = registry[t]
        BY <1>1, <1>3, <2>1, <2>3, RetainedSound DEF Detached
      <3>6. /\ registry'[s].delivered = registry[s].delivered
            /\ registry'[s].inflight = registry[s].inflight /\ registry'[s].known
        BY <1>3, <3>5, RetainedSound
      <3>7. p.present = "absent" => pendings[s].present = "absent" \/ ~registry[s].known
        BY <3>2 DEF PresentAt
      <3>8. PluginType' /\ HistoryType'
        BY <1>2, <2>2, <3>4, <3>5 DEF Types, PluginType, HistoryType
      <3>9. Types'
        BY <1>1, <1>2, <3>8, EndedSound, BrokerStaysSound
      <3> QED BY <1>2, <2>2, <3>2, <3>4, <3>5, <3>6, <3>7, <3>9
    <2>4. CASE ~Overtaken(s)
      <3>1. /\ pendings' \in [Session -> Pendings] /\ pendings'[s] = NoPending
            /\ \A t \in Session : t # s => pendings'[t] = pendings[t]
        BY <1>1, <1>3, <2>1, <2>4, Constants DEF Detached
      <3>2. /\ registry' \in [Session -> States] /\ registry'[s] = Cleared(registry[s])
            /\ \A t \in Session : t # s => registry'[t] = registry[t]
        BY <1>1, <1>3, <2>1, <2>4, RetainedSound DEF Detached
      <3>3. /\ registry'[s].delivered = registry[s].delivered
            /\ registry'[s].inflight = registry[s].inflight
            /\ registry'[s].known = registry[s].known
        BY <1>3, <3>2, RetainedSound
      <3>4. PluginType' /\ HistoryType'
        BY <1>2, <2>2, <3>1, <3>2 DEF Types, PluginType, HistoryType
      <3>5. Types'
        BY <1>1, <1>2, <3>4, EndedSound, BrokerStaysSound
      <3> QED BY <1>2, <2>2, <3>1, <3>2, <3>3, <3>5
    <2> QED BY <2>3, <2>4
  <1>5. CASE /\ ~(calls[c].answer = "ok" /\ calls[c].action = "unbind" /\ SameBinding(c))
             /\ calls[c].answer = "not_bound" /\ SameBinding(c)
    <2>1. /\ bindings' = [bindings EXCEPT ![s] = NoCap]
          /\ registry' = [registry EXCEPT ![s] = Cleared(registry[s])]
          /\ pendings' = pendings
      BY <1>5 DEF AuthAnswered
    <2>2. /\ bindings' \in [Session -> Cap] /\ bindings'[s] = NoCap
          /\ \A t \in Session : t # s => bindings'[t] = bindings[t]
      BY <1>1, <1>3, <2>1, Constants
    <2>3. /\ registry' \in [Session -> States] /\ registry'[s] = Cleared(registry[s])
          /\ \A t \in Session : t # s => registry'[t] = registry[t]
      BY <1>1, <1>3, <2>1, RetainedSound
    <2>4. /\ registry'[s].delivered = registry[s].delivered
          /\ registry'[s].inflight = registry[s].inflight
          /\ registry'[s].known = registry[s].known
      BY <1>3, <2>3, RetainedSound
    <2>5. PluginType' /\ HistoryType'
      BY <1>2, <2>1, <2>2, <2>3 DEF Types, PluginType, HistoryType
    <2>6. Types'
      BY <1>1, <1>2, <2>5, EndedSound, BrokerStaysSound
    <2> QED BY <1>2, <2>1, <2>2, <2>3, <2>4, <2>6
  <1>6. CASE /\ ~(calls[c].answer = "ok" /\ calls[c].action = "unbind" /\ SameBinding(c))
             /\ ~(calls[c].answer = "not_bound" /\ SameBinding(c))
    <2>1. UNCHANGED <<bindings, pendings, registry>>
      BY <1>6 DEF AuthAnswered
    <2>2. PluginType' /\ HistoryType'
      BY <1>2, <2>1 DEF Types, PluginType, HistoryType
    <2>3. Types'
      BY <1>1, <1>2, <2>2, EndedSound, BrokerStaysSound
    <2> QED BY <1>2, <2>1, <2>3
  <1> QED BY <1>4, <1>5, <1>6

LEMMA ExpireStateEffect ==
  ASSUME Types, NEW s \in Session, ExpireState(s)
  PROVE  /\ Types' /\ BrokerStays
         /\ UNCHANGED <<bindings, pendings, posts, calls, seen, served>>
         /\ registry[s].inflight = {}
         /\ registry'[s] = NoState /\ landed'[s] = [m \in Message |-> 0]
         /\ \A t \in Session : t # s => registry'[t] = registry[t] /\ landed'[t] = landed[t]
         /\ lapsed \subseteq lapsed'
         /\ HasBinding(s) \/ Overtaken(s) => s \in lapsed'
PROOF
  <1>1. /\ registry[s].inflight = {} /\ registry' = [registry EXCEPT ![s] = NoState]
        /\ landed' = [landed EXCEPT ![s] = [m \in Message |-> 0]]
        /\ lapsed \subseteq lapsed' /\ BrokerStays
        /\ UNCHANGED <<bindings, pendings, posts, calls, seen, served, faults>>
    BY DEF ExpireState, broker, BrokerStays
  <1>2. HasBinding(s) \/ Overtaken(s) => s \in lapsed'
    BY DEF ExpireState
  <1>3. /\ registry \in [Session -> States] /\ landed \in [Session -> [Message -> Nat]]
    BY DEF Types, PluginType, HistoryType
  <1>4. /\ registry' \in [Session -> States] /\ registry'[s] = NoState
        /\ \A t \in Session : t # s => registry'[t] = registry[t]
    BY <1>1, <1>3, Constants
  <1>5. [m \in Message |-> 0] \in [Message -> Nat]
    OBVIOUS
  <1>6. /\ landed' \in [Session -> [Message -> Nat]]
        /\ landed'[s] = [m \in Message |-> 0]
        /\ \A t \in Session : t # s => landed'[t] = landed[t]
    BY <1>1, <1>3, <1>5
  <1>7. PluginType' /\ HistoryType'
    BY <1>1, <1>4, <1>6 DEF Types, PluginType, HistoryType
  <1>8. calls' \in [Call -> Calls] /\ \A d \in Call : CallSound(d)'
    BY <1>1 DEF Types, CallsSound, CallSound
  <1>9. Types'
    BY <1>1, <1>7, <1>8, BrokerStaysSound
  <1> QED BY <1>1, <1>2, <1>4, <1>6, <1>9

-----------------------------------------------------------------------------
(* What the actions do to the broker.                                      *)

\* A request as it is sent, and what becomes of the registration by it.
LEMMA RequestSound ==
  ASSUME Types, NEW c \in Call, calls[c].stage = "sent"
  PROVE  /\ Request(c) \in Requests /\ Request(c).session = SessionOf[c]
         /\ Request(c).cap = calls[c].cap /\ Request(c).action = calls[c].action
         /\ Request(c).action = "bind" <=> c \in BindCall
         /\ Request(c).action = "bind" => Request(c).cap # NoCap
PROOF
  <1>1. calls[c] \in Calls /\ CallSound(c) /\ SessionOf[c] \in Session
    BY SessionsOfCalls DEF Types, CallsSound
  <1>2. /\ Request(c) \in Requests /\ Request(c).session = SessionOf[c]
        /\ Request(c).cap = calls[c].cap /\ Request(c).action = calls[c].action
    BY <1>1 DEF Request, Requests, Calls
  <1>3. c \in BindCall \/ c \in AuthCall
    BY DEF Call
  <1> QED BY <1>1, <1>2, <1>3 DEF CallSound

\* A request is handled: the bind runs, or fails at once, or the registration
\* stays as it is or ends.
HandledTo(r, c) ==
  \/ /\ r.action = "bind" /\ registration' = Registered(r) /\ route' = Registered(r)
     /\ handler' = [pc |-> "retry", call |-> c, action |-> "bind", todo |-> Queued]
     /\ served' = FALSE /\ calls' = calls
  \/ /\ r.action = "bind" /\ registration' = Registered(r) /\ route' = route
     /\ handler' = handler /\ served' = FALSE /\ Answer(c, "error")
  \/ /\ \/ registration' = registration /\ route' = route
        \/ registration' = NotBound /\ route' = NotBound
     /\ handler' = handler /\ served' = served
     /\ \E a \in {"ok", "rejected", "not_bound"} :
          Answer(c, a) /\ (r.action = "bind" => a # "not_bound")

LEMMA HandledEffect ==
  ASSUME Types, NEW r \in Requests, NEW c \in Call \cup {NoCall},
         HandleBind(r, c) \/ HandleAuthenticated(r, c)
  PROVE  HandledTo(r, c) /\ faults' \in 0..MaxFaults
PROOF
  <1>1. CASE HandleBind(r, c)
    <2>1. faults' \in 0..MaxFaults
      BY <1>1, BoundsAssumption DEF HandleBind, Fault, Types, HistoryType
    <2> QED BY <1>1, <2>1 DEF HandleBind, HandledTo
  <1>2. CASE HandleAuthenticated(r, c)
    <2>1. r.action # "bind" /\ Authorized(r) \in {"ok", "rejected", "not_bound"}
      BY <1>2 DEF HandleAuthenticated, Authorized
    <2>2. faults' \in 0..MaxFaults
      BY <1>2 DEF HandleAuthenticated, Types, HistoryType
    <2> QED BY <1>2, <2>1, <2>2 DEF HandleAuthenticated, HandledTo
  <1> QED BY <1>1, <1>2

LEMMA RegisteredSound ==
  ASSUME NEW r \in Requests
  PROVE  /\ Registered(r) \in Routes /\ Registered(r).cap = r.cap
         /\ Registered(r).session = r.session
PROOF
  <1> QED BY DEF Requests, Registered, Routes

LEMMA HandledTypes ==
  ASSUME Types, NEW r \in Requests, NEW c \in Call \cup {NoCall}, handler.pc = "idle",
         r.action = "bind" => r.cap # NoCap,
         c # NoCall => calls[c].stage = "sent" /\ (c \in BindCall => r.action = "bind"),
         HandledTo(r, c), faults' \in 0..MaxFaults, late' \subseteq late,
         UNCHANGED <<bindings, pendings, registry, posts, records, answered, landed, seen>>
  PROVE  /\ Types'
         /\ \A d \in Call : calls'[d].cap = calls[d].cap /\ (d # c => calls'[d] = calls[d])
PROOF
  <1>1. handler \in Handlers /\ handler.call = NoCall /\ handler.action = "none"
    BY DEF Types, BrokerType, CallsSound
  <1>2. Registered(r) \in Routes /\ Registered(r).cap = r.cap
    BY RegisteredSound
  <1>3. PluginType' /\ HistoryType'
    <2>1. served' \in BOOLEAN
      BY DEF HandledTo, Types, HistoryType
    <2> QED BY <2>1 DEF Types, PluginType, HistoryType
  <1>4. \A q \in late' : q.action = "bind" => q.cap # NoCap
    BY DEF Types, CallsSound
  <1>5. late' \subseteq Requests /\ records' = records /\ answered' = answered
    BY DEF Types, BrokerType
  <1>6. CASE /\ r.action = "bind" /\ registration' = Registered(r) /\ route' = Registered(r)
             /\ handler' = [pc |-> "retry", call |-> c, action |-> "bind", todo |-> Queued]
             /\ served' = FALSE /\ calls' = calls
    <2>1. handler' \in Handlers /\ handler'.pc = "retry" /\ handler'.call = c
      BY <1>6 DEF Handlers, Queued
    <2>2. BrokerType'
      BY <1>2, <1>5, <1>6, <2>1 DEF Types, BrokerType
    <2>3. Bound'
      BY <1>2, <1>6 DEF Bound
    <2>4. \A d \in Call : CallSound(d)'
      BY <1>6 DEF Types, CallsSound, CallSound
    <2> QED BY <1>3, <1>4, <1>6, <2>1, <2>2, <2>3, <2>4 DEF Types, CallsSound
  <1>7. CASE /\ r.action = "bind" /\ registration' = Registered(r) /\ route' = route
             /\ handler' = handler /\ served' = FALSE /\ Answer(c, "error")
    <2>1. BrokerType'
      BY <1>2, <1>5, <1>7 DEF Types, BrokerType
    <2>2. Bound'
      BY <1>2, <1>7 DEF Bound
    <2>3. /\ calls' \in [Call -> Calls] /\ \A d \in Call : CallSound(d)'
          /\ \A d \in Call : calls'[d].cap = calls[d].cap /\ (d # c => calls'[d] = calls[d])
      BY <1>7, AnswerSound
    <2> QED BY <1>1, <1>3, <1>4, <1>7, <2>1, <2>2, <2>3 DEF Types, CallsSound
  <1>8. CASE /\ \/ registration' = registration /\ route' = route
                \/ registration' = NotBound /\ route' = NotBound
             /\ handler' = handler /\ served' = served
             /\ \E a \in {"ok", "rejected", "not_bound"} :
                  Answer(c, a) /\ (r.action = "bind" => a # "not_bound")
    <2>1. BrokerType'
      BY <1>5, <1>8, Constants DEF Types, BrokerType
    <2>2. registration'.ready => Bound'
      BY <1>8, Constants DEF Types, CallsSound, Bound
    <2>3. /\ calls' \in [Call -> Calls] /\ \A d \in Call : CallSound(d)'
          /\ \A d \in Call : calls'[d].cap = calls[d].cap /\ (d # c => calls'[d] = calls[d])
      <3>1. PICK a \in {"ok", "rejected", "not_bound"} :
              Answer(c, a) /\ (r.action = "bind" => a # "not_bound")
        BY <1>8
      <3>2. c \in BindCall => a # "not_bound"
        BY <3>1, SessionsOfCalls
      <3> QED BY <3>1, <3>2, AnswerSound
    <2> QED BY <1>1, <1>3, <1>4, <1>8, <2>1, <2>2, <2>3 DEF Types, CallsSound
  <1> QED BY <1>6, <1>7, <1>8 DEF HandledTo

\* The step leaves the plugin alone.
PluginStays == UNCHANGED <<bindings, pendings, registry, posts>>

LEMMA DroppedEffect ==
  ASSUME Types, NEW r \in late, Dropped(r)
  PROVE  /\ Types' /\ PluginStays /\ late' \subseteq late
         /\ UNCHANGED <<calls, registration, route, records, answered, handler, landed, seen,
                        served, lapsed>>
PROOF
  <1>1. /\ PluginStays /\ late' \subseteq late
        /\ UNCHANGED <<calls, registration, route, records, answered, handler, landed, seen,
                       served, lapsed, faults>>
    BY DEF Dropped, plugin, broker, history, PluginStays
  <1>2. PluginType' /\ BrokerType' /\ HistoryType'
    BY <1>1 DEF PluginStays, Types, PluginType, BrokerType, HistoryType
  <1>3. CallsSound'
    BY <1>1 DEF Types, CallsSound, CallSound, Bound
  <1> QED BY <1>1, <1>2, <1>3 DEF Types

LEMMA QueueEffect ==
  ASSUME Types, NEW m \in Message, Queue(m)
  PROVE  /\ Types' /\ PluginStays
         /\ UNCHANGED <<calls, registration, route, answered, late, landed, seen, served,
                        lapsed>>
         /\ handler.pc = "idle" /\ handler.call = NoCall
         /\ handler'.pc = "retry" /\ handler'.call = NoCall /\ handler'.action = "queue"
         /\ records'[m] = "pending" /\ \A n \in Message : n # m => records'[n] = records[n]
PROOF
  <1>1. /\ PluginStays /\ handler.pc = "idle"
        /\ UNCHANGED <<calls, registration, route, answered, late, landed, seen, served,
                       lapsed, faults>>
        /\ records' = [records EXCEPT ![m] = "pending"]
        /\ handler' = [Idle EXCEPT !.pc = "retry", !.action = "queue", !.todo = {m}]
    BY DEF Queue, plugin, history, PluginStays
  <1>2. /\ handler' \in Handlers /\ handler'.pc = "retry" /\ handler'.call = NoCall
        /\ handler'.action = "queue"
    BY <1>1 DEF Idle, Handlers
  <1>3. records \in [Message -> {"absent", "pending", "delivered"}]
    BY DEF Types, BrokerType
  <1>4. /\ records' \in [Message -> {"absent", "pending", "delivered"}]
        /\ records'[m] = "pending" /\ \A n \in Message : n # m => records'[n] = records[n]
    BY <1>1, <1>3
  <1>5. PluginType' /\ BrokerType' /\ HistoryType'
    BY <1>1, <1>2, <1>4 DEF PluginStays, Types, PluginType, BrokerType, HistoryType
  <1>6. CallsSound'
    BY <1>1, <1>2 DEF Types, CallsSound, CallSound, Bound
  <1>7. handler.call = NoCall
    BY <1>1 DEF Types, CallsSound
  <1> QED BY <1>1, <1>2, <1>4, <1>5, <1>6, <1>7 DEF Types

\* The handler and the record of a message after an attempt to deliver it.
AttemptedTo(m, pc, status) ==
  /\ handler.pc = "retry" /\ handler'.pc = pc
  /\ handler'.call = handler.call /\ handler'.action = handler.action
  /\ handler'.todo = handler.todo \ {m}
  /\ records'[m] = status /\ \A n \in Message : n # m => records'[n] = records[n]

LEMMA PassedEffect ==
  ASSUME Types, NEW m \in Message, NEW status \in {"pending", "delivered"},
         handler.pc = "retry",
         \/ Passed(m, status)
         \/ /\ records' = [records EXCEPT ![m] = status]
            /\ handler' = [handler EXCEPT !.pc = "waiting", !.todo = @ \ {m}]
  PROVE  /\ handler' \in Handlers
         /\ records' \in [Message -> {"absent", "pending", "delivered"}]
         /\ Passed(m, status) => AttemptedTo(m, "retry", status)
         /\ ~Passed(m, status) => AttemptedTo(m, "waiting", status)
PROOF
  <1>1. /\ handler \in Handlers
        /\ records \in [Message -> {"absent", "pending", "delivered"}]
    BY DEF Types, BrokerType
  <1>2. /\ records' \in [Message -> {"absent", "pending", "delivered"}]
        /\ records'[m] = status /\ \A n \in Message : n # m => records'[n] = records[n]
    BY <1>1 DEF Passed
  <1>3. CASE Passed(m, status)
    <2>1. handler' = [handler EXCEPT !.todo = handler.todo \ {m}]
      BY <1>3 DEF Passed
    <2>2. /\ handler' \in Handlers /\ handler'.pc = handler.pc
          /\ handler'.call = handler.call /\ handler'.action = handler.action
          /\ handler'.todo = handler.todo \ {m}
      BY <1>1, <2>1 DEF Handlers
    <2> QED BY <1>2, <1>3, <2>2 DEF AttemptedTo
  <1>4. CASE ~Passed(m, status)
    <2>1. handler' = [handler EXCEPT !.pc = "waiting", !.todo = handler.todo \ {m}]
      BY <1>4
    <2>2. /\ handler' \in Handlers /\ handler'.pc = "waiting"
          /\ handler'.call = handler.call /\ handler'.action = handler.action
          /\ handler'.todo = handler.todo \ {m}
      BY <1>1, <2>1 DEF Handlers
    <2> QED BY <1>2, <1>4, <2>2 DEF AttemptedTo
  <1> QED BY <1>3, <1>4

\* A post is begun, or one that is on its way is joined.
LEMMA PostedEffect ==
  ASSUME Types, NEW s \in Session, NEW m \in Message, Posted(s, m)
  PROVE  /\ registry' \in [Session -> States] /\ posts' \subseteq Posts
         /\ \A t \in Session : t # s => registry'[t] = registry[t]
         /\ registry'[s].known /\ registry'[s].delivered = registry[s].delivered
         /\ registry'[s].inflight = registry[s].inflight \cup {m}
PROOF
  <1>1. registry \in [Session -> States] /\ posts \subseteq Posts
    BY DEF Types, PluginType
  <1> DEFINE half == [registry EXCEPT ![s].known = TRUE]
  <1>2. registry' = [half EXCEPT ![s].inflight = @ \cup {m}]
    BY DEF Posted
  <1>3. /\ half \in [Session -> States] /\ half[s] = [registry[s] EXCEPT !.known = TRUE]
        /\ \A t \in Session : t # s => half[t] = registry[t]
    BY <1>1 DEF States
  <1> HIDE DEF half
  <1>4. /\ half[s] \in States /\ half[s].known /\ half[s].delivered = registry[s].delivered
        /\ half[s].inflight = registry[s].inflight
    BY <1>1, <1>3 DEF States
  <1> DEFINE x == [half[s] EXCEPT !.inflight = half[s].inflight \cup {m}]
  <1>5. /\ x \in States /\ x.known /\ x.delivered = half[s].delivered
        /\ x.inflight = half[s].inflight \cup {m}
    BY <1>4 DEF States
  <1>6. registry' = [half EXCEPT ![s] = x]
    BY <1>2
  <1> HIDE DEF x
  <1>7. /\ registry' \in [Session -> States] /\ registry'[s] = x
        /\ \A t \in Session : t # s => registry'[t] = half[t]
    BY <1>3, <1>5, <1>6
  <1>8. posts' \subseteq Posts
    <2>1. ASSUME NEW p \in posts
          PROVE  [p EXCEPT !.awaited = p.awaited \/ (p.live /\ p.session = s /\ p.message = m)]
                   \in Posts
      <3> DEFINE b == p.awaited \/ (p.live /\ p.session = s /\ p.message = m)
      <3>1. p \in Posts
        BY <1>1
      <3>2. b \in BOOLEAN
        BY <3>1 DEF Posts
      <3> HIDE DEF b
      <3>3. [p EXCEPT !.awaited = b] \in Posts
        BY <3>1, <3>2 DEF Posts
      <3> QED BY <3>3 DEF b
    <2>2. [session |-> s, message |-> m, live |-> TRUE, awaited |-> TRUE] \in Posts
      BY DEF Posts
    <2>3. CASE m \in registry[s].inflight
      BY <2>1, <2>3 DEF Posted
    <2>4. CASE m \notin registry[s].inflight
      BY <1>1, <2>2, <2>4 DEF Posted
    <2> QED BY <2>3, <2>4
  <1> QED BY <1>3, <1>4, <1>5, <1>7, <1>8

\* The message is left for later, taken as delivered, or posted.
Attempted(m) ==
  \/ /\ UNCHANGED <<registry, posts>>
     /\ \/ AttemptedTo(m, "retry", "pending")
        \/ /\ AttemptedTo(m, "retry", "delivered")
           /\ m \in answered \/ \E s \in Relayed : m \in registry[s].delivered
  \/ /\ \E s \in Relayed : m \notin registry[s].delivered /\ Posted(s, m)
     /\ AttemptedTo(m, "waiting", "pending")

LEMMA AttemptEffect ==
  ASSUME Types, NEW m \in Message, Attempt(m)
  PROVE  /\ Types'
         /\ UNCHANGED <<bindings, pendings, calls, registration, route, answered, late,
                        landed, seen, served, lapsed>>
         /\ Attempted(m)
PROOF
  <1>1. /\ handler.pc = "retry"
        /\ UNCHANGED <<bindings, pendings, calls, registration, route, answered, late,
                       landed, seen, served, lapsed, faults>>
    BY DEF Attempt, history
  <1>2. /\ handler' \in Handlers
        /\ records' \in [Message -> {"absent", "pending", "delivered"}]
        /\ registry' \in [Session -> States] /\ posts' \subseteq Posts
        /\ \E pc \in {"retry", "waiting"}, st \in {"pending", "delivered"} :
             AttemptedTo(m, pc, st)
        /\ Attempted(m)
    <2>0. registry \in [Session -> States] /\ posts \subseteq Posts /\ handler \in Handlers
      BY DEF Types, PluginType, BrokerType
    <2>1. CASE records[m] = "delivered" /\ ~Rearmed(m)
      <3>1. Passed(m, "delivered") /\ UNCHANGED <<registry, posts>> /\ m \in answered
        BY <2>1 DEF Attempt, Rearmed
      <3>2. AttemptedTo(m, "retry", "delivered") /\ handler' \in Handlers
            /\ records' \in [Message -> {"absent", "pending", "delivered"}]
        BY <1>1, <3>1, PassedEffect
      <3> QED BY <2>0, <3>1, <3>2 DEF Attempted
    <2>2. CASE /\ ~(records[m] = "delivered" /\ ~Rearmed(m))
               /\ Passed(m, "pending") /\ UNCHANGED <<registry, posts>>
      <3>1. AttemptedTo(m, "retry", "pending") /\ handler' \in Handlers
            /\ records' \in [Message -> {"absent", "pending", "delivered"}]
        BY <1>1, <2>2, PassedEffect
      <3> QED BY <2>0, <2>2, <3>1 DEF Attempted
    <2>3. ASSUME ~(records[m] = "delivered" /\ ~Rearmed(m)), NEW s \in Relayed,
                 m \in registry[s].delivered, Passed(m, "delivered"),
                 UNCHANGED <<registry, posts>>
          PROVE  /\ handler' \in Handlers
                 /\ records' \in [Message -> {"absent", "pending", "delivered"}]
                 /\ registry' \in [Session -> States] /\ posts' \subseteq Posts
                 /\ \E pc \in {"retry", "waiting"}, st \in {"pending", "delivered"} :
                      AttemptedTo(m, pc, st)
                 /\ Attempted(m)
      <3>1. AttemptedTo(m, "retry", "delivered") /\ handler' \in Handlers
            /\ records' \in [Message -> {"absent", "pending", "delivered"}]
        BY <1>1, <2>3, PassedEffect
      <3> QED BY <2>0, <2>3, <3>1 DEF Attempted
    <2>4. ASSUME NEW s \in Relayed, m \notin registry[s].delivered,
                 records' = [records EXCEPT ![m] = "pending"],
                 handler' = [handler EXCEPT !.pc = "waiting", !.todo = @ \ {m}],
                 Posted(s, m)
          PROVE  /\ handler' \in Handlers
                 /\ records' \in [Message -> {"absent", "pending", "delivered"}]
                 /\ registry' \in [Session -> States] /\ posts' \subseteq Posts
                 /\ \E pc \in {"retry", "waiting"}, st \in {"pending", "delivered"} :
                      AttemptedTo(m, pc, st)
                 /\ Attempted(m)
      <3>1. ~Passed(m, "pending")
        <4>1. handler'.pc = "waiting"
          BY <2>0, <2>4 DEF Handlers
        <4>2. [handler EXCEPT !.todo = @ \ {m}].pc = "retry"
          BY <1>1, <2>0 DEF Handlers
        <4> QED BY <4>1, <4>2 DEF Passed
      <3>2. AttemptedTo(m, "waiting", "pending") /\ handler' \in Handlers
            /\ records' \in [Message -> {"absent", "pending", "delivered"}]
        BY <1>1, <2>4, <3>1, PassedEffect
      <3>3. s \in Session
        BY DEF Relayed
      <3>4. registry' \in [Session -> States] /\ posts' \subseteq Posts
        BY <2>4, <3>3, PostedEffect
      <3> QED BY <2>4, <3>2, <3>4 DEF Attempted
    <2> QED BY <2>1, <2>2, <2>3, <2>4 DEF Attempt
  <1>3. PluginType' /\ BrokerType' /\ HistoryType'
    BY <1>1, <1>2 DEF Types, PluginType, BrokerType, HistoryType
  <1>4. CallsSound'
    <2>1. handler'.call = handler.call /\ handler'.pc \in {"retry", "waiting"}
      BY <1>2 DEF AttemptedTo
    <2> QED BY <1>1, <2>1 DEF Types, CallsSound, CallSound, Bound
  <1> QED BY <1>1, <1>2, <1>3, <1>4 DEF Types

LEMMA UnawaitedSound ==
  ASSUME Types
  PROVE  /\ Unawaited \subseteq Posts
         /\ \A p \in Unawaited : ~p.awaited
         /\ \A p \in Unawaited : \E q \in posts :
              /\ p = [q EXCEPT !.awaited = FALSE]
              /\ p.session = q.session /\ p.message = q.message /\ p.live = q.live
PROOF
  <1>1. ASSUME NEW q \in posts
        PROVE  LET p == [q EXCEPT !.awaited = FALSE] IN
               /\ p \in Posts /\ ~p.awaited
               /\ p.session = q.session /\ p.message = q.message /\ p.live = q.live
    <2>1. q \in Posts
      BY DEF Types, PluginType
    <2> QED BY <2>1 DEF Posts
  <1> QED BY <1>1 DEF Unawaited

LEMMA TimeOutEffect ==
  ASSUME Types, TimeOut
  PROVE  /\ Types'
         /\ UNCHANGED <<bindings, pendings, registry, calls, registration, route, records,
                        answered, late, landed, seen, served, lapsed>>
         /\ handler'.pc = "retry" /\ handler'.call = handler.call
         /\ handler'.action = handler.action /\ handler'.todo = handler.todo
         /\ posts' = Unawaited
PROOF
  <1>1. /\ handler' = [handler EXCEPT !.pc = "retry"] /\ posts' = Unawaited
        /\ UNCHANGED <<bindings, pendings, registry, calls, registration, route, records,
                       answered, late, landed, seen, served, lapsed, faults>>
    BY DEF TimeOut, broker, history
  <1>2. handler \in Handlers
    BY DEF Types, BrokerType
  <1>3. /\ handler' \in Handlers /\ handler'.pc = "retry" /\ handler'.call = handler.call
        /\ handler'.action = handler.action /\ handler'.todo = handler.todo
    BY <1>1, <1>2 DEF Handlers
  <1>4. PluginType' /\ BrokerType' /\ HistoryType'
    BY <1>1, <1>3, UnawaitedSound DEF Types, PluginType, BrokerType, HistoryType
  <1>5. CallsSound'
    BY <1>1, <1>3 DEF Types, CallsSound, CallSound, Bound
  <1> QED BY <1>1, <1>3, <1>4, <1>5 DEF Types

\* What a session has of the broker is not less when a post ends.
LEMMA PostEndsEffect ==
  ASSUME Types, NEW p \in posts, NEW ok \in BOOLEAN, PostEnds(p, ok),
         p.awaited => handler.pc = "waiting"
  PROVE  LET s == p.session
             m == p.message
         IN
         /\ Types'
         /\ UNCHANGED <<bindings, pendings, calls, registration, route, answered, late,
                        served, lapsed>>
         /\ posts' = posts \ {p}
         /\ \A t \in Session : t # s => registry'[t] = registry[t] /\ landed'[t] = landed[t]
                                        /\ seen'[t] = seen[t]
         /\ \A t \in Session : seen[t] \subseteq seen'[t]
         /\ registry'[s].known = registry[s].known
         /\ ~p.live => registry' = registry /\ landed' = landed
         /\ p.live => registry'[s].inflight = registry[s].inflight \ {m}
         /\ \A n \in Message : n # m => landed'[s][n] = landed[s][n]
         /\ p.live /\ ok => /\ registry'[s].delivered = registry[s].delivered \cup {m}
                            /\ \/ landed'[s][m] = landed[s][m]
                               \/ landed'[s][m] = landed[s][m] + 1
         /\ ok => m \in seen'[s]
         /\ ~ok => registry'[s].delivered = registry[s].delivered /\ landed' = landed
         /\ handler'.call = handler.call /\ handler'.action = handler.action
         /\ handler'.todo = handler.todo
         /\ p.awaited => handler'.pc = "retry"
         /\ ~p.awaited => handler' = handler
         /\ ~(p.awaited /\ ok) => records' = records
         /\ \A n \in Message : n # m => records'[n] = records[n]
PROOF
  <1> DEFINE s == p.session
             m == p.message
             x == AfterPost(registry[s], m, ok)
  <1>1. p \in Posts
    BY DEF Types, PluginType
  <1>2. s \in Session /\ m \in Message /\ p.live \in BOOLEAN /\ p.awaited \in BOOLEAN
    BY <1>1 DEF Posts
  <1>3. /\ registry \in [Session -> States] /\ landed \in [Session -> [Message -> Nat]]
        /\ seen \in [Session -> SUBSET Message] /\ handler \in Handlers
        /\ records \in [Message -> {"absent", "pending", "delivered"}]
    BY DEF Types, PluginType, HistoryType, BrokerType
  <1>4. /\ posts' = posts \ {p}
        /\ UNCHANGED <<bindings, pendings, calls, registration, route, answered, late,
                       served, lapsed>>
        /\ faults' \in 0..MaxFaults
    BY BoundsAssumption DEF PostEnds, Fault, Types, HistoryType
  <1>5. /\ x \in States /\ x.known = registry[s].known
        /\ x.inflight = registry[s].inflight \ {m}
        /\ ok => x.delivered = registry[s].delivered \cup {m}
        /\ ~ok => x.delivered = registry[s].delivered
    <2>0. registry[s] \in States
      BY <1>2, <1>3
    <2>1. CASE ok
      BY <1>2, <2>0, <2>1 DEF AfterPost, States
    <2>2. CASE ~ok
      BY <1>2, <2>0, <2>2 DEF AfterPost, States
    <2> QED BY <2>1, <2>2
  <1>6. registry' = IF p.live THEN [registry EXCEPT ![s] = x] ELSE registry
    BY DEF PostEnds
  <1> HIDE DEF x
  <1>7. /\ registry' \in [Session -> States]
        /\ p.live => registry'[s] = x
        /\ ~p.live => registry' = registry
        /\ \A t \in Session : t # s => registry'[t] = registry[t]
    BY <1>2, <1>3, <1>5, <1>6
  <1>8. /\ seen' \in [Session -> SUBSET Message]
        /\ ok => m \in seen'[s]
        /\ \A t \in Session : seen[t] \subseteq seen'[t] /\ (t # s => seen'[t] = seen[t])
    <2>1. seen' = IF ok THEN [seen EXCEPT ![s] = seen[s] \cup {m}] ELSE seen
      BY DEF PostEnds
    <2> QED BY <1>2, <1>3, <2>1
  <1>9. /\ landed' \in [Session -> [Message -> Nat]]
        /\ \A t \in Session : t # s => landed'[t] = landed[t]
        /\ \A n \in Message : n # m => landed'[s][n] = landed[s][n]
        /\ landed'[s][m] = landed[s][m] \/ landed'[s][m] = landed[s][m] + 1
        /\ ~ok \/ ~p.live => landed' = landed
    <2>1. CASE ok /\ p.live /\ landed[s][m] < 2
      <3> DEFINE y == [landed[s] EXCEPT ![m] = landed[s][m] + 1]
      <3>1. landed' = [landed EXCEPT ![s] = y]
        BY <2>1 DEF PostEnds
      <3>2. landed[s] \in [Message -> Nat] /\ landed[s][m] \in Nat
        BY <1>2, <1>3
      <3>3. /\ y \in [Message -> Nat] /\ y[m] = landed[s][m] + 1
            /\ \A n \in Message : n # m => y[n] = landed[s][n]
        BY <1>2, <3>2
      <3> HIDE DEF y
      <3>4. /\ landed' \in [Session -> [Message -> Nat]] /\ landed'[s] = y
            /\ \A t \in Session : t # s => landed'[t] = landed[t]
        BY <1>2, <1>3, <3>1, <3>3
      <3> QED BY <2>1, <3>3, <3>4
    <2>2. CASE ~(ok /\ p.live /\ landed[s][m] < 2)
      <3>1. landed' = landed
        BY <2>2 DEF PostEnds
      <3> QED BY <1>3, <3>1
    <2> QED BY <2>1, <2>2
  <1>10. /\ handler' \in Handlers /\ handler'.call = handler.call
         /\ handler'.action = handler.action /\ handler'.todo = handler.todo
         /\ p.awaited => handler'.pc = "retry"
         /\ ~p.awaited => handler' = handler
    <2>1. CASE p.awaited
      <3>1. handler' = [handler EXCEPT !.pc = "retry"]
        BY <2>1 DEF PostEnds
      <3> QED BY <1>3, <2>1, <3>1 DEF Handlers
    <2>2. CASE ~p.awaited
      <3>1. handler' = handler
        BY <2>2 DEF PostEnds
      <3> QED BY <1>3, <2>2, <3>1
    <2> QED BY <2>1, <2>2
  <1>11. /\ records' \in [Message -> {"absent", "pending", "delivered"}]
         /\ ~(p.awaited /\ ok) => records' = records
         /\ \A n \in Message : n # m => records'[n] = records[n]
    <2>1. records' = IF p.awaited /\ ok THEN [records EXCEPT ![m] = "delivered"] ELSE records
      BY DEF PostEnds
    <2> QED BY <1>2, <1>3, <2>1
  <1>12. PluginType' /\ BrokerType' /\ HistoryType'
    <2>1. PluginType /\ BrokerType /\ HistoryType
      BY DEF Types
    <2>2. PluginType'
      BY <1>4, <1>7, <2>1 DEF PluginType
    <2>3. BrokerType'
      BY <1>4, <1>10, <1>11, <2>1 DEF BrokerType
    <2>4. HistoryType'
      <3>1. seen' \in [Session -> SUBSET Message]
        BY <1>8
      <3>2. landed' \in [Session -> [Message -> Nat]]
        BY <1>9
      <3>3. faults' \in 0..MaxFaults /\ served' \in BOOLEAN
        BY <1>4, <2>1 DEF HistoryType
      <3> QED BY <3>1, <3>2, <3>3 DEF HistoryType
    <2> QED BY <2>2, <2>3, <2>4
  <1>13. CallsSound'
    <2>1. handler'.pc \in {"idle", "down"} => handler.pc \in {"idle", "down"}
      BY <1>2, <1>10
    <2> QED BY <1>4, <1>10, <2>1 DEF Types, CallsSound, CallSound, Bound
  <1>14. /\ registry'[s].known = registry[s].known
         /\ p.live => registry'[s].inflight = registry[s].inflight \ {m}
         /\ p.live /\ ok => registry'[s].delivered = registry[s].delivered \cup {m}
         /\ ~ok => registry'[s].delivered = registry[s].delivered
    BY <1>2, <1>5, <1>7
  <1>15. Types'
    BY <1>12, <1>13 DEF Types
  <1>16. /\ \A t \in Session : t # s => registry'[t] = registry[t] /\ landed'[t] = landed[t]
                                        /\ seen'[t] = seen[t]
         /\ \A t \in Session : seen[t] \subseteq seen'[t]
         /\ ~p.live => registry' = registry /\ landed' = landed
         /\ ~ok => landed' = landed
    BY <1>7, <1>8, <1>9
  <1>17. /\ \A n \in Message : n # m => landed'[s][n] = landed[s][n]
         /\ landed'[s][m] = landed[s][m] \/ landed'[s][m] = landed[s][m] + 1
         /\ ok => m \in seen'[s]
    BY <1>8, <1>9
  <1> QED BY <1>4, <1>10, <1>11, <1>14, <1>15, <1>16, <1>17

\* The handler has come to its end, or to an exception, and its call has an answer.
HandlerDone(answer) ==
  /\ handler.pc = "retry" /\ handler' = Idle
  /\ Answer(handler.call, answer)
  /\ PluginStays
  /\ UNCHANGED <<registration, route, records, answered, late, landed, seen, lapsed>>

LEMMA HandlerDoneEffect ==
  ASSUME Types, HandlerEnds \/ HandlerRaises
  PROVE  /\ Types'
         /\ \E a \in {"ok", "error"} : HandlerDone(a)
         /\ \/ served' = served
            \/ served' = TRUE /\ handler.action = "bind" /\ handler.todo = {}
PROOF
  <1>1. PICK a \in {"ok", "error"} : HandlerDone(a)
    <2>1. CASE HandlerEnds
      BY <2>1 DEF HandlerEnds, HandlerDone, plugin, broker, PluginStays
    <2>2. CASE HandlerRaises
      BY <2>2 DEF HandlerRaises, HandlerDone, plugin, broker, history, PluginStays
    <2> QED BY <2>1, <2>2
  <1>2. /\ served' = served \/ (served' = TRUE /\ handler.action = "bind" /\ handler.todo = {})
        /\ faults' \in 0..MaxFaults
    <2>1. served \in BOOLEAN /\ faults \in 0..MaxFaults
      BY DEF Types, HistoryType
    <2>2. CASE HandlerEnds
      BY <2>1, <2>2 DEF HandlerEnds
    <2>3. CASE HandlerRaises
      BY <2>1, <2>3, BoundsAssumption DEF HandlerRaises, Fault, history
    <2> QED BY <2>2, <2>3
  <1>3. /\ handler.call \in Call \cup {NoCall}
        /\ handler.call # NoCall => calls[handler.call].stage # "none"
    BY DEF Types, BrokerType, Handlers, CallsSound
  <1>4. calls' \in [Call -> Calls] /\ \A d \in Call : CallSound(d)'
    BY <1>1, <1>3, AnswerSound DEF HandlerDone
  <1>5. PluginType' /\ BrokerType' /\ HistoryType'
    BY <1>1, <1>2, Constants
      DEF HandlerDone, PluginStays, Types, PluginType, BrokerType, HistoryType
  <1>6. CallsSound'
    BY <1>1, <1>4, Constants DEF HandlerDone, Types, CallsSound, Bound
  <1> QED BY <1>1, <1>2, <1>5, <1>6 DEF Types

LEMMA RespondEffect ==
  ASSUME Types, NEW s \in Session, NEW m \in Message, Respond(s, m)
  PROVE  /\ Types' /\ PluginStays /\ answered \subseteq answered'
         /\ UNCHANGED <<calls, registration, route, records, handler, late, landed, seen,
                        served, lapsed>>
PROOF
  <1>1. /\ PluginStays /\ answered' = answered \cup {m}
        /\ UNCHANGED <<calls, registration, route, records, handler, late, landed, seen,
                       served, lapsed, faults>>
    BY DEF Respond, plugin, history, PluginStays
  <1>2. PluginType' /\ BrokerType' /\ HistoryType'
    BY <1>1 DEF PluginStays, Types, PluginType, BrokerType, HistoryType
  <1>3. CallsSound'
    BY <1>1 DEF Types, CallsSound, CallSound, Bound
  <1> QED BY <1>1, <1>2, <1>3 DEF Types

LEMMA ExpireEffect ==
  ASSUME Types, Expire
  PROVE  /\ Types' /\ PluginStays /\ registration' = NotBound /\ route' = NotBound
         /\ handler.pc = "idle"
         /\ UNCHANGED <<calls, records, answered, handler, late, landed, seen, served, lapsed>>
PROOF
  <1>1. /\ PluginStays /\ registration' = NotBound /\ route' = NotBound /\ handler.pc = "idle"
        /\ UNCHANGED <<calls, records, answered, handler, late, landed, seen, served, lapsed,
                       faults>>
    BY DEF Expire, plugin, history, PluginStays
  <1>2. PluginType' /\ BrokerType' /\ HistoryType'
    BY <1>1, Constants DEF PluginStays, Types, PluginType, BrokerType, HistoryType
  <1>3. CallsSound'
    BY <1>1, Constants DEF Types, CallsSound, CallSound, Bound
  <1> QED BY <1>1, <1>2, <1>3 DEF Types

LEMMA LoseAnswerEffect ==
  ASSUME Types, NEW c \in Call, LoseAnswer(c)
  PROVE  /\ Types' /\ PluginStays
         /\ UNCHANGED <<registration, route, records, answered, landed, seen, served, lapsed>>
         /\ \A d \in Call : /\ calls'[d].cap = calls[d].cap
                            /\ d # c => calls'[d] = calls[d]
         /\ calls[c].stage \in {"sent", "answered"}
         /\ calls'[c].stage = "answered" /\ calls'[c].answer = "error"
         /\ handler'.pc = handler.pc /\ handler'.action = handler.action
         /\ handler'.todo = handler.todo
         /\ handler'.call = IF handler.call = c THEN NoCall ELSE handler.call
         /\ \/ late' = late
            \/ /\ late' = late \cup {Request(c)} /\ Request(c).session = SessionOf[c]
               /\ Request(c).cap = calls[c].cap
               /\ Request(c).action = "bind" => c \in BindCall
PROOF
  <1>1. /\ PluginStays
        /\ UNCHANGED <<registration, route, records, answered, landed, seen, served, lapsed>>
        /\ calls[c].stage \in {"sent", "answered"}
        /\ calls' = [calls EXCEPT ![c].stage = "answered", ![c].answer = "error"]
        /\ handler' = IF handler.call = c THEN [handler EXCEPT !.call = NoCall] ELSE handler
        /\ late' = IF calls[c].stage = "sent" /\ handler.call # c
                   THEN late \cup {Request(c)} ELSE late
        /\ faults' \in 0..MaxFaults
    BY BoundsAssumption DEF LoseAnswer, plugin, broker, history, PluginStays, Fault, Types,
      HistoryType
  <1>2. c # NoCall
    BY SessionsOfCalls
  <1>3. /\ Answer(c, "error") /\ c \in Call \cup {NoCall}
        /\ c # NoCall => calls[c].stage # "none"
    BY <1>1, <1>2 DEF Answer
  <1>4. /\ calls' \in [Call -> Calls] /\ \A d \in Call : CallSound(d)'
        /\ \A d \in Call : /\ calls'[d].cap = calls[d].cap
                           /\ d # c => calls'[d] = calls[d]
        /\ calls'[c].stage = "answered" /\ calls'[c].answer = "error"
    <2>1. "error" \in {"ok", "rejected", "error", "not_bound"} /\ "error" # "not_bound"
      OBVIOUS
    <2> QED BY <1>3, <2>1, AnswerSound
  <1>5. handler \in Handlers
    BY DEF Types, BrokerType
  <1>6. /\ handler' \in Handlers /\ handler'.pc = handler.pc
        /\ handler'.action = handler.action /\ handler'.todo = handler.todo
        /\ handler'.call = IF handler.call = c THEN NoCall ELSE handler.call
    BY <1>1, <1>5 DEF Handlers
  <1>7. \/ late' = late
        \/ /\ late' = late \cup {Request(c)} /\ Request(c).session = SessionOf[c]
           /\ Request(c) \in Requests
           /\ Request(c).cap = calls[c].cap
           /\ Request(c).action = "bind" => c \in BindCall
           /\ Request(c).action = "bind" => Request(c).cap # NoCap
    <2>1. CASE calls[c].stage = "sent"
      BY <1>1, <2>1, RequestSound
    <2>2. CASE calls[c].stage # "sent"
      BY <1>1, <2>2
    <2> QED BY <2>1, <2>2
  <1>8. PluginType' /\ BrokerType' /\ HistoryType'
    BY <1>1, <1>6, <1>7 DEF PluginStays, Types, PluginType, BrokerType, HistoryType
  <1>9. CallsSound'
    <2>1. handler'.call # NoCall => calls'[handler'.call].stage = "sent"
      BY <1>4, <1>6, HandlerCallSound
    <2>2. \A r \in late' : r.action = "bind" => r.cap # NoCap
      BY <1>7 DEF Types, CallsSound
    <2>3. handler'.pc \in {"idle", "down"} =>
            handler'.action = "none" /\ handler'.call = NoCall
      BY <1>6 DEF Types, CallsSound
    <2>4. registration'.ready => Bound'
      BY <1>1 DEF Types, CallsSound, Bound
    <2> QED BY <1>4, <2>1, <2>2, <2>3, <2>4 DEF CallsSound
  <1> QED BY <1>1, <1>4, <1>6, <1>7, <1>8, <1>9 DEF Types

LEMMA CrashEffect ==
  ASSUME Types, Crash
  PROVE  /\ Types'
         /\ UNCHANGED <<bindings, pendings, registry, route, records, answered, late, landed,
                        seen, served, lapsed>>
         /\ Answer(handler.call, "error") /\ handler'.pc = "down" /\ handler'.call = NoCall
         /\ handler'.action = "none" /\ posts' = Unawaited /\ registration' = NotBound
PROOF
  <1>1. /\ UNCHANGED <<bindings, pendings, registry, route, records, answered, late, landed,
                       seen, served, lapsed>>
        /\ Answer(handler.call, "error") /\ handler' = [Idle EXCEPT !.pc = "down"]
        /\ posts' = Unawaited /\ registration' = NotBound
        /\ faults' \in 0..MaxFaults
    BY BoundsAssumption DEF Crash, history, Fault, Types, HistoryType
  <1>2. /\ handler' \in Handlers /\ handler'.pc = "down" /\ handler'.call = NoCall
        /\ handler'.action = "none"
    BY <1>1 DEF Idle, Handlers
  <1>3. /\ handler.call \in Call \cup {NoCall}
        /\ handler.call # NoCall => calls[handler.call].stage # "none"
    BY DEF Types, BrokerType, Handlers, CallsSound
  <1>4. calls' \in [Call -> Calls] /\ \A d \in Call : CallSound(d)'
    BY <1>1, <1>3, AnswerSound
  <1>5. PluginType' /\ BrokerType' /\ HistoryType'
    BY <1>1, <1>2, Constants, UnawaitedSound
      DEF Types, PluginType, BrokerType, HistoryType
  <1>6. CallsSound'
    BY <1>1, <1>2, <1>4, Constants DEF Types, CallsSound, Bound
  <1> QED BY <1>1, <1>2, <1>5, <1>6 DEF Types

LEMMA RestartEffect ==
  ASSUME Types, Restart
  PROVE  /\ Types' /\ PluginStays
         /\ UNCHANGED <<calls, route, records, answered, late, landed, seen, served, lapsed>>
         /\ handler.pc = "down" /\ handler' = Idle
         /\ registration'.cap = route.cap /\ registration'.session = route.session
PROOF
  <1>1. /\ PluginStays
        /\ UNCHANGED <<calls, route, records, answered, late, landed, seen, served, lapsed,
                       faults>>
        /\ handler.pc = "down" /\ handler' = Idle /\ registration' = Restored
    BY DEF Restart, plugin, history, PluginStays
  <1>2. route \in Routes
    BY DEF Types, BrokerType
  <1>3. /\ registration' \in Routes /\ ~registration'.ready
        /\ registration'.cap = route.cap /\ registration'.session = route.session
    BY <1>1, <1>2 DEF Restored, Routes
  <1>4. PluginType' /\ BrokerType' /\ HistoryType'
    BY <1>1, <1>3, Constants DEF PluginStays, Types, PluginType, BrokerType, HistoryType
  <1>5. CallsSound'
    BY <1>1, <1>3, Constants DEF Types, CallsSound, CallSound, Bound
  <1> QED BY <1>1, <1>3, <1>4, <1>5 DEF Types

\* A request of a call, or of one whose caller gave up, has been handled.
Handled(r, c) ==
  /\ HandledTo(r, c)
  /\ handler.pc = "idle" /\ handler.call = NoCall /\ handler.action = "none"
  /\ PluginStays /\ late' \subseteq late
  /\ UNCHANGED <<records, answered, landed, seen, lapsed>>
  /\ r.action = "bind" => r.cap # NoCap
  /\ IF c = NoCall THEN r \in late
     ELSE /\ c \in Call /\ calls[c].stage = "sent"
          /\ r.session = SessionOf[c] /\ r.cap = calls[c].cap
          /\ r.action = "bind" <=> c \in BindCall

LEMMA HandleEffect ==
  ASSUME Types, (\E c \in Call : Handle(c)) \/ (\E r \in late : HandleLate(r))
  PROVE  \E r \in Requests, c \in Call \cup {NoCall} :
           /\ Types' /\ Handled(r, c)
           /\ \A d \in Call : calls'[d].cap = calls[d].cap /\ (d # c => calls'[d] = calls[d])
PROOF
  <1>0. handler.pc = "idle" => handler.call = NoCall /\ handler.action = "none"
    BY DEF Types, CallsSound
  <1>1. ASSUME NEW c \in Call, Handle(c)
        PROVE  \E r \in Requests, d \in Call \cup {NoCall} :
                 Handled(r, d) /\ faults' \in 0..MaxFaults
    <2> DEFINE r == Request(c)
    <2>1. /\ handler.pc = "idle" /\ calls[c].stage = "sent" /\ PluginStays /\ late' = late
          /\ UNCHANGED <<records, answered, landed, seen, lapsed>>
          /\ HandleBind(r, c) \/ HandleAuthenticated(r, c)
      BY <1>1 DEF Handle, plugin, PluginStays
    <2>2. /\ r \in Requests /\ r.session = SessionOf[c] /\ r.cap = calls[c].cap
          /\ r.action = "bind" <=> c \in BindCall
          /\ r.action = "bind" => r.cap # NoCap
      BY <2>1, RequestSound
    <2>3. HandledTo(r, c) /\ faults' \in 0..MaxFaults
      BY <2>1, <2>2, HandledEffect
    <2> HIDE DEF r
    <2>4. Handled(r, c)
      BY <1>0, <2>1, <2>2, <2>3, SessionsOfCalls DEF Handled
    <2> QED BY <2>2, <2>3, <2>4
  <1>2. ASSUME NEW r \in late, HandleLate(r)
        PROVE  \E q \in Requests, d \in Call \cup {NoCall} :
                 Handled(q, d) /\ faults' \in 0..MaxFaults
    <2>1. /\ handler.pc = "idle" /\ PluginStays /\ late' \subseteq late
          /\ UNCHANGED <<records, answered, landed, seen, lapsed>>
          /\ HandleBind(r, NoCall) \/ HandleAuthenticated(r, NoCall)
      BY <1>2 DEF HandleLate, plugin, PluginStays
    <2>2. /\ r \in Requests
          /\ r.action = "bind" => r.cap # NoCap
      BY DEF Types, BrokerType, CallsSound
    <2>3. HandledTo(r, NoCall) /\ faults' \in 0..MaxFaults
      BY <2>1, <2>2, HandledEffect
    <2>4. Handled(r, NoCall)
      BY <1>0, <2>1, <2>2, <2>3 DEF Handled
    <2> QED BY <2>2, <2>3, <2>4
  <1>3. PICK r \in Requests, c \in Call \cup {NoCall} : Handled(r, c) /\ faults' \in 0..MaxFaults
    BY <1>1, <1>2
  <1>4. c # NoCall =>
          /\ calls[c].stage = "sent"
          /\ c \in BindCall => r.action = "bind"
    BY <1>3 DEF Handled
  <1>5. /\ HandledTo(r, c) /\ handler.pc = "idle" /\ late' \subseteq late
        /\ r.action = "bind" => r.cap # NoCap
        /\ UNCHANGED <<bindings, pendings, registry, posts, records, answered, landed, seen>>
    BY <1>3 DEF Handled, PluginStays
  <1>6. /\ Types'
        /\ \A d \in Call : calls'[d].cap = calls[d].cap /\ (d # c => calls'[d] = calls[d])
    BY <1>3, <1>4, <1>5, HandledTypes
  <1> QED BY <1>3, <1>6

-----------------------------------------------------------------------------
(* A capability has one owner.                                             *)

LEMMA HoldersHold ==
  ASSUME Types
  PROVE  /\ \A s \in Session : Holds(bindings[s], s) /\ Holds(pendings[s].cap, s)
         /\ \A c \in Call : Holds(calls[c].cap, SessionOf[c])
         /\ \A r \in late : Holds(r.cap, r.session)
         /\ Holds(registration.cap, registration.session) /\ Holds(route.cap, route.session)
PROOF
  <1> QED BY DEF Holds

\* Nobody has a capability as the one of a session who did not have it before.
OwnersStay ==
  /\ \A s \in Session : bindings'[s] # NoCap => Holds(bindings'[s], s)
  /\ \A s \in Session : pendings'[s].cap # NoCap => Holds(pendings'[s].cap, s)
  /\ \A c \in Call : calls'[c].cap # NoCap => Holds(calls'[c].cap, SessionOf[c])
  /\ \A r \in late' : r.cap # NoCap => Holds(r.cap, r.session)
  /\ registration'.cap # NoCap => Holds(registration'.cap, registration'.session)
  /\ route'.cap # NoCap => Holds(route'.cap, route'.session)

LEMMA OwnersKept ==
  ASSUME OneOwner, OwnersStay
  PROVE  OneOwner'
PROOF
  <1>1. ASSUME NEW k \in Cap \ {NoCap}, NEW s \in Session, Holds(k, s)'
        PROVE  Holds(k, s)
    BY <1>1 DEF Holds, OwnersStay
  <1> QED BY <1>1 DEF OneOwner

LEMMA HeldByAll ==
  ASSUME NEW k
  PROVE  /\ \A s \in Session : Holds(k, s) => k \in Held
         /\ Sent(k) => k \in Held
PROOF
  <1>1. /\ \A s \in Session : bindings[s] \in Held /\ pendings[s].cap \in Held
        /\ \A c \in Call : calls[c].cap \in Held
        /\ \A r \in late : r.cap \in Held
        /\ registration.cap \in Held /\ route.cap \in Held
    <2>1. ASSUME NEW s \in Session PROVE bindings[s] \in Held /\ pendings[s].cap \in Held
      <3>1. pendings[s].cap \in {pendings[s].cap, pendings[s].previous}
        OBVIOUS
      <3> QED BY <3>1 DEF Held
    <2>2. ASSUME NEW c \in Call PROVE calls[c].cap \in Held
      <3>1. calls[c].cap \in {calls[c].cap, calls[c].previous}
        OBVIOUS
      <3> QED BY <3>1 DEF Held
    <2>3. ASSUME NEW r \in late PROVE r.cap \in Held
      <3>1. r.cap \in {r.cap, r.previous}
        OBVIOUS
      <3> QED BY <3>1 DEF Held
    <2>4. registration.cap \in Held /\ route.cap \in Held
      BY DEF Held
    <2> QED BY <2>1, <2>2, <2>3, <2>4
  <1> QED BY <1>1 DEF Holds, Sent

LEMMA BeginBindOwner ==
  ASSUME Types, OneOwner, NEW c \in BindCall, BeginBind(c)
  PROVE  OneOwner'
PROOF
  <1> DEFINE s == SessionOf[c]
             k == pendings'[s].cap
  <1>0. s \in Session /\ c \in Call
    BY SessionsOfCalls
  <1>1. /\ BrokerStays /\ bindings' = bindings
        /\ \A t \in Session : t # s => pendings'[t] = pendings[t]
        /\ \A d \in Call : d # c => calls'[d] = calls[d]
        /\ calls'[c].cap = k
        /\ \/ k = pendings[s].cap
           \/ k # NoCap /\ k \notin Held
    BY BeginBindEffect
  <1>2. CASE k = pendings[s].cap
    <2>1. OwnersStay
      BY <1>0, <1>1, <1>2, HoldersHold DEF OwnersStay, BrokerStays
    <2> QED BY <2>1, OwnersKept
  <1>3. CASE k # NoCap /\ k \notin Held
    <2>1. \A t \in Session : ~Holds(k, t)
      BY <1>3, HeldByAll
    <2>2. ASSUME NEW j \in Cap \ {NoCap}, NEW t \in Session, Holds(j, t)'
          PROVE  Holds(j, t) \/ (j = k /\ t = s)
      <3> HIDE DEF k, s
      <3>1. CASE bindings'[t] = j
        BY <1>1, <3>1 DEF Holds
      <3>2. CASE pendings'[t].cap = j
        BY <1>1, <3>2 DEF Holds, k
      <3>3. CASE \E d \in Call : SessionOf[d] = t /\ calls'[d].cap = j
        BY <1>1, <3>3 DEF Holds, s
      <3>4. CASE (\E r \in late' : r.session = t /\ r.cap = j)
        BY <1>1, <3>4 DEF Holds, BrokerStays
      <3>5. CASE \/ registration'.session = t /\ registration'.cap = j
                 \/ route'.session = t /\ route'.cap = j
        BY <1>1, <3>5 DEF Holds, BrokerStays
      <3> QED BY <2>2, <3>1, <3>2, <3>3, <3>4, <3>5 DEF Holds
    <2>3. ASSUME NEW j \in Cap \ {NoCap}, NEW t \in Session, NEW u \in Session,
                 Holds(j, t)', Holds(j, u)'
          PROVE  t = u
      <3>1. CASE j = k
        BY <2>1, <2>2, <2>3, <3>1
      <3>2. CASE j # k
        BY <2>2, <2>3, <3>2 DEF OneOwner
      <3> QED BY <3>1, <3>2
    <2> QED BY <2>3 DEF OneOwner
  <1> QED BY <1>1, <1>2, <1>3

LEMMA OwnerStep ==
  ASSUME Types, OneOwner, PostsSound, Next
  PROVE  OneOwner'
PROOF
  <1>0. /\ \A p \in posts : p.awaited => handler.pc = "waiting"
        /\ \A c \in Call : SessionOf[c] \in Session
        /\ NoPending.cap = NoCap /\ NoCallYet.cap = NoCap /\ NotBound.cap = NoCap
    BY SessionsOfCalls, Constants DEF PostsSound
  <1>1. ASSUME OwnersStay PROVE OneOwner'
    BY <1>1, OwnersKept
  <1>2. ASSUME UNCHANGED <<bindings, pendings, calls, late, registration, route>>
        PROVE  OwnersStay
    BY <1>2, HoldersHold DEF OwnersStay
  <1>3. ASSUME NEW c \in BindCall, BeginBind(c) PROVE OneOwner'
    BY <1>3, BeginBindOwner
  <1>4. ASSUME NEW c \in BindCall, Ensured(c) PROVE OwnersStay
    <2>1. /\ BrokerStays /\ bindings' = bindings /\ c \in Call
          /\ \A t \in Session : pendings'[t].cap = pendings[t].cap
          /\ \A d \in Call : calls'[d].cap = calls[d].cap
      BY <1>4, EnsuredEffect, SessionsOfCalls
    <2> QED BY <2>1, HoldersHold DEF OwnersStay, BrokerStays
  <1>5. ASSUME NEW c \in BindCall, EnsureFails(c) PROVE OwnersStay
    <2>1. /\ BrokerStays /\ bindings' = bindings /\ c \in Call /\ calls' = Ended(c)
          /\ Release(SessionOf[c], calls[c].cap, Ended(c))
      BY <1>5, EnsureFailsEffect, SessionsOfCalls
    <2>2. calls'[c] = NoCallYet /\ \A d \in Call : d # c => calls'[d] = calls[d]
      BY <2>1, EndedSound
    <2>3. \A t \in Session : pendings'[t] = pendings[t] \/ pendings'[t] = NoPending
      BY <1>0, <2>1, ReleaseEffect
    <2> QED BY <1>0, <2>1, <2>2, <2>3, HoldersHold DEF OwnersStay, BrokerStays
  <1>6. ASSUME NEW c \in BindCall, BindAnswered(c) PROVE OwnersStay
    <2>1. /\ BrokerStays /\ c \in Call /\ calls' = Ended(c)
      BY <1>6, BindAnsweredEffect, SessionsOfCalls
    <2>2. calls'[c] = NoCallYet /\ \A d \in Call : d # c => calls'[d] = calls[d]
      BY <2>1, EndedSound
    <2>3. /\ \A t \in Session : /\ pendings'[t].cap = pendings[t].cap \/ pendings'[t].cap = NoCap
          /\ \A t \in Session : \/ bindings'[t] = bindings[t] \/ bindings'[t] = NoCap
                                \/ bindings'[t] = calls[c].cap /\ t = SessionOf[c]
      <3>1. CASE Accepted(c)
        BY <1>0, <3>1, AcceptedEffect
      <3>2. CASE Release(SessionOf[c], calls[c].cap, Ended(c)) /\ bindings' = bindings
        BY <1>0, <2>1, <3>2, ReleaseEffect
      <3>3. CASE /\ \A t \in Session : pendings'[t].cap = pendings[t].cap
                 /\ bindings' = bindings
        BY <3>3
      <3> QED BY <1>6, <3>1, <3>2, <3>3, BindAnsweredEffect
    <2> QED BY <1>0, <2>1, <2>2, <2>3, HoldersHold DEF OwnersStay, BrokerStays
  <1>7. ASSUME NEW c \in AuthCall, NEW action \in {"unbind", "status"},
               BeginAuthenticated(c, action)
        PROVE  OwnersStay
    <2>1. /\ BrokerStays /\ bindings' = bindings /\ pendings' = pendings /\ c \in Call
          /\ calls'[c].cap = bindings[SessionOf[c]]
          /\ \A d \in Call : d # c => calls'[d] = calls[d]
      BY <1>7, BeginAuthenticatedEffect, SessionsOfCalls
    <2> QED BY <1>0, <2>1, HoldersHold DEF OwnersStay, BrokerStays
  <1>8. ASSUME NEW c \in AuthCall, AuthAnswered(c) PROVE OwnersStay
    <2>1. /\ BrokerStays /\ c \in Call /\ calls' = Ended(c)
          /\ \A t \in Session : bindings'[t] = bindings[t] \/ bindings'[t] = NoCap
          /\ \A t \in Session : pendings'[t].cap = pendings[t].cap \/ pendings'[t].cap = NoCap
      BY <1>0, <1>8, AuthAnsweredEffect, SessionsOfCalls
    <2>2. calls'[c] = NoCallYet /\ \A d \in Call : d # c => calls'[d] = calls[d]
      BY <2>1, EndedSound
    <2> QED BY <1>0, <2>1, <2>2, HoldersHold DEF OwnersStay, BrokerStays
  <1>9. ASSUME (\E c \in Call : Handle(c)) \/ (\E r \in late : HandleLate(r))
        PROVE  OwnersStay
    <2>1. PICK r \in Requests, c \in Call \cup {NoCall} :
            /\ Handled(r, c)
            /\ \A d \in Call : calls'[d].cap = calls[d].cap
      BY <1>9, HandleEffect
    <2>2. Holds(r.cap, r.session)
      BY <2>1, HoldersHold DEF Handled
    <2>3. /\ bindings' = bindings /\ pendings' = pendings /\ late' \subseteq late
          /\ registration' \in {registration, NotBound, Registered(r)}
          /\ route' \in {route, NotBound, Registered(r)}
      BY <2>1 DEF Handled, HandledTo, PluginStays
    <2> QED BY <1>0, <2>1, <2>2, <2>3, HoldersHold, RegisteredSound DEF OwnersStay
  <1>10. ASSUME NEW c \in Call, LoseAnswer(c) PROVE OwnersStay
    <2>1. /\ PluginStays /\ registration' = registration /\ route' = route
          /\ \A d \in Call : calls'[d].cap = calls[d].cap
          /\ \A r \in late' : r \in late \/ (r.session = SessionOf[c] /\ r.cap = calls[c].cap)
      BY <1>10, LoseAnswerEffect
    <2> QED BY <2>1, HoldersHold DEF OwnersStay, PluginStays
  <1>11. ASSUME NEW r \in late, Dropped(r) PROVE OwnersStay
    BY <1>11, DroppedEffect, HoldersHold DEF OwnersStay, PluginStays
  <1>12. ASSUME NEW m \in Message, Queue(m) PROVE OwnersStay
    BY <1>2, <1>12, QueueEffect DEF PluginStays
  <1>13. ASSUME NEW m \in Message, Attempt(m) PROVE OwnersStay
    BY <1>2, <1>13, AttemptEffect
  <1>14. ASSUME TimeOut PROVE OwnersStay
    BY <1>2, <1>14, TimeOutEffect
  <1>15. ASSUME NEW p \in posts, NEW ok \in BOOLEAN, PostEnds(p, ok) PROVE OwnersStay
    BY <1>2, <1>15 DEF PostEnds
  <1>16. ASSUME HandlerEnds \/ HandlerRaises PROVE OwnersStay
    <2>1. PICK a \in {"ok", "error"} : HandlerDone(a)
      BY <1>16, HandlerDoneEffect
    <2>2. /\ handler.call \in Call \cup {NoCall}
          /\ handler.call # NoCall => calls[handler.call].stage # "none"
      BY DEF Types, BrokerType, Handlers, CallsSound
    <2>3. \A d \in Call : calls'[d].cap = calls[d].cap
      BY <2>1, <2>2, AnswerSound DEF HandlerDone
    <2> QED BY <2>1, <2>3, HoldersHold DEF OwnersStay, HandlerDone, PluginStays
  <1>17. ASSUME NEW s \in Session, ExpireState(s) PROVE OwnersStay
    BY <1>2, <1>17, ExpireStateEffect DEF BrokerStays
  <1>18. ASSUME NEW s \in Session, NEW m \in Message, Respond(s, m) PROVE OwnersStay
    BY <1>2, <1>18, RespondEffect DEF PluginStays
  <1>19. ASSUME Expire PROVE OwnersStay
    BY <1>0, <1>19, ExpireEffect, HoldersHold DEF OwnersStay, PluginStays
  <1>20. ASSUME Crash PROVE OwnersStay
    <2>1. /\ handler.call \in Call \cup {NoCall}
          /\ handler.call # NoCall => calls[handler.call].stage # "none"
      BY DEF Types, BrokerType, Handlers, CallsSound
    <2>2. "error" \in {"ok", "rejected", "error", "not_bound"} /\ "error" # "not_bound"
      OBVIOUS
    <2>3. Answer(handler.call, "error") /\ UNCHANGED <<bindings, pendings, late, route>>
          /\ registration' = NotBound
      BY <1>20, CrashEffect
    <2>4. \A d \in Call : calls'[d].cap = calls[d].cap
      BY <2>1, <2>2, <2>3, AnswerSound
    <2> QED BY <1>0, <2>3, <2>4, HoldersHold DEF OwnersStay
  <1>21. ASSUME Restart PROVE OwnersStay
    BY <1>21, RestartEffect, HoldersHold DEF OwnersStay, PluginStays
  <1> QED
    BY <1>1, <1>3, <1>4, <1>5, <1>6, <1>7, <1>8, <1>9, <1>10, <1>11, <1>12, <1>13, <1>14,
      <1>15, <1>16, <1>17, <1>18, <1>19, <1>20, <1>21 DEF Next

-----------------------------------------------------------------------------
(* The posts, and what the delivery states of the sessions say of them.    *)

\* The relay finds the session that is bound.
LEMMA RelayedOwner ==
  ASSUME Types, OneOwner, NEW s \in Relayed
  PROVE  s \in Session /\ s = registration.session /\ Bound
PROOF
  <1>1. s \in Session /\ registration.ready /\ registration.cap \in {bindings[s], pendings[s].cap}
    BY DEF Relayed
  <1>2. Bound
    BY <1>1 DEF Types, CallsSound
  <1>3. registration.cap \in Cap \ {NoCap} /\ registration.session \in Session
    BY <1>2 DEF Bound, Types, BrokerType, Routes
  <1>4. Holds(registration.cap, s) /\ Holds(registration.cap, registration.session)
    BY <1>1 DEF Holds
  <1> QED BY <1>1, <1>2, <1>3, <1>4 DEF OneOwner

\* The posts and the states stay as they are, and the broker waits as before.
PostsStay ==
  /\ posts' = posts
  /\ \A s \in Session : /\ registry'[s].inflight = registry[s].inflight
                        /\ registry'[s].delivered = registry[s].delivered
  /\ handler.pc = "waiting" => handler'.pc = "waiting" /\ registration' = registration

LEMMA PostsKept ==
  ASSUME Types, PostsSound, PostsStay
  PROVE  PostsSound'
PROOF
  <1>1. \A p \in posts : p.session \in Session
    BY DEF Types, PluginType, Posts
  <1>2. \A p \in posts' : p.live =>
          p.message \in registry'[p.session].inflight /\ p.message \notin registry'[p.session].delivered
    BY <1>1 DEF PostsSound, PostsStay
  <1>3. \A p \in posts' : p.awaited =>
          handler'.pc = "waiting" /\ Bound' /\ p.session = registration'.session
    BY DEF PostsSound, PostsStay, Bound
  <1> QED BY <1>2, <1>3 DEF PostsSound, PostsStay

\* The posts to some sessions no longer count, as their states were discarded.
LEMMA PostsOrphaned ==
  ASSUME Types, PostsSound, NEW S \in SUBSET Session, posts' = Orphaned(S),
         \A s \in Session \ S : registry'[s] = registry[s],
         handler' = handler, registration' = registration
  PROVE  PostsSound'
PROOF
  <1> DEFINE f(q) == [q EXCEPT !.live = q.live /\ q.session \notin S]
  <1>1. ASSUME NEW q \in posts
        PROVE  /\ f(q).session = q.session /\ f(q).message = q.message
               /\ f(q).awaited = q.awaited /\ q.session \in Session
               /\ f(q).live => q.live /\ q.session \notin S
    <2>1. q \in Posts
      BY DEF Types, PluginType
    <2> QED BY <2>1 DEF Posts
  <1>2. posts' = {f(q) : q \in posts}
    BY DEF Orphaned
  <1> HIDE DEF f
  <1>3. ASSUME NEW p \in posts', p.live
        PROVE  /\ p.message \in registry'[p.session].inflight
               /\ p.message \notin registry'[p.session].delivered
    BY <1>1, <1>2, <1>3 DEF PostsSound
  <1>4. ASSUME NEW p \in posts', NEW q \in posts', p.live, q.live, p.session = q.session,
               p.message = q.message
        PROVE  p = q
    <2>1. PICK p0 \in posts : p = f(p0)
      BY <1>2
    <2>2. PICK q0 \in posts : q = f(q0)
      BY <1>2
    <2>3. p0 = q0
      BY <1>1, <1>4, <2>1, <2>2 DEF PostsSound
    <2> QED BY <2>1, <2>2, <2>3
  <1>5. ASSUME NEW p \in posts', NEW q \in posts', p.awaited, q.awaited
        PROVE  p = q
    <2>1. PICK p0 \in posts : p = f(p0)
      BY <1>2
    <2>2. PICK q0 \in posts : q = f(q0)
      BY <1>2
    <2>3. p0 = q0
      BY <1>1, <1>5, <2>1, <2>2 DEF PostsSound
    <2> QED BY <2>1, <2>2, <2>3
  <1>6. ASSUME NEW p \in posts', p.awaited
        PROVE  handler'.pc = "waiting" /\ Bound' /\ p.session = registration'.session
    BY <1>1, <1>2, <1>6 DEF PostsSound, Bound
  <1> QED BY <1>3, <1>4, <1>5, <1>6 DEF PostsSound

LEMMA PostsUnawaited ==
  ASSUME Types, PostsSound, posts' = Unawaited, registry' = registry
  PROVE  PostsSound'
PROOF
  <1>1. /\ \A p \in posts' : ~p.awaited
        /\ \A p \in posts' : \E q \in posts :
             /\ p = [q EXCEPT !.awaited = FALSE]
             /\ p.session = q.session /\ p.message = q.message /\ p.live = q.live
    BY UnawaitedSound
  <1>2. ASSUME NEW p \in posts', p.live
        PROVE  /\ p.message \in registry'[p.session].inflight
               /\ p.message \notin registry'[p.session].delivered
    BY <1>1, <1>2 DEF PostsSound
  <1>3. ASSUME NEW p \in posts', NEW q \in posts', p.live, q.live, p.session = q.session,
               p.message = q.message
        PROVE  p = q
    <2>1. PICK p0 \in posts :
            /\ p = [p0 EXCEPT !.awaited = FALSE]
            /\ p.session = p0.session /\ p.message = p0.message /\ p.live = p0.live
      BY <1>1
    <2>2. PICK q0 \in posts :
            /\ q = [q0 EXCEPT !.awaited = FALSE]
            /\ q.session = q0.session /\ q.message = q0.message /\ q.live = q0.live
      BY <1>1
    <2>3. p0 = q0
      BY <1>3, <2>1, <2>2 DEF PostsSound
    <2> QED BY <2>1, <2>2, <2>3
  <1> QED BY <1>1, <1>2, <1>3 DEF PostsSound

LEMMA PostedSound ==
  ASSUME Types, OneOwner, PostsSound, NEW s \in Relayed, NEW m \in Message,
         m \notin registry[s].delivered, Posted(s, m), handler.pc = "retry",
         handler'.pc = "waiting", registration' = registration
  PROVE  PostsSound'
PROOF
  <1>1. s \in Session /\ s = registration.session /\ Bound
    BY RelayedOwner
  <1>2. /\ \A t \in Session : t # s => registry'[t] = registry[t]
        /\ registry'[s].delivered = registry[s].delivered
        /\ registry'[s].inflight = registry[s].inflight \cup {m}
    BY <1>1, PostedEffect
  <1>3. /\ \A p \in posts : ~p.awaited /\ p.session \in Session
        /\ \A p \in posts : p.live \in BOOLEAN
    BY DEF PostsSound, Types, PluginType, Posts
  <1>4. CASE m \in registry[s].inflight
    <2> DEFINE f(p) == [p EXCEPT !.awaited = p.awaited \/ (p.live /\ p.session = s /\ p.message = m)]
    <2>1. ASSUME NEW p \in posts
          PROVE  /\ f(p).session = p.session /\ f(p).message = p.message /\ f(p).live = p.live
                 /\ f(p).awaited => p.live /\ p.session = s /\ p.message = m
      <3>1. p \in Posts /\ ~p.awaited
        BY <1>3 DEF Types, PluginType
      <3> QED BY <3>1 DEF Posts
    <2>2. posts' = {f(p) : p \in posts}
      BY <1>4 DEF Posted
    <2> HIDE DEF f
    <2>3. ASSUME NEW p \in posts', p.live
          PROVE  /\ p.message \in registry'[p.session].inflight
                 /\ p.message \notin registry'[p.session].delivered
      BY <1>1, <1>2, <1>3, <2>1, <2>2, <2>3 DEF PostsSound
    <2>4. ASSUME NEW p \in posts', NEW q \in posts',
                 \/ p.live /\ q.live /\ p.session = q.session /\ p.message = q.message
                 \/ p.awaited /\ q.awaited
          PROVE  p = q
      <3>1. PICK p0 \in posts : p = f(p0)
        BY <2>2
      <3>2. PICK q0 \in posts : q = f(q0)
        BY <2>2
      <3>3. p0 = q0
        BY <2>1, <2>4, <3>1, <3>2 DEF PostsSound
      <3> QED BY <3>1, <3>2, <3>3
    <2>5. ASSUME NEW p \in posts', p.awaited
          PROVE  handler'.pc = "waiting" /\ Bound' /\ p.session = registration'.session
      BY <1>1, <2>1, <2>2, <2>5 DEF Bound
    <2> QED BY <2>3, <2>4, <2>5 DEF PostsSound
  <1>5. CASE m \notin registry[s].inflight
    <2> DEFINE x == [session |-> s, message |-> m, live |-> TRUE, awaited |-> TRUE]
    <2>1. posts' = posts \cup {x}
      BY <1>5 DEF Posted
    <2>2. x.session = s /\ x.message = m /\ x.live
      OBVIOUS
    <2> HIDE DEF x
    <2>3. ASSUME NEW p \in posts', p.live
          PROVE  /\ p.message \in registry'[p.session].inflight
                 /\ p.message \notin registry'[p.session].delivered
      BY <1>1, <1>2, <1>3, <2>1, <2>2, <2>3 DEF PostsSound
    <2>4. ASSUME NEW p \in posts', NEW q \in posts',
                 \/ p.live /\ q.live /\ p.session = q.session /\ p.message = q.message
                 \/ p.awaited /\ q.awaited
          PROVE  p = q
      BY <1>3, <1>5, <2>1, <2>2, <2>4 DEF PostsSound
    <2>5. ASSUME NEW p \in posts', p.awaited
          PROVE  handler'.pc = "waiting" /\ Bound' /\ p.session = registration'.session
      BY <1>1, <1>3, <2>1, <2>2, <2>5 DEF Bound
    <2> QED BY <2>3, <2>4, <2>5 DEF PostsSound
  <1> QED BY <1>4, <1>5

LEMMA PostEndsSound ==
  ASSUME Types, PostsSound, NEW p \in posts, NEW ok \in BOOLEAN, PostEnds(p, ok)
  PROVE  PostsSound'
PROOF
  <1> DEFINE s == p.session
             m == p.message
  <1>0. p.awaited => handler.pc = "waiting"
    BY DEF PostsSound
  <1>1. /\ posts' = posts \ {p} /\ registration' = registration
        /\ \A t \in Session : t # s => registry'[t] = registry[t]
        /\ ~p.live => registry' = registry
        /\ p.live => registry'[s].inflight = registry[s].inflight \ {m}
        /\ p.live /\ ok => registry'[s].delivered = registry[s].delivered \cup {m}
        /\ ~ok => registry'[s].delivered = registry[s].delivered
        /\ ~p.awaited => handler' = handler
    BY <1>0, PostEndsEffect
  <1>2. s \in Session /\ \A q \in posts : q.session \in Session
    BY DEF Types, PluginType, Posts
  <1>3. ASSUME NEW q \in posts', q.live
        PROVE  /\ q.message \in registry'[q.session].inflight
               /\ q.message \notin registry'[q.session].delivered
    <2>1. /\ q \in posts /\ q # p /\ q.message \in registry[q.session].inflight
          /\ q.message \notin registry[q.session].delivered
      BY <1>1, <1>3 DEF PostsSound
    <2>2. CASE q.session = s /\ p.live
      <3>1. q.message # m
        BY <1>3, <2>1, <2>2 DEF PostsSound
      <3> QED BY <1>1, <2>1, <2>2, <3>1
    <2>3. CASE ~(q.session = s /\ p.live)
      BY <1>1, <1>2, <2>1, <2>3
    <2> QED BY <2>2, <2>3
  <1>4. ASSUME NEW q \in posts', q.awaited
        PROVE  handler'.pc = "waiting" /\ Bound' /\ q.session = registration'.session
    <2>1. q \in posts /\ ~p.awaited
      BY <1>1, <1>4 DEF PostsSound
    <2> QED BY <1>1, <1>4, <2>1 DEF PostsSound, Bound
  <1>5. \A q, r \in posts' : \/ q.live /\ r.live /\ q.session = r.session /\ q.message = r.message
                             \/ q.awaited /\ r.awaited
                             => q = r
    BY <1>1 DEF PostsSound
  <1> QED BY <1>3, <1>4, <1>5 DEF PostsSound

LEMMA PostsStep ==
  ASSUME Types, OneOwner, PostsSound, Next
  PROVE  PostsSound'
PROOF
  <1>0. /\ \A p \in posts : p.awaited => handler.pc = "waiting"
        /\ \A p \in posts : p.session \in Session
        /\ \A c \in Call : SessionOf[c] \in Session
        /\ NoState.delivered = {} /\ NoState.inflight = {} /\ Idle.pc = "idle"
    BY SessionsOfCalls, Constants DEF PostsSound, Types, PluginType, Posts
  <1>1. ASSUME PostsStay PROVE PostsSound'
    BY <1>1, PostsKept
  <1>2. ASSUME UNCHANGED <<registry, posts, registration, handler>> PROVE PostsSound'
    BY <1>1, <1>2 DEF PostsStay
  <1>3. ASSUME UNCHANGED <<registry, posts>>, handler.pc # "waiting" PROVE PostsSound'
    BY <1>1, <1>3 DEF PostsStay
  <1>4. ASSUME NEW s \in Session, NEW cap, NEW running, Release(s, cap, running), BrokerStays
        PROVE  PostsSound'
    <2>1. CASE UNCHANGED <<pendings, registry, posts>>
      BY <1>2, <1>4, <2>1 DEF BrokerStays
    <2>2. CASE /\ registry'[s].delivered = registry[s].delivered
               /\ registry'[s].inflight = registry[s].inflight /\ posts' = posts
      BY <1>1, <1>4, <2>2, ReleaseEffect DEF PostsStay, BrokerStays
    <2>3. CASE posts' = Orphaned({s})
      <3>1. \A t \in Session \ {s} : registry'[t] = registry[t]
        BY <1>4, ReleaseEffect
      <3> QED BY <1>4, <2>3, <3>1, PostsOrphaned DEF BrokerStays
    <2> QED BY <1>4, <2>1, <2>2, <2>3, ReleaseEffect
  <1>5. ASSUME NEW c \in BindCall, BeginBind(c) PROVE PostsSound'
    BY <1>2, <1>5, BeginBindEffect DEF BrokerStays
  <1>6. ASSUME NEW c \in BindCall, Ensured(c) PROVE PostsSound'
    <2>1. PostsStay
      BY <1>0, <1>6, EnsuredEffect DEF PostsStay, BrokerStays
    <2> QED BY <1>1, <2>1
  <1>7. ASSUME NEW c \in BindCall, EnsureFails(c) PROVE PostsSound'
    BY <1>4, <1>7, EnsureFailsEffect, SessionsOfCalls
  <1>8. ASSUME NEW c \in BindCall, BindAnswered(c) PROVE PostsSound'
    <2> DEFINE s == SessionOf[c]
    <2>0. BrokerStays /\ s \in Session
      BY <1>8, BindAnsweredEffect, SessionsOfCalls
    <2>1. CASE Accepted(c)
      <3>1. CASE UNCHANGED <<registry, posts>>
        BY <1>2, <2>0, <3>1 DEF BrokerStays
      <3>2. CASE \E moved \in SUBSET (Session \ {s}) :
                   /\ posts' = Orphaned(moved)
                   /\ \A t \in Session \ moved : registry'[t] = registry[t]
        <4>1. PICK moved \in SUBSET (Session \ {s}) :
                /\ posts' = Orphaned(moved)
                /\ \A t \in Session \ moved : registry'[t] = registry[t]
          BY <3>2
        <4> QED BY <2>0, <4>1, PostsOrphaned DEF BrokerStays
      <3> QED BY <2>1, <3>1, <3>2, AcceptedEffect
    <2>2. CASE Release(s, calls[c].cap, Ended(c))
      BY <1>4, <2>0, <2>2
    <2>3. CASE UNCHANGED <<registry, posts>>
      BY <1>2, <2>0, <2>3 DEF BrokerStays
    <2> QED BY <1>8, <2>1, <2>2, <2>3, BindAnsweredEffect
  <1>9. ASSUME NEW c \in AuthCall, NEW action \in {"unbind", "status"},
               BeginAuthenticated(c, action)
        PROVE  PostsSound'
    BY <1>2, <1>9, BeginAuthenticatedEffect DEF BrokerStays
  <1>10. ASSUME NEW c \in AuthCall, AuthAnswered(c) PROVE PostsSound'
    <2>1. PostsStay
      BY <1>10, AuthAnsweredEffect DEF PostsStay, BrokerStays
    <2> QED BY <1>1, <2>1
  <1>11. ASSUME (\E c \in Call : Handle(c)) \/ (\E r \in late : HandleLate(r))
         PROVE  PostsSound'
    BY <1>3, <1>11, HandleEffect DEF Handled, PluginStays
  <1>12. ASSUME NEW c \in Call, LoseAnswer(c) PROVE PostsSound'
    <2>1. PostsStay
      BY <1>12, LoseAnswerEffect DEF PostsStay, PluginStays
    <2> QED BY <1>1, <2>1
  <1>13. ASSUME NEW r \in late, Dropped(r) PROVE PostsSound'
    BY <1>2, <1>13, DroppedEffect DEF PluginStays
  <1>14. ASSUME NEW m \in Message, Queue(m) PROVE PostsSound'
    BY <1>3, <1>14, QueueEffect DEF PluginStays
  <1>15. ASSUME NEW m \in Message, Attempt(m) PROVE PostsSound'
    <2>1. Attempted(m) /\ registration' = registration
      BY <1>15, AttemptEffect
    <2>2. CASE UNCHANGED <<registry, posts>>
      BY <1>3, <1>15, <2>2 DEF Attempt
    <2>3. CASE /\ \E s \in Relayed : m \notin registry[s].delivered /\ Posted(s, m)
               /\ AttemptedTo(m, "waiting", "pending")
      BY <2>1, <2>3, PostedSound DEF AttemptedTo
    <2> QED BY <2>1, <2>2, <2>3 DEF Attempted
  <1>16. ASSUME TimeOut PROVE PostsSound'
    BY <1>16, TimeOutEffect, PostsUnawaited
  <1>17. ASSUME NEW p \in posts, NEW ok \in BOOLEAN, PostEnds(p, ok) PROVE PostsSound'
    BY <1>17, PostEndsSound
  <1>18. ASSUME HandlerEnds \/ HandlerRaises PROVE PostsSound'
    BY <1>3, <1>18, HandlerDoneEffect DEF HandlerDone, PluginStays
  <1>19. ASSUME NEW s \in Session, ExpireState(s) PROVE PostsSound'
    <2>1. /\ BrokerStays /\ posts' = posts /\ registry[s].inflight = {}
          /\ \A t \in Session : t # s => registry'[t] = registry[t]
      BY <1>19, ExpireStateEffect
    <2>2. \A p \in posts : p.live => p.session # s
      BY <2>1 DEF PostsSound
    <2> QED BY <1>0, <2>1, <2>2 DEF PostsSound, BrokerStays, Bound
  <1>20. ASSUME NEW s \in Session, NEW m \in Message, Respond(s, m) PROVE PostsSound'
    BY <1>2, <1>20, RespondEffect DEF PluginStays
  <1>21. ASSUME Expire PROVE PostsSound'
    BY <1>3, <1>21, ExpireEffect DEF PluginStays
  <1>22. ASSUME Crash PROVE PostsSound'
    BY <1>22, CrashEffect, PostsUnawaited
  <1>23. ASSUME Restart PROVE PostsSound'
    BY <1>3, <1>23, RestartEffect DEF PluginStays
  <1> QED
    BY <1>5, <1>6, <1>7, <1>8, <1>9, <1>10, <1>11, <1>12, <1>13, <1>14, <1>15, <1>16, <1>17,
      <1>18, <1>19, <1>20, <1>21, <1>22, <1>23 DEF Next

\* A session's state is kept, or starts again, or has another message under way.
StatesStay ==
  \A s \in Session :
    /\ seen[s] \subseteq seen'[s]
    /\ \/ registry'[s] = NoState
       \/ registry'[s].known /\ registry'[s].delivered = registry[s].delivered
       \/ /\ registry'[s].delivered = registry[s].delivered
          /\ registry'[s].inflight = registry[s].inflight
          /\ registry[s].known => registry'[s].known

LEMMA StatesKept ==
  ASSUME Types, StatesSound, StatesStay
  PROVE  StatesSound'
PROOF
  <1> QED BY Constants DEF StatesSound, StatesStay

LEMMA StatesStep ==
  ASSUME Types, OneOwner, PostsSound, StatesSound, Next
  PROVE  StatesSound'
PROOF
  <1>0. /\ \A p \in posts : p.awaited => handler.pc = "waiting"
        /\ \A c \in Call : SessionOf[c] \in Session
    BY SessionsOfCalls DEF PostsSound
  <1>1. ASSUME StatesStay PROVE StatesSound'
    BY <1>1, StatesKept
  <1>2. ASSUME UNCHANGED <<registry, seen>> PROVE StatesStay
    BY <1>2 DEF StatesStay
  <1>4. ASSUME NEW s \in Session, NEW cap, NEW running, Release(s, cap, running), seen' = seen
        PROVE  StatesStay
    BY <1>4, ReleaseEffect DEF StatesStay
  <1>5. ASSUME NEW c \in BindCall, BeginBind(c) PROVE StatesStay
    BY <1>2, <1>5, BeginBindEffect
  <1>6. ASSUME NEW c \in BindCall, Ensured(c) PROVE StatesStay
    BY <1>0, <1>6, EnsuredEffect DEF StatesStay
  <1>7. ASSUME NEW c \in BindCall, EnsureFails(c) PROVE StatesStay
    BY <1>4, <1>7, EnsureFailsEffect, SessionsOfCalls
  <1>8. ASSUME NEW c \in BindCall, BindAnswered(c) PROVE StatesStay
    <2>0. seen' = seen /\ SessionOf[c] \in Session
      BY <1>8, BindAnsweredEffect, SessionsOfCalls
    <2>1. CASE Accepted(c)
      BY <2>0, <2>1, AcceptedEffect DEF StatesStay
    <2>2. CASE Release(SessionOf[c], calls[c].cap, Ended(c))
      BY <1>4, <2>0, <2>2
    <2>3. CASE registry' = registry
      BY <1>2, <2>0, <2>3
    <2> QED BY <1>8, <2>1, <2>2, <2>3, BindAnsweredEffect
  <1>9. ASSUME NEW c \in AuthCall, NEW action \in {"unbind", "status"},
               BeginAuthenticated(c, action)
        PROVE  StatesStay
    BY <1>2, <1>9, BeginAuthenticatedEffect
  <1>10. ASSUME NEW c \in AuthCall, AuthAnswered(c) PROVE StatesStay
    BY <1>10, AuthAnsweredEffect DEF StatesStay
  <1>11. ASSUME (\E c \in Call : Handle(c)) \/ (\E r \in late : HandleLate(r))
         PROVE  StatesStay
    BY <1>2, <1>11, HandleEffect DEF Handled, PluginStays
  <1>12. ASSUME NEW c \in Call, LoseAnswer(c) PROVE StatesStay
    BY <1>2, <1>12, LoseAnswerEffect DEF PluginStays
  <1>13. ASSUME NEW r \in late, Dropped(r) PROVE StatesStay
    BY <1>2, <1>13, DroppedEffect DEF PluginStays
  <1>14. ASSUME NEW m \in Message, Queue(m) PROVE StatesStay
    BY <1>2, <1>14, QueueEffect DEF PluginStays
  <1>15. ASSUME NEW m \in Message, Attempt(m) PROVE StatesStay
    <2>1. Attempted(m) /\ seen' = seen
      BY <1>15, AttemptEffect
    <2>2. CASE UNCHANGED <<registry, posts>>
      BY <1>2, <2>1, <2>2
    <2>3. CASE \E s \in Relayed : Posted(s, m)
      <3>1. PICK s \in Relayed : Posted(s, m)
        BY <2>3
      <3>2. s \in Session
        BY <3>1 DEF Relayed
      <3> QED BY <2>1, <3>1, <3>2, PostedEffect DEF StatesStay
    <2> QED BY <2>1, <2>2, <2>3 DEF Attempted
  <1>16. ASSUME TimeOut PROVE StatesStay
    BY <1>2, <1>16, TimeOutEffect
  <1>17. ASSUME NEW p \in posts, NEW ok \in BOOLEAN, PostEnds(p, ok) PROVE StatesSound'
    <2> DEFINE s == p.session
               m == p.message
    <2>1. /\ s \in Session /\ p.live \in BOOLEAN
          /\ \A t \in Session : registry[t].known \in BOOLEAN
      <3>1. registry \in [Session -> States] /\ p \in Posts
        BY DEF Types, PluginType
      <3> QED BY <3>1 DEF States, Posts
    <2>2. /\ \A t \in Session : t # s => registry'[t] = registry[t]
          /\ \A t \in Session : seen[t] \subseteq seen'[t]
          /\ registry'[s].known = registry[s].known
          /\ ~p.live => registry' = registry
          /\ p.live => registry'[s].inflight = registry[s].inflight \ {m}
          /\ p.live /\ ok => registry'[s].delivered = registry[s].delivered \cup {m}
          /\ ok => m \in seen'[s]
          /\ ~ok => registry'[s].delivered = registry[s].delivered
      BY <1>0, <1>17, PostEndsEffect
    <2>3. CASE p.live
      <3>1. m \in registry[s].inflight
        BY <2>3 DEF PostsSound
      <3>2. registry[s].known
        BY <2>1, <3>1 DEF StatesSound
      <3>3. ASSUME NEW t \in Session
            PROVE  /\ registry'[t].delivered \subseteq seen'[t]
                   /\ ~registry'[t].known =>
                        registry'[t].delivered = {} /\ registry'[t].inflight = {}
        <4>1. CASE t = s
          BY <2>2, <2>3, <3>2, <4>1 DEF StatesSound
        <4>2. CASE t # s
          BY <2>2, <4>2 DEF StatesSound
        <4> QED BY <4>1, <4>2
      <3> QED BY <3>3 DEF StatesSound
    <2>4. CASE ~p.live
      BY <1>1, <2>2, <2>4 DEF StatesStay
    <2> QED BY <2>1, <2>3, <2>4
  <1>18. ASSUME HandlerEnds \/ HandlerRaises PROVE StatesStay
    BY <1>2, <1>18, HandlerDoneEffect DEF HandlerDone, PluginStays
  <1>19. ASSUME NEW s \in Session, ExpireState(s) PROVE StatesStay
    BY <1>19, ExpireStateEffect DEF StatesStay
  <1>20. ASSUME NEW s \in Session, NEW m \in Message, Respond(s, m) PROVE StatesStay
    BY <1>2, <1>20, RespondEffect DEF PluginStays
  <1>21. ASSUME Expire PROVE StatesStay
    BY <1>2, <1>21, ExpireEffect DEF PluginStays
  <1>22. ASSUME Crash PROVE StatesStay
    BY <1>2, <1>22, CrashEffect
  <1>23. ASSUME Restart PROVE StatesStay
    BY <1>2, <1>23, RestartEffect DEF PluginStays
  <1> QED
    BY <1>1, <1>5, <1>6, <1>7, <1>8, <1>9, <1>10, <1>11, <1>12, <1>13, <1>14, <1>15, <1>16,
      <1>17, <1>18, <1>19, <1>20, <1>21, <1>22, <1>23 DEF Next

-----------------------------------------------------------------------------
(* A rotation that the broker knows of leaves a trace in the plugin.       *)

\* A call that has been handled, and that the plugin will learn of.
Tracing(c) ==
  \/ handler.call = c
  \/ calls[c].stage = "answered" /\ calls[c].answer \in {"ok", "error"}

\* The traces stay, but perhaps for that of the call.
TracesStayBut(c) ==
  \A d \in BindCall : Tracing(d) /\ d # c => Tracing(d)' /\ calls'[d].cap = calls[d].cap

TracesStay ==
  \A d \in BindCall : Tracing(d) => Tracing(d)' /\ calls'[d].cap = calls[d].cap

SentStays == \A k \in Cap \ {NoCap} : Sent(k)' => Sent(k)

CertainStays ==
  \A s \in Session : Certain(s)' => Certain(s) /\ pendings'[s].cap = pendings[s].cap

LEMMA TraceKept ==
  ASSUME TracesStay
  PROVE  \A k \in Cap, s \in Session : Traced(k, s) => Traced(k, s)'
PROOF
  <1>1. ASSUME NEW k \in Cap, NEW s \in Session, Traced(k, s) PROVE Traced(k, s)'
    <2>1. PICK d \in BindCall : SessionOf[d] = s /\ calls[d].cap = k /\ Tracing(d)
      BY <1>1 DEF Traced, Tracing
    <2>2. calls'[d].cap = k /\ Tracing(d)'
      BY <2>1 DEF TracesStay
    <2> QED BY <2>1, <2>2 DEF Traced, Tracing
  <1> QED BY <1>1

LEMMA AcceptedKept ==
  ASSUME Types, AcceptedTraced, TracesStay, SentStays, CertainStays
  PROVE  AcceptedTraced'
PROOF
  <1>1. ASSUME NEW s \in Session, Certain(s)', Sent(pendings[s].cap)'
        PROVE  Traced(pendings[s].cap, s)'
    <2>1. Certain(s) /\ pendings'[s].cap = pendings[s].cap
      BY <1>1 DEF CertainStays
    <2>2. pendings[s].cap \in Cap \ {NoCap}
      BY <2>1 DEF Certain, Types, PluginType, Pendings
    <2>3. Traced(pendings[s].cap, s)
      BY <1>1, <2>1, <2>2 DEF AcceptedTraced, SentStays
    <2> QED BY <2>1, <2>2, <2>3, TraceKept
  <1> QED BY <1>1 DEF AcceptedTraced

\* A call that has not been sent, or has been refused, leaves no trace.
LEMMA NoTrace ==
  ASSUME Types, NEW c \in Call,
         \/ calls[c].stage \in {"none", "begun"}
         \/ calls[c].stage = "answered" /\ calls[c].answer \in {"rejected", "not_bound"}
  PROVE  ~Tracing(c)
PROOF
  <1>1. c # NoCall
    BY SessionsOfCalls
  <1>2. handler.call # c
    BY <1>1, HandlerCallSound
  <1> QED BY <1>2 DEF Tracing

\* The call of a bind that arrives leaves a trace.
LEMMA TracedByCall ==
  ASSUME Types, Types', OneOwner, NEW c \in BindCall, NEW s \in Session, Tracing(c)',
         calls'[c].cap = calls[c].cap, calls[c].cap # NoCap, pendings'[s].cap = pendings[s].cap,
         pendings[s].cap = calls[c].cap
  PROVE  Traced(pendings[s].cap, s)'
PROOF
  <1>1. c \in Call /\ SessionOf[c] \in Session
    BY SessionsOfCalls
  <1>2. pendings[s].cap \in Cap \ {NoCap}
    BY DEF Types, PluginType, Pendings
  <1>3. Holds(calls[c].cap, SessionOf[c]) /\ Holds(pendings[s].cap, s)
    BY <1>1, HoldersHold
  <1>4. SessionOf[c] = s
    BY <1>1, <1>2, <1>3 DEF OneOwner
  <1> QED BY <1>4 DEF Traced, Tracing

LEMMA BeginBindTraced ==
  ASSUME Types, AcceptedTraced, NEW c \in BindCall, BeginBind(c)
  PROVE  AcceptedTraced'
PROOF
  <1> DEFINE s == SessionOf[c]
  <1>1. /\ c \in Call /\ s \in Session /\ BrokerStays /\ calls[c].stage = "none"
        /\ \A t \in Session : t # s => pendings'[t] = pendings[t]
        /\ \A d \in Call : d # c => calls'[d] = calls[d]
        /\ \/ pendings'[s] = pendings[s]
           \/ pendings'[s].cap \notin Held
    BY BeginBindEffect, SessionsOfCalls
  <1>2. TracesStay
    BY <1>1, NoTrace, SessionsOfCalls DEF TracesStay, Tracing, BrokerStays
  <1>3. \A k : Sent(k)' <=> Sent(k)
    BY <1>1 DEF Sent, BrokerStays
  <1>4. ASSUME NEW t \in Session, Certain(t)', Sent(pendings[t].cap)'
        PROVE  Traced(pendings[t].cap, t)'
    <2>1. Sent(pendings'[t].cap)
      BY <1>3, <1>4
    <2>2. pendings'[t] = pendings[t]
      BY <1>1, <2>1, HeldByAll
    <2>3. Traced(pendings[t].cap, t) /\ pendings[t].cap \in Cap
      BY <1>4, <2>1, <2>2 DEF AcceptedTraced, Certain, Types, PluginType, Pendings
    <2> QED BY <1>2, <2>2, <2>3, TraceKept
  <1> QED BY <1>4 DEF AcceptedTraced

\* A bind is answered: its rotation is committed, or undone, or nobody knows.
LEMMA BindAnsweredTraced ==
  ASSUME Types, AcceptedTraced, NEW c \in BindCall, BindAnswered(c)
  PROVE  AcceptedTraced'
PROOF
  <1> DEFINE s == SessionOf[c]
  <1>0. c \in Call /\ s \in Session
    BY SessionsOfCalls
  <1>1. /\ BrokerStays /\ calls[c].stage = "answered"
        /\ calls'[c] = NoCallYet /\ \A d \in Call : d # c => calls'[d] = calls[d]
    BY <1>0, BindAnsweredEffect, EndedSound
  <1>2. TracesStayBut(c)
    BY <1>1, SessionsOfCalls DEF TracesStayBut, Tracing, BrokerStays
  <1>3. ASSUME NEW t \in Session, Certain(t)'
        PROVE  /\ Certain(t) /\ pendings'[t].cap = pendings[t].cap
               /\ Tracing(c) /\ t = s => pendings[t].cap # calls[c].cap
    <2>1. CASE calls[c].answer = "ok" /\ Accepted(c)
      <3>1. CASE pendings[s].cap # calls[c].cap /\ pendings' = pendings
        BY <1>3, <3>1 DEF Certain
      <3>2. CASE \A u \in Session : pendings'[u] = NoPending
        BY <1>3, <3>2, Constants DEF Certain
      <3> QED BY <2>1, <3>1, <3>2, AcceptedEffect
    <2>2. CASE calls[c].answer = "rejected" /\ Release(s, calls[c].cap, Ended(c))
      <3>1. ~Tracing(c)
        BY <1>0, <1>1, <2>2, NoTrace
      <3>2. pendings'[t] = pendings[t] \/ pendings'[t] = NoPending
        BY <1>0, <2>2, ReleaseEffect
      <3> QED BY <1>3, <3>1, <3>2, Constants DEF Certain
    <2>3. CASE \A u \in Session :
                 /\ pendings'[u].cap = pendings[u].cap
                 /\ pendings'[u].uncertain =
                      IF u = s /\ pendings[u].cap = calls[c].cap THEN TRUE
                      ELSE pendings[u].uncertain
      BY <1>3, <2>3 DEF Certain
    <2> QED BY <2>1, <2>2, <2>3, BindAnsweredEffect
  <1>4. ASSUME NEW t \in Session, Certain(t)', Sent(pendings[t].cap)'
        PROVE  Traced(pendings[t].cap, t)'
    <2>1. /\ Certain(t) /\ pendings'[t].cap = pendings[t].cap
          /\ Tracing(c) /\ t = s => pendings[t].cap # calls[c].cap
      BY <1>3, <1>4
    <2>2. Traced(pendings[t].cap, t)
      BY <1>1, <1>4, <2>1 DEF AcceptedTraced, Sent, BrokerStays
    <2>3. PICK d \in BindCall : SessionOf[d] = t /\ calls[d].cap = pendings[t].cap /\ Tracing(d)
      BY <2>2 DEF Traced, Tracing
    <2>4. d # c
      BY <2>1, <2>3
    <2>5. calls'[d].cap = pendings[t].cap /\ Tracing(d)'
      BY <1>2, <2>3, <2>4 DEF TracesStayBut
    <2> QED BY <2>1, <2>3, <2>5 DEF Traced, Tracing
  <1> QED BY <1>4 DEF AcceptedTraced

\* What the broker does, and what happens to its answers and to the posts.
BrokerActs ==
  \/ \E c \in Call : Handle(c) \/ LoseAnswer(c)
  \/ \E r \in late : HandleLate(r) \/ Dropped(r)
  \/ \E m \in Message : Queue(m) \/ Attempt(m)
  \/ TimeOut
  \/ \E p \in posts, ok \in BOOLEAN : PostEnds(p, ok)
  \/ HandlerEnds \/ HandlerRaises
  \/ \E s \in Session, m \in Message : Respond(s, m)
  \/ Expire \/ Crash \/ Restart

\* The plugin's calls are answered, and not begun, sent or ended.
CallsGoOn ==
  \A c \in Call : /\ calls'[c].cap = calls[c].cap
                   /\ \/ calls'[c].stage = calls[c].stage
                      \/ calls[c].stage = "sent" /\ calls'[c].stage = "answered"

LEMMA BrokerTraces ==
  ASSUME Types, PostsSound, BrokerActs
  PROVE  TracesStay /\ CallsGoOn /\ UNCHANGED <<bindings, pendings, lapsed>>
PROOF
  <1>0. /\ \A p \in posts : p.awaited => handler.pc = "waiting"
        /\ Idle.call = NoCall
        /\ \A c \in BindCall : c \in Call /\ c # NoCall
        /\ handler.call \in Call \cup {NoCall}
        /\ handler.call # NoCall => calls[handler.call].stage = "sent"
        /\ handler.pc \in {"idle", "down"} => handler.call = NoCall
    BY SessionsOfCalls, Constants
      DEF PostsSound, Types, BrokerType, Handlers, CallsSound
  <1>1. ASSUME calls' = calls, handler.call = NoCall \/ handler'.call = handler.call
        PROVE  TracesStay /\ CallsGoOn
    BY <1>0, <1>1 DEF TracesStay, Tracing, CallsGoOn
  <1>2. ASSUME NEW a \in {"ok", "error"}, Answer(handler.call, a), handler'.call = NoCall
        PROVE  TracesStay /\ CallsGoOn
    <2>1. /\ \A d \in Call : /\ calls'[d].cap = calls[d].cap
                             /\ d # handler.call => calls'[d] = calls[d]
                             /\ d = handler.call =>
                                  calls'[d].stage = "answered" /\ calls'[d].answer = a
      BY <1>0, <1>2, AnswerSound
    <2>2. TracesStay
      BY <1>0, <1>2, <2>1 DEF TracesStay, Tracing
    <2>3. CallsGoOn
      <3>1. ASSUME NEW d \in Call
            PROVE  \/ calls'[d].stage = calls[d].stage
                   \/ calls[d].stage = "sent" /\ calls'[d].stage = "answered"
        <4>1. CASE d = handler.call
          <5>1. handler.call # NoCall
            BY <4>1, SessionsOfCalls
          <5> QED BY <1>0, <2>1, <4>1, <5>1
        <4>2. CASE d # handler.call
          BY <2>1, <4>2
        <4> QED BY <4>1, <4>2
      <3> QED BY <2>1, <3>1 DEF CallsGoOn
    <2> QED BY <2>2, <2>3
  <1>3. ASSUME (\E c \in Call : Handle(c)) \/ (\E r \in late : HandleLate(r))
        PROVE  TracesStay /\ CallsGoOn /\ UNCHANGED <<bindings, pendings, lapsed>>
    <2>1. PICK r \in Requests, c \in Call \cup {NoCall} :
            /\ Types' /\ Handled(r, c)
            /\ \A d \in Call : calls'[d].cap = calls[d].cap /\ (d # c => calls'[d] = calls[d])
      BY <1>3, HandleEffect
    <2>2. /\ handler.call = NoCall /\ UNCHANGED <<bindings, pendings, lapsed>>
          /\ c # NoCall => c \in Call /\ calls[c].stage = "sent"
      BY <2>1 DEF Handled, PluginStays
    <2>3. ASSUME NEW d \in BindCall, Tracing(d)
          PROVE  Tracing(d)' /\ calls'[d].cap = calls[d].cap
      <3>1. d \in Call /\ d # NoCall /\ calls[d].stage = "answered"
        BY <1>0, <2>2, <2>3 DEF Tracing
      <3>2. d # c
        BY <2>2, <3>1
      <3> QED BY <2>1, <2>3, <3>1, <3>2, <2>2 DEF Tracing
    <2>4. c # NoCall => calls'[c].stage \in {"sent", "answered"}
      <3>1. CASE calls' = calls
        BY <2>2, <3>1
      <3>2. CASE \E a \in {"ok", "rejected", "error", "not_bound"} :
                   Answer(c, a) /\ (c \in BindCall => a # "not_bound")
        <4>1. PICK a \in {"ok", "rejected", "error", "not_bound"} :
                Answer(c, a) /\ (c \in BindCall => a # "not_bound")
          BY <3>2
        <4> QED BY <2>2, <4>1, AnswerSound
      <3> QED BY <1>0, <2>1, <3>1, <3>2, SessionsOfCalls DEF Handled, HandledTo
    <2>5. TracesStay
      BY <2>3 DEF TracesStay
    <2>6. CallsGoOn
      <3>1. ASSUME NEW d \in Call
            PROVE  \/ calls'[d].stage = calls[d].stage
                   \/ calls[d].stage = "sent" /\ calls'[d].stage = "answered"
        <4>1. CASE d = c
          <5>1. c # NoCall
            BY <4>1, SessionsOfCalls
          <5> QED BY <2>2, <2>4, <4>1, <5>1
        <4>2. CASE d # c
          BY <2>1, <4>2
        <4> QED BY <4>1, <4>2
      <3> QED BY <2>1, <3>1 DEF CallsGoOn
    <2> QED BY <2>2, <2>5, <2>6
  <1>4. ASSUME NEW c \in Call, LoseAnswer(c)
        PROVE  TracesStay /\ CallsGoOn /\ UNCHANGED <<bindings, pendings, lapsed>>
    BY <1>0, <1>4, LoseAnswerEffect DEF TracesStay, Tracing, CallsGoOn, PluginStays
  <1>5. ASSUME NEW r \in late, Dropped(r)
        PROVE  TracesStay /\ CallsGoOn /\ UNCHANGED <<bindings, pendings, lapsed>>
    BY <1>1, <1>5, DroppedEffect DEF PluginStays
  <1>6. ASSUME NEW m \in Message, Queue(m)
        PROVE  TracesStay /\ CallsGoOn /\ UNCHANGED <<bindings, pendings, lapsed>>
    BY <1>1, <1>6, QueueEffect DEF PluginStays
  <1>7. ASSUME NEW m \in Message, Attempt(m)
        PROVE  TracesStay /\ CallsGoOn /\ UNCHANGED <<bindings, pendings, lapsed>>
    <2>1. handler'.call = handler.call
      BY <1>7, AttemptEffect DEF Attempted, AttemptedTo
    <2> QED BY <1>1, <1>7, <2>1, AttemptEffect
  <1>8. ASSUME TimeOut
        PROVE  TracesStay /\ CallsGoOn /\ UNCHANGED <<bindings, pendings, lapsed>>
    BY <1>1, <1>8, TimeOutEffect
  <1>9. ASSUME NEW p \in posts, NEW ok \in BOOLEAN, PostEnds(p, ok)
        PROVE  TracesStay /\ CallsGoOn /\ UNCHANGED <<bindings, pendings, lapsed>>
    <2>1. UNCHANGED <<bindings, pendings, calls, lapsed>> /\ handler'.call = handler.call
      BY <1>0, <1>9, PostEndsEffect
    <2> QED BY <1>1, <2>1
  <1>10. ASSUME HandlerEnds \/ HandlerRaises
         PROVE  TracesStay /\ CallsGoOn /\ UNCHANGED <<bindings, pendings, lapsed>>
    <2>1. PICK a \in {"ok", "error"} : HandlerDone(a)
      BY <1>10, HandlerDoneEffect
    <2> QED BY <1>0, <1>2, <2>1 DEF HandlerDone, PluginStays
  <1>11. ASSUME NEW s \in Session, NEW m \in Message, Respond(s, m)
         PROVE  TracesStay /\ CallsGoOn /\ UNCHANGED <<bindings, pendings, lapsed>>
    BY <1>1, <1>11, RespondEffect DEF PluginStays
  <1>12. ASSUME Expire
         PROVE  TracesStay /\ CallsGoOn /\ UNCHANGED <<bindings, pendings, lapsed>>
    BY <1>1, <1>12, ExpireEffect DEF PluginStays
  <1>13. ASSUME Crash
         PROVE  TracesStay /\ CallsGoOn /\ UNCHANGED <<bindings, pendings, lapsed>>
    BY <1>2, <1>13, CrashEffect
  <1>14. ASSUME Restart
         PROVE  TracesStay /\ CallsGoOn /\ UNCHANGED <<bindings, pendings, lapsed>>
    <2>1. PluginStays /\ UNCHANGED <<calls, lapsed>> /\ handler.pc = "down"
      BY <1>14, RestartEffect
    <2> QED BY <1>0, <1>1, <2>1 DEF PluginStays
  <1> QED
    BY <1>3, <1>4, <1>5, <1>6, <1>7, <1>8, <1>9, <1>10, <1>11, <1>12, <1>13, <1>14
      DEF BrokerActs

LEMMA HandledTraced ==
  ASSUME Types, Types', OneOwner, AcceptedTraced, TracesStay, NEW r \in Requests,
         NEW c \in Call \cup {NoCall}, Handled(r, c),
         \A d \in Call : calls'[d].cap = calls[d].cap /\ (d # c => calls'[d] = calls[d])
  PROVE  AcceptedTraced'
PROOF
  <1>1. /\ handler.call = NoCall /\ PluginStays /\ late' \subseteq late
        /\ HandledTo(r, c)
        /\ r.action = "bind" => r.cap # NoCap
        /\ c # NoCall => /\ c \in Call /\ calls[c].stage = "sent" /\ r.cap = calls[c].cap
                         /\ r.action = "bind" <=> c \in BindCall
        /\ c = NoCall => r \in late
    BY DEF Handled
  <1>3. CertainStays
    BY <1>1 DEF CertainStays, Certain, PluginStays
  <1>4. CASE registration' \in {registration, NotBound} /\ route' \in {route, NotBound}
    <2>1. SentStays
      BY <1>1, <1>4, Constants DEF SentStays, Sent
    <2> QED BY <1>3, <2>1, AcceptedKept
  <1>5. CASE /\ r.action = "bind" /\ registration' = Registered(r)
             /\ route' \in {route, Registered(r)}
             /\ handler'.call = c \/ Answer(c, "error")
    <2>0. r.cap # NoCap /\ registration'.cap = r.cap /\ route'.cap \in {route.cap, r.cap}
      BY <1>1, <1>5, RegisteredSound
    <2>1. CASE c = NoCall
      <3>1. r \in late
        BY <1>1, <2>1
      <3>2. SentStays
        BY <1>1, <1>5, <2>0, <3>1 DEF SentStays, Sent
      <3> QED BY <1>3, <3>2, AcceptedKept
    <2>2. CASE c # NoCall
      <3>1. c \in BindCall /\ c \in Call /\ r.cap = calls[c].cap /\ calls[c].stage = "sent"
        BY <1>1, <1>5, <2>2
      <3>2. Tracing(c)'
        <4>1. CASE handler'.call = c
          BY <4>1 DEF Tracing
        <4>2. CASE Answer(c, "error")
          <5>1. /\ "error" \in {"ok", "rejected", "error", "not_bound"} /\ "error" # "not_bound"
                /\ c # NoCall => calls[c].stage # "none"
            BY <3>1
          <5>2. calls'[c].stage = "answered" /\ calls'[c].answer = "error"
            BY <3>1, <4>2, <5>1, AnswerSound
          <5> QED BY <5>2 DEF Tracing
        <4> QED BY <1>5, <4>1, <4>2
      <3>3. ASSUME NEW s \in Session, Certain(s)', Sent(pendings[s].cap)'
            PROVE  Traced(pendings[s].cap, s)'
        <4>0. /\ pendings' = pendings /\ Certain(s) /\ pendings[s].cap \in Cap
              /\ pendings[s].cap # NoCap
          BY <1>1, <3>3 DEF PluginStays, Certain, Types, PluginType, Pendings
        <4>1. CASE pendings[s].cap = r.cap
          BY <2>0, <3>1, <3>2, <4>0, <4>1, TracedByCall
        <4>2. CASE pendings[s].cap # r.cap
          <5>1. Sent(pendings[s].cap)
            BY <1>1, <2>0, <3>3, <4>0, <4>2 DEF Sent
          <5>2. Traced(pendings[s].cap, s)
            BY <4>0, <5>1 DEF AcceptedTraced
          <5> QED BY <4>0, <5>2, TraceKept
        <4> QED BY <4>1, <4>2
      <3> QED BY <3>3 DEF AcceptedTraced
    <2> QED BY <2>1, <2>2
  <1>6. CASE /\ r.action = "bind" /\ registration' = Registered(r) /\ route' = Registered(r)
             /\ handler' = [pc |-> "retry", call |-> c, action |-> "bind", todo |-> Queued]
    <2>1. handler'.call = c
      BY <1>6
    <2> QED BY <1>5, <1>6, <2>1
  <1> QED BY <1>1, <1>4, <1>5, <1>6 DEF HandledTo

LEMMA LoseAnswerTraced ==
  ASSUME Types, Types', OneOwner, AcceptedTraced, TracesStay, NEW c \in Call, LoseAnswer(c)
  PROVE  AcceptedTraced'
PROOF
  <1>1. /\ PluginStays
        /\ UNCHANGED <<registration, route>>
        /\ \A d \in Call : /\ calls'[d].cap = calls[d].cap
                           /\ d # c => calls'[d] = calls[d]
        /\ calls'[c].stage = "answered" /\ calls'[c].answer = "error"
        /\ calls[c].stage \in {"sent", "answered"}
        /\ handler'.call = IF handler.call = c THEN NoCall ELSE handler.call
        /\ \/ late' = late
           \/ /\ late' = late \cup {Request(c)}
              /\ Request(c).cap = calls[c].cap
              /\ Request(c).action = "bind" => c \in BindCall
    BY LoseAnswerEffect
  <1>3. CertainStays
    BY <1>1 DEF CertainStays, Certain, PluginStays
  <1>4. CASE ~(c \in BindCall) \/ late' = late
    <2>1. SentStays
      BY <1>1, <1>4 DEF SentStays, Sent
    <2> QED BY <1>3, <2>1, AcceptedKept
  <1>5. CASE c \in BindCall /\ late' = late \cup {Request(c)} /\ Request(c).cap = calls[c].cap
    <2>1. Tracing(c)' /\ calls[c].cap # NoCap
      BY <1>1, <1>5 DEF Tracing, Types, CallsSound, CallSound
    <2>2. ASSUME NEW s \in Session, Certain(s)', Sent(pendings[s].cap)'
          PROVE  Traced(pendings[s].cap, s)'
      <3>0. pendings' = pendings /\ Certain(s) /\ pendings[s].cap \in Cap
        BY <1>1, <2>2 DEF PluginStays, Certain, Types, PluginType, Pendings
      <3>1. CASE pendings[s].cap = calls[c].cap
        BY <1>1, <1>5, <2>1, <3>0, <3>1, TracedByCall
      <3>2. CASE pendings[s].cap # calls[c].cap
        <4>1. Sent(pendings[s].cap)
          BY <1>1, <1>5, <2>2, <3>0, <3>2 DEF Sent
        <4>2. Traced(pendings[s].cap, s)
          BY <3>0, <4>1 DEF AcceptedTraced
        <4> QED BY <3>0, <4>2, TraceKept
      <3> QED BY <3>1, <3>2
    <2> QED BY <2>2 DEF AcceptedTraced
  <1> QED BY <1>1, <1>4, <1>5

LEMMA TracedStep ==
  ASSUME Types, Types', OneOwner, PostsSound, AcceptedTraced, Next
  PROVE  AcceptedTraced'
PROOF
  <1>0. /\ \A p \in posts : p.awaited => handler.pc = "waiting"
        /\ \A c \in Call : SessionOf[c] \in Session
        /\ NoPending.cap = NoCap /\ NotBound.cap = NoCap
        /\ \A c \in BindCall : c \in Call /\ c \notin AuthCall /\ c # NoCall
    BY SessionsOfCalls, Constants DEF PostsSound
  <1>1. ASSUME TracesStay, SentStays, CertainStays PROVE AcceptedTraced'
    BY <1>1, AcceptedKept
  <1>2. ASSUME BrokerActs, SentStays PROVE AcceptedTraced'
    <2>1. TracesStay /\ CertainStays
      BY <1>2, BrokerTraces DEF CertainStays, Certain
    <2> QED BY <1>1, <1>2, <2>1
  <1>3. ASSUME BrokerStays PROVE SentStays
    BY <1>3 DEF SentStays, Sent, BrokerStays
  <1>4. ASSUME NEW c \in Call, BrokerStays, ~Tracing(c) \/ c \notin BindCall,
               \A d \in Call : d # c => calls'[d] = calls[d]
        PROVE  TracesStay
    BY <1>0, <1>4 DEF TracesStay, Tracing, BrokerStays
  <1>5. ASSUME NEW c \in BindCall, BeginBind(c) PROVE AcceptedTraced'
    BY <1>5, BeginBindTraced
  <1>6. ASSUME NEW c \in BindCall, Ensured(c) PROVE AcceptedTraced'
    <2>1. /\ BrokerStays /\ calls[c].stage = "begun" /\ c \in Call
          /\ \A d \in Call : d # c => calls'[d] = calls[d]
          /\ \A t \in Session : /\ pendings'[t].cap = pendings[t].cap
                                /\ pendings'[t].uncertain = pendings[t].uncertain
      BY <1>0, <1>6, EnsuredEffect
    <2>2. CertainStays
      BY <2>1 DEF CertainStays, Certain
    <2> QED BY <1>1, <1>3, <1>4, <2>1, <2>2, NoTrace
  <1>7. ASSUME NEW c \in BindCall, EnsureFails(c) PROVE AcceptedTraced'
    <2>1. /\ BrokerStays /\ calls[c].stage = "begun" /\ c \in Call /\ calls' = Ended(c)
          /\ Release(SessionOf[c], calls[c].cap, Ended(c))
      BY <1>0, <1>7, EnsureFailsEffect
    <2>2. \A d \in Call : d # c => calls'[d] = calls[d]
      BY <2>1, EndedSound
    <2>3. \A t \in Session : pendings'[t] = pendings[t] \/ pendings'[t] = NoPending
      BY <1>0, <2>1, ReleaseEffect
    <2>4. CertainStays
      BY <1>0, <2>3 DEF CertainStays, Certain
    <2> QED BY <1>1, <1>3, <1>4, <2>1, <2>2, <2>4, NoTrace
  <1>8. ASSUME NEW c \in BindCall, BindAnswered(c) PROVE AcceptedTraced'
    BY <1>8, BindAnsweredTraced
  <1>9. ASSUME NEW c \in AuthCall, NEW action \in {"unbind", "status"},
               BeginAuthenticated(c, action)
        PROVE  AcceptedTraced'
    <2>1. /\ BrokerStays /\ pendings' = pendings /\ c \in Call /\ c \notin BindCall
          /\ \A d \in Call : d # c => calls'[d] = calls[d]
      BY <1>9, BeginAuthenticatedEffect, SessionsOfCalls
    <2>2. CertainStays
      BY <2>1 DEF CertainStays, Certain
    <2> QED BY <1>1, <1>3, <1>4, <2>1, <2>2
  <1>10. ASSUME NEW c \in AuthCall, AuthAnswered(c) PROVE AcceptedTraced'
    <2>1. /\ BrokerStays /\ c \in Call /\ c \notin BindCall /\ calls' = Ended(c)
          /\ \A t \in Session : \/ pendings'[t] = pendings[t] \/ pendings'[t] = NoPending
                                \/ /\ pendings'[t].cap = pendings[t].cap
                                   /\ pendings'[t].uncertain = pendings[t].uncertain
      BY <1>10, AuthAnsweredEffect, SessionsOfCalls
    <2>2. \A d \in Call : d # c => calls'[d] = calls[d]
      BY <2>1, EndedSound
    <2>3. CertainStays
      BY <1>0, <2>1 DEF CertainStays, Certain
    <2> QED BY <1>1, <1>3, <1>4, <2>1, <2>2, <2>3
  <1>11. ASSUME (\E c \in Call : Handle(c)) \/ (\E r \in late : HandleLate(r))
         PROVE  AcceptedTraced'
    <2>1. TracesStay
      BY <1>11, BrokerTraces DEF BrokerActs
    <2> QED BY <1>11, <2>1, HandleEffect, HandledTraced
  <1>12. ASSUME NEW c \in Call, LoseAnswer(c) PROVE AcceptedTraced'
    <2>1. TracesStay
      BY <1>12, BrokerTraces DEF BrokerActs
    <2> QED BY <1>12, <2>1, LoseAnswerTraced
  <1>13. ASSUME NEW r \in late, Dropped(r) PROVE SentStays
    BY <1>13, DroppedEffect DEF SentStays, Sent
  <1>14. ASSUME NEW m \in Message, Queue(m) PROVE SentStays
    BY <1>14, QueueEffect DEF SentStays, Sent
  <1>15. ASSUME NEW m \in Message, Attempt(m) PROVE SentStays
    BY <1>15, AttemptEffect DEF SentStays, Sent
  <1>16. ASSUME TimeOut PROVE SentStays
    BY <1>16, TimeOutEffect DEF SentStays, Sent
  <1>17. ASSUME NEW p \in posts, NEW ok \in BOOLEAN, PostEnds(p, ok) PROVE SentStays
    <2>1. UNCHANGED <<registration, route, late>>
      BY <1>17 DEF PostEnds
    <2> QED BY <2>1 DEF SentStays, Sent
  <1>18. ASSUME HandlerEnds \/ HandlerRaises PROVE SentStays
    BY <1>18, HandlerDoneEffect DEF HandlerDone, SentStays, Sent
  <1>19. ASSUME NEW s \in Session, NEW m \in Message, Respond(s, m) PROVE SentStays
    BY <1>19, RespondEffect DEF SentStays, Sent
  <1>20. ASSUME Expire PROVE SentStays
    BY <1>0, <1>20, ExpireEffect DEF SentStays, Sent
  <1>21. ASSUME Crash PROVE SentStays
    BY <1>0, <1>21, CrashEffect DEF SentStays, Sent
  <1>22. ASSUME Restart PROVE SentStays
    BY <1>22, RestartEffect DEF SentStays, Sent
  <1>23. ASSUME NEW s \in Session, ExpireState(s) PROVE AcceptedTraced'
    <2>1. BrokerStays /\ UNCHANGED <<pendings, calls>>
      BY <1>23, ExpireStateEffect
    <2>2. TracesStay /\ CertainStays
      BY <2>1 DEF TracesStay, Tracing, CertainStays, Certain, BrokerStays
    <2> QED BY <1>1, <1>3, <2>1, <2>2
  <1>24. ASSUME BrokerActs PROVE AcceptedTraced'
    BY <1>2, <1>11, <1>12, <1>13, <1>14, <1>15, <1>16, <1>17, <1>18, <1>19, <1>20, <1>21, <1>22,
      <1>24 DEF BrokerActs
  <1> QED
    BY <1>5, <1>6, <1>7, <1>8, <1>9, <1>10, <1>23, <1>24 DEF Next, BrokerActs

-----------------------------------------------------------------------------
(* What a session has been given stays known while it can be bound.        *)

Sendish(c) == calls[c].stage \in {"sent", "answered"}

\* The state of a session and its rotation stay, or the rotation ends, or it goes on
\* after the session was detached.
RotationStays(s) ==
  /\ bindings'[s] \in {bindings[s], NoCap}
  /\ registry[s].known => registry'[s].known
  /\ registry'[s].delivered = registry[s].delivered
  /\ registry'[s].inflight = registry[s].inflight
  /\ landed'[s] = landed[s]
  /\ pendings'[s].cap # NoCap =>
       /\ pendings'[s].cap = pendings[s].cap
       /\ pendings[s].uncertain => pendings'[s].uncertain
       /\ pendings'[s].present = "absent" =>
            pendings[s].present = "absent" \/ ~registry[s].known
       /\ \A c \in BindCall : Sendish(c)' /\ calls'[c].cap = pendings[s].cap =>
            \/ Sendish(c) /\ calls[c].cap = pendings[s].cap
            \/ registry'[s].known
       /\ pendings'[s].uncertain
          \/ \A k \in Cap : k = pendings[s].cap /\ Traced(k, s) => Traced(k, s)'

LEMMA RotationKept ==
  ASSUME Types, StatesSound, NEW s \in Session, RotationSound(s), RotationStays(s)
  PROVE  RotationSound(s)'
PROOF
  <1>0. /\ registry[s].known \in BOOLEAN /\ pendings[s].uncertain \in BOOLEAN
        /\ pendings[s].cap \in Cap
    BY DEF Types, PluginType, States, Pendings
  <1>1. bindings'[s] # NoCap => registry'[s].known
    BY DEF RotationSound, RotationStays
  <1>2. ASSUME NEW c \in BindCall, Sendish(c)', pendings'[s].cap # NoCap,
               calls'[c].cap = pendings'[s].cap
        PROVE  registry'[s].known
    <2>1. \/ Sendish(c) /\ calls[c].cap = pendings[s].cap
          \/ registry'[s].known
      BY <1>2 DEF RotationStays
    <2>2. pendings[s].cap # NoCap
      BY <1>2 DEF RotationStays
    <2> QED BY <2>1, <2>2 DEF RotationSound, RotationStays, Sendish
  <1>3. ASSUME pendings'[s].cap # NoCap, pendings'[s].present = "absent"
        PROVE  /\ bindings'[s] = NoCap
               /\ \/ pendings'[s].uncertain \/ Traced(pendings[s].cap, s)'
                  \/ registry'[s].delivered = {} /\ registry'[s].inflight = {}
    <2>1. /\ pendings'[s].cap = pendings[s].cap
          /\ pendings[s].uncertain => pendings'[s].uncertain
          /\ pendings[s].present = "absent" \/ ~registry[s].known
          /\ pendings'[s].uncertain
             \/ \A k \in Cap : k = pendings[s].cap /\ Traced(k, s) => Traced(k, s)'
      BY <1>3 DEF RotationStays
    <2>2. bindings'[s] = NoCap
      BY <1>3, <2>1 DEF RotationSound, RotationStays
    <2>3. \/ pendings[s].uncertain \/ Traced(pendings[s].cap, s)
          \/ registry[s].delivered = {} /\ registry[s].inflight = {}
      BY <1>3, <2>1 DEF RotationSound, StatesSound
    <2>4. Traced(pendings[s].cap, s) => pendings'[s].uncertain \/ Traced(pendings[s].cap, s)'
      <3>1. ASSUME Traced(pendings[s].cap, s), ~pendings'[s].uncertain
            PROVE  Traced(pendings[s].cap, s)'
        <4> DEFINE k == pendings[s].cap
        <4>1. pendings'[s].cap = k /\ Traced(k, s) /\ k \in Cap
          BY <1>0, <2>1, <3>1
        <4>2. \A j \in Cap : j = k /\ Traced(j, s) => Traced(j, s)'
          BY <2>1, <3>1
        <4>3. \E j \in Cap : j = k /\ Traced(j, s)
          BY <4>1
        <4> HIDE DEF k
        <4>4. PICK j \in Cap : j = k /\ Traced(j, s)'
          BY <4>2, <4>3
        <4> QED BY <4>1, <4>4 DEF Traced
      <3> QED BY <3>1
    <2> QED BY <2>1, <2>2, <2>3, <2>4 DEF RotationStays
  <1>4. \A m \in Message : /\ landed'[s][m] <= 1
                           /\ landed'[s][m] # 0 => m \in registry'[s].delivered
    BY DEF RotationSound, RotationStays
  <1> QED BY <1>1, <1>2, <1>3, <1>4 DEF RotationSound, Sendish

\* The plugin keeps what it has of the sessions, and the calls go on.
LEMMA RotationQuiet ==
  ASSUME Types, StatesSound, TracesStay, UNCHANGED <<bindings, pendings>>,
         \A c \in BindCall : Sendish(c)' => Sendish(c) /\ calls'[c].cap = calls[c].cap,
         NEW s \in Session, registry'[s] = registry[s], landed'[s] = landed[s],
         RotationSound(s)
  PROVE  RotationSound(s)'
PROOF
  <1>1. \A k \in Cap : Traced(k, s) => Traced(k, s)'
    BY TraceKept
  <1>2. RotationStays(s)
    BY <1>1 DEF RotationStays
  <1> QED BY <1>2, RotationKept

LEMMA TraceKeptBut ==
  ASSUME NEW c, TracesStayBut(c), NEW s \in Session, NEW k \in Cap, Traced(k, s),
         ~(Tracing(c) /\ SessionOf[c] = s /\ calls[c].cap = k)
  PROVE  Traced(k, s)'
PROOF
  <1>1. PICK d \in BindCall : SessionOf[d] = s /\ calls[d].cap = k /\ Tracing(d)
    BY DEF Traced, Tracing
  <1>2. d # c
    BY <1>1
  <1>3. calls'[d].cap = k /\ Tracing(d)'
    BY <1>1, <1>2 DEF TracesStayBut
  <1> QED BY <1>1, <1>3 DEF Traced, Tracing

\* A call has ended, and the rotation it was of may have ended with it.
LEMMA RotationEnds ==
  ASSUME Types, StatesSound, NEW c \in Call, calls' = Ended(c), BrokerStays,
         NEW s \in Session, RotationSound(s), bindings'[s] \in {bindings[s], NoCap},
         registry[s].known => registry'[s].known,
         registry'[s].delivered = registry[s].delivered,
         registry'[s].inflight = registry[s].inflight, landed'[s] = landed[s],
         pendings'[s].cap # NoCap =>
           /\ pendings'[s].cap = pendings[s].cap
           /\ pendings[s].uncertain => pendings'[s].uncertain
           /\ pendings'[s].present = "absent" =>
                pendings[s].present = "absent" \/ ~registry[s].known
           /\ \/ pendings'[s].uncertain
              \/ ~(c \in BindCall /\ Tracing(c) /\ SessionOf[c] = s
                     /\ calls[c].cap = pendings[s].cap)
  PROVE  RotationSound(s)'
PROOF
  <1>1. calls'[c] = NoCallYet /\ \A d \in Call : d # c => calls'[d] = calls[d]
    BY EndedSound
  <1>2. \A d \in BindCall : Sendish(d)' => Sendish(d) /\ calls'[d].cap = calls[d].cap
    BY <1>1, Constants, SessionsOfCalls DEF Sendish
  <1>3. TracesStayBut(c)
    BY <1>1, SessionsOfCalls DEF TracesStayBut, Tracing, BrokerStays
  <1>4. ASSUME pendings'[s].cap # NoCap, ~pendings'[s].uncertain, NEW k \in Cap,
               k = pendings[s].cap, Traced(k, s)
        PROVE  Traced(k, s)'
    <2>1. CASE c \in BindCall
      BY <1>3, <1>4, <2>1, TraceKeptBut
    <2>2. CASE c \notin BindCall
      <3>1. TracesStay
        BY <1>3, <2>2 DEF TracesStay, TracesStayBut
      <3> QED BY <1>4, <3>1, TraceKept
    <2> QED BY <2>1, <2>2
  <1>5. RotationStays(s)
    BY <1>2, <1>4 DEF RotationStays
  <1> QED BY <1>5, RotationKept

LEMMA BeginBindRotation ==
  ASSUME Types, StatesSound, NEW c \in BindCall, BeginBind(c),
         NEW t \in Session, RotationSound(t)
  PROVE  RotationSound(t)'
PROOF
  <1> DEFINE s == SessionOf[c]
  <1>1. /\ c \in Call /\ s \in Session /\ BrokerStays
        /\ UNCHANGED <<bindings, registry, landed>>
        /\ \A u \in Session : u # s => pendings'[u] = pendings[u]
        /\ \A d \in Call : d # c => calls'[d] = calls[d]
        /\ calls[c].stage = "none" /\ calls'[c].stage = "begun"
        /\ \/ pendings'[s] = pendings[s]
           \/ pendings'[s].cap \notin Held /\ pendings'[s].present = "unasked"
    BY BeginBindEffect, SessionsOfCalls
  <1>2. TracesStay
    BY <1>1, NoTrace, SessionsOfCalls DEF TracesStay, Tracing, BrokerStays
  <1>3. \A d \in BindCall : Sendish(d)' => Sendish(d) /\ calls'[d] = calls[d]
    BY <1>1, SessionsOfCalls DEF Sendish
  <1>4. CASE pendings'[t] = pendings[t]
    <2>1. \A k \in Cap : Traced(k, t) => Traced(k, t)'
      BY <1>2, TraceKept
    <2>2. RotationStays(t)
      BY <1>1, <1>3, <1>4, <2>1 DEF RotationStays
    <2> QED BY <2>2, RotationKept
  <1>5. CASE t = s /\ pendings'[s].cap \notin Held /\ pendings'[s].present = "unasked"
    <2>1. \A d \in BindCall : Sendish(d)' => calls'[d].cap # pendings'[s].cap
      <3>1. ASSUME NEW d \in BindCall, Sendish(d)', calls'[d].cap = pendings'[s].cap
            PROVE  FALSE
        <4>1. calls[d].cap \in Held
          <5>1. calls[d].cap \in {calls[d].cap, calls[d].previous} /\ d \in Call
            BY SessionsOfCalls
          <5> QED BY <5>1 DEF Held
        <4> QED BY <1>3, <1>5, <3>1, <4>1
      <3> QED BY <3>1
    <2> QED BY <1>1, <1>5, <2>1 DEF RotationSound, Sendish
  <1> QED BY <1>1, <1>4, <1>5

LEMMA EnsuredRotation ==
  ASSUME Types, OneOwner, StatesSound, NEW c \in BindCall, Ensured(c),
         NEW t \in Session, RotationSound(t)
  PROVE  RotationSound(t)'
PROOF
  <1> DEFINE s == SessionOf[c]
  <1>1. /\ c \in Call /\ s \in Session /\ BrokerStays
        /\ UNCHANGED <<bindings, landed>>
        /\ \A u \in Session : u # s => pendings'[u] = pendings[u] /\ registry'[u] = registry[u]
        /\ \A d \in Call : d # c => calls'[d] = calls[d]
        /\ calls[c].stage = "begun" /\ calls'[c].cap = calls[c].cap
        /\ registry'[s].known /\ registry'[s].delivered = registry[s].delivered
        /\ registry'[s].inflight = registry[s].inflight
        /\ pendings'[s].cap = pendings[s].cap
        /\ pendings'[s].uncertain = pendings[s].uncertain
        /\ pendings'[s].present = "absent" =>
             pendings[s].present = "absent" \/ ~registry[s].known
    BY EnsuredEffect, SessionsOfCalls
  <1>2. TracesStay
    BY <1>1, NoTrace, SessionsOfCalls DEF TracesStay, Tracing, BrokerStays
  <1>3. \A k \in Cap : Traced(k, t) => Traced(k, t)'
    BY <1>2, TraceKept
  <1>4. \A d \in BindCall : Sendish(d)' => d = c \/ (Sendish(d) /\ calls'[d] = calls[d])
    BY <1>1, SessionsOfCalls DEF Sendish
  <1>5. CASE t = s
    <2>1. RotationStays(t)
      BY <1>1, <1>3, <1>4, <1>5 DEF RotationStays
    <2> QED BY <2>1, RotationKept
  <1>6. CASE t # s
    <2>1. pendings[t].cap # NoCap => calls[c].cap # pendings[t].cap
      <3>1. ASSUME pendings[t].cap # NoCap, calls[c].cap = pendings[t].cap PROVE FALSE
        <4>1. pendings[t].cap \in Cap \ {NoCap}
          BY <3>1 DEF Types, PluginType, Pendings
        <4>2. Holds(pendings[t].cap, t) /\ Holds(pendings[t].cap, s)
          BY <1>1, <3>1 DEF Holds
        <4> QED BY <1>1, <1>6, <4>1, <4>2 DEF OneOwner
      <3> QED BY <3>1
    <2>2. RotationStays(t)
      BY <1>1, <1>3, <1>4, <1>6, <2>1 DEF RotationStays
    <2> QED BY <2>2, RotationKept
  <1> QED BY <1>5, <1>6

\* A rotation that was not committed is undone.  Its state is discarded only if there
\* was none before and nothing was given to the session since.
LEMMA ReleaseRotation ==
  ASSUME Types, StatesSound, NEW c \in BindCall, calls' = Ended(c), BrokerStays,
         calls[c].stage # "none", ~Tracing(c), Release(SessionOf[c], calls[c].cap, Ended(c)),
         UNCHANGED <<bindings, landed>>, NEW t \in Session, RotationSound(t)
  PROVE  RotationSound(t)'
PROOF
  <1> DEFINE s == SessionOf[c]
  <1>1. c \in Call /\ s \in Session
    BY SessionsOfCalls
  <1>2. /\ \A u \in Session : u # s => pendings'[u] = pendings[u] /\ registry'[u] = registry[u]
        /\ \/ UNCHANGED <<pendings, registry, posts>>
           \/ /\ pendings[s].cap = calls[c].cap /\ ~pendings[s].uncertain
              /\ InFlight(calls[c].cap, Ended(c)) = {} /\ pendings'[s] = NoPending
              /\ \/ /\ registry'[s].known = registry[s].known
                    /\ registry'[s].delivered = registry[s].delivered
                    /\ registry'[s].inflight = registry[s].inflight
                 \/ pendings[s].present = "absent" /\ registry'[s] = NoState
    <2> DEFINE k == calls[c].cap
               run == Ended(c)
    <2>1. Release(s, k, run)
      OBVIOUS
    <2> HIDE DEF k, run, s
    <2>2. /\ \A u \in Session : u # s => pendings'[u] = pendings[u] /\ registry'[u] = registry[u]
          /\ \/ UNCHANGED <<pendings, registry, posts>>
             \/ /\ pendings[s].cap = k /\ ~pendings[s].uncertain
                /\ InFlight(k, run) = {} /\ pendings'[s] = NoPending
                /\ \/ /\ registry'[s].known = registry[s].known
                      /\ registry'[s].delivered = registry[s].delivered
                      /\ registry'[s].inflight = registry[s].inflight
                   \/ pendings[s].present = "absent" /\ registry'[s] = NoState
      BY <1>1, <2>1, ReleaseEffect
    <2> QED BY <2>2 DEF k, run, s
  <1>3. CASE t # s \/ UNCHANGED <<pendings, registry>>
    <2>1. pendings'[t] = pendings[t] /\ registry'[t] = registry[t]
      BY <1>2, <1>3
    <2> QED BY <1>1, <2>1, RotationEnds
  <1>4. CASE /\ t = s /\ pendings'[s] = NoPending
             /\ registry'[s].known = registry[s].known
             /\ registry'[s].delivered = registry[s].delivered
             /\ registry'[s].inflight = registry[s].inflight
    BY <1>1, <1>4, RotationEnds, Constants
  <1>5. CASE /\ t = s /\ pendings[s].cap = calls[c].cap /\ ~pendings[s].uncertain
             /\ InFlight(calls[c].cap, Ended(c)) = {} /\ pendings'[s] = NoPending
             /\ pendings[s].present = "absent" /\ registry'[s] = NoState
    <2>1. calls'[c] = NoCallYet /\ \A d \in Call : d # c => calls'[d] = calls[d]
      BY <1>1, EndedSound
    <2>2. ~Traced(calls[c].cap, s)
      <3>1. ASSUME NEW d \in BindCall, calls[d].cap = calls[c].cap, Tracing(d) PROVE FALSE
        <4>1. d # c /\ d \in Call
          BY <3>1, SessionsOfCalls
        <4>2. calls[d].stage # "none"
          BY <3>1, HandlerCallSound, SessionsOfCalls DEF Tracing
        <4>3. Ended(c)[d] = calls[d]
          BY <2>1, <4>1
        <4>4. d \in InFlight(calls[c].cap, Ended(c))
          BY <3>1, <4>2, <4>3 DEF InFlight
        <4> QED BY <1>5, <4>4
      <3> QED BY <3>1 DEF Traced, Tracing
    <2>3. CASE pendings[s].cap # NoCap
      <3>1. bindings[s] = NoCap /\ registry[s].delivered = {}
        BY <1>5, <2>2, <2>3 DEF RotationSound
      <3>2. \A m \in Message : landed[s][m] = 0
        <4>1. \A m \in Message : landed[s][m] # 0 => m \in registry[s].delivered
          BY <1>5 DEF RotationSound
        <4> QED BY <3>1, <4>1
      <3> QED BY <1>5, <3>1, <3>2, Constants DEF RotationSound
    <2>4. CASE pendings[s].cap = NoCap
      BY <1>1, <1>5, <2>4 DEF Types, CallsSound, CallSound
    <2> QED BY <2>3, <2>4
  <1> QED BY <1>2, <1>3, <1>4, <1>5

LEMMA BindAnsweredRotation ==
  ASSUME Types, StatesSound, NEW c \in BindCall, BindAnswered(c),
         NEW t \in Session, RotationSound(t)
  PROVE  RotationSound(t)'
PROOF
  <1> DEFINE s == SessionOf[c]
  <1>1. /\ c \in Call /\ s \in Session /\ BrokerStays /\ calls[c].stage = "answered"
        /\ calls' = Ended(c)
    BY BindAnsweredEffect, SessionsOfCalls
  <1>2. CASE calls[c].answer = "ok" /\ Accepted(c)
    <2>1. CASE /\ pendings[s].cap # calls[c].cap
               /\ UNCHANGED <<bindings, pendings, registry, landed>>
      BY <1>1, <2>1, RotationEnds
    <2>2. CASE /\ pendings[s].cap = calls[c].cap
               /\ \A u \in Session : /\ pendings'[u] = NoPending
                                     /\ u = s => bindings'[u] = calls[c].cap
                                     /\ u # s => bindings'[u] = NoCap
               /\ registry'[s] = registry[s] /\ landed'[s] = landed[s]
               /\ \E moved \in SUBSET (Session \ {s}) :
                    /\ posts' = Orphaned(moved)
                    /\ \A u \in moved : registry'[u] = NoState
                                        /\ landed'[u] = [m \in Message |-> 0]
                    /\ \A u \in Session \ moved : registry'[u] = registry[u]
                                                  /\ landed'[u] = landed[u]
      <3>1. calls[c].cap # NoCap
        BY <1>1 DEF Types, CallsSound, CallSound
      <3>2. t = s => registry[s].known
        BY <1>1, <2>2, <3>1 DEF RotationSound
      <3>3. bindings'[t] # NoCap => registry'[t].known
        BY <2>2, <3>2
      <3>4. pendings'[t].cap = NoCap
        BY <2>2, Constants
      <3>5. \A m \in Message : landed'[t][m] <= 1 /\ (landed'[t][m] # 0 => m \in registry'[t].delivered)
        <4>1. CASE registry'[t] = registry[t] /\ landed'[t] = landed[t]
          BY <4>1 DEF RotationSound
        <4>2. CASE landed'[t] = [m \in Message |-> 0]
          BY <4>2
        <4> QED BY <2>2, <4>1, <4>2
      <3> QED BY <3>3, <3>4, <3>5 DEF RotationSound
    <2> QED BY <1>2, <2>1, <2>2, AcceptedEffect
  <1>3. CASE /\ calls[c].answer = "rejected" /\ Release(s, calls[c].cap, Ended(c))
             /\ UNCHANGED <<bindings, landed>>
    <2>1. ~Tracing(c)
      BY <1>1, <1>3, NoTrace
    <2> QED BY <1>1, <1>3, <2>1, ReleaseRotation
  <1>4. CASE /\ \A u \in Session :
                  /\ pendings'[u].cap = pendings[u].cap
                  /\ pendings'[u].present = pendings[u].present
                  /\ pendings'[u].uncertain =
                       IF u = s /\ pendings[u].cap = calls[c].cap THEN TRUE
                       ELSE pendings[u].uncertain
             /\ UNCHANGED <<bindings, registry, posts, landed>>
    BY <1>1, <1>4, RotationEnds
  <1> QED BY <1>2, <1>3, <1>4, BindAnsweredEffect

LEMMA AuthAnsweredRotation ==
  ASSUME Types, StatesSound, NEW c \in AuthCall, AuthAnswered(c),
         NEW t \in Session, RotationSound(t)
  PROVE  RotationSound(t)'
PROOF
  <1> DEFINE s == SessionOf[c]
  <1>1. /\ c \in Call /\ c \notin BindCall /\ s \in Session /\ BrokerStays /\ calls' = Ended(c)
        /\ landed' = landed
        /\ \A u \in Session : u # s => /\ bindings'[u] = bindings[u]
                                       /\ pendings'[u] = pendings[u]
                                       /\ registry'[u] = registry[u]
        /\ registry'[s].delivered = registry[s].delivered
        /\ registry'[s].inflight = registry[s].inflight
        /\ registry[s].known => registry'[s].known
        /\ \/ /\ bindings'[s] = bindings[s] /\ pendings'[s] = pendings[s]
           \/ /\ bindings'[s] = NoCap
              /\ \/ pendings'[s] = pendings[s] \/ pendings'[s] = NoPending
                 \/ /\ pendings'[s].cap = pendings[s].cap
                    /\ pendings'[s].uncertain = pendings[s].uncertain
                    /\ pendings'[s].present = "absent" =>
                         pendings[s].present = "absent" \/ ~registry[s].known
    BY AuthAnsweredEffect, SessionsOfCalls
  <1>2. CASE t # s
    BY <1>1, <1>2, RotationEnds
  <1>3. CASE t = s
    BY <1>1, <1>3, RotationEnds, Constants
  <1> QED BY <1>2, <1>3

LEMMA AttemptRotation ==
  ASSUME Types, OneOwner, StatesSound, AcceptedTraced, TracesStay, NEW m \in Message,
         Attempt(m), NEW t \in Session, RotationSound(t)
  PROVE  RotationSound(t)'
PROOF
  <1>1. /\ UNCHANGED <<bindings, pendings, calls, landed, registration, route, late>>
        /\ Attempted(m)
    BY AttemptEffect
  <1>2. \A c \in BindCall : Sendish(c)' => Sendish(c) /\ calls'[c].cap = calls[c].cap
    BY <1>1 DEF Sendish
  <1>3. CASE registry'[t] = registry[t]
    BY <1>1, <1>2, <1>3, RotationQuiet
  <1>4. CASE registry'[t] # registry[t]
    <2>1. PICK s \in Relayed : Posted(s, m)
      BY <1>1, <1>4 DEF Attempted
    <2>2. /\ s \in Session /\ registry'[s].known
          /\ registry'[s].delivered = registry[s].delivered
          /\ \A u \in Session : u # s => registry'[u] = registry[u]
      BY <2>1, RelayedOwner, PostedEffect
    <2>3. t = s
      BY <1>4, <2>2
    <2>4. /\ registration.cap # NoCap
          /\ registration.cap = bindings[s] \/ registration.cap = pendings[s].cap
      BY RelayedOwner DEF Relayed, Bound
    <2>5. ASSUME pendings[s].cap # NoCap, pendings[s].present = "absent"
          PROVE  /\ bindings[s] = NoCap
                 /\ pendings[s].uncertain \/ Traced(pendings[s].cap, s)'
      <3>1. bindings[s] = NoCap
        BY <2>3, <2>5 DEF RotationSound
      <3>2. Sent(pendings[s].cap)
        BY <2>4, <3>1 DEF Sent
      <3>3. pendings[s].uncertain \/ Traced(pendings[s].cap, s)
        BY <2>2, <2>5, <3>2 DEF AcceptedTraced, Certain
      <3>4. pendings[s].cap \in Cap
        BY <2>2 DEF Types, PluginType, Pendings
      <3>5. Traced(pendings[s].cap, s) => Traced(pendings[s].cap, s)'
        BY <1>1, <2>2, <3>4, TraceKept
      <3> QED BY <3>1, <3>3, <3>5
    <2> QED BY <1>1, <2>2, <2>3, <2>5 DEF RotationSound
  <1> QED BY <1>3, <1>4

LEMMA PostEndsRotation ==
  ASSUME Types, PostsSound, StatesSound, TracesStay, NEW p \in posts, NEW ok \in BOOLEAN,
         PostEnds(p, ok), NEW t \in Session, RotationSound(t)
  PROVE  RotationSound(t)'
PROOF
  <1> DEFINE s == p.session
             m == p.message
  <1>0. p.awaited => handler.pc = "waiting"
    BY DEF PostsSound
  <1>1. /\ UNCHANGED <<bindings, pendings, calls>>
        /\ \A u \in Session : u # s => registry'[u] = registry[u] /\ landed'[u] = landed[u]
        /\ registry'[s].known = registry[s].known
        /\ ~p.live => registry' = registry /\ landed' = landed
        /\ p.live => registry'[s].inflight = registry[s].inflight \ {m}
        /\ \A n \in Message : n # m => landed'[s][n] = landed[s][n]
        /\ p.live /\ ok => /\ registry'[s].delivered = registry[s].delivered \cup {m}
                           /\ \/ landed'[s][m] = landed[s][m]
                              \/ landed'[s][m] = landed[s][m] + 1
        /\ ~ok => registry'[s].delivered = registry[s].delivered /\ landed' = landed
    BY <1>0, PostEndsEffect
  <1>2. \A c \in BindCall : Sendish(c)' => Sendish(c) /\ calls'[c].cap = calls[c].cap
    BY <1>1 DEF Sendish
  <1>3. CASE t # s \/ ~p.live
    <2>1. registry'[t] = registry[t] /\ landed'[t] = landed[t]
      BY <1>1, <1>3
    <2> QED BY <1>1, <1>2, <2>1, RotationQuiet
  <1>4. CASE t = s /\ p.live
    <2>0. p \in Posts
      BY DEF Types, PluginType
    <2>1. m \in registry[s].inflight /\ m \notin registry[s].delivered /\ m \in Message
      BY <1>4, <2>0 DEF PostsSound, Posts
    <2>2. landed[s][m] = 0
      BY <1>4, <2>1 DEF RotationSound
    <2>3. ASSUME NEW n \in Message
          PROVE  landed'[s][n] <= 1 /\ (landed'[s][n] # 0 => n \in registry'[s].delivered)
      <3>1. registry[s].delivered \subseteq registry'[s].delivered
        BY <1>1, <1>4
      <3>2. CASE n # m
        BY <1>1, <1>4, <3>1, <3>2 DEF RotationSound
      <3>3. CASE n = m /\ ok
        BY <1>1, <1>4, <2>2, <3>3
      <3>4. CASE n = m /\ ~ok
        BY <1>1, <2>2, <3>4
      <3> QED BY <3>2, <3>3, <3>4
    <2>4. ASSUME pendings[s].cap # NoCap, pendings[s].present = "absent"
          PROVE  /\ bindings[s] = NoCap
                 /\ pendings[s].uncertain \/ Traced(pendings[s].cap, s)'
      <3>1. /\ bindings[s] = NoCap
            /\ pendings[s].uncertain \/ Traced(pendings[s].cap, s)
        BY <1>4, <2>1, <2>4 DEF RotationSound
      <3>2. pendings[s].cap \in Cap
        BY <1>4 DEF Types, PluginType, Pendings
      <3>3. Traced(pendings[s].cap, s) => Traced(pendings[s].cap, s)'
        BY <1>1, <1>4, <3>2, TraceKept
      <3> QED BY <3>1, <3>3
    <2> QED BY <1>1, <1>4, <2>3, <2>4 DEF RotationSound
  <1> QED BY <1>3, <1>4

LEMMA ExpireStateRotation ==
  ASSUME Types, StatesSound, NEW s \in Session, ExpireState(s),
         NEW t \in Session \ lapsed', RotationSound(t)
  PROVE  RotationSound(t)'
PROOF
  <1>1. /\ BrokerStays /\ UNCHANGED <<bindings, pendings, calls>>
        /\ registry'[s] = NoState /\ landed'[s] = [m \in Message |-> 0]
        /\ \A u \in Session : u # s => registry'[u] = registry[u] /\ landed'[u] = landed[u]
        /\ HasBinding(s) \/ Overtaken(s) => s \in lapsed'
    BY ExpireStateEffect
  <1>2. TracesStay
    BY <1>1 DEF TracesStay, Tracing, BrokerStays
  <1>3. CASE t # s
    <2>1. \A c \in BindCall : Sendish(c)' => Sendish(c) /\ calls'[c].cap = calls[c].cap
      BY <1>1 DEF Sendish
    <2> QED BY <1>1, <1>2, <1>3, <2>1, RotationQuiet
  <1>4. CASE t = s
    <2>1. bindings[s] = NoCap
      BY <1>1, <1>4 DEF HasBinding
    <2>2. ASSUME NEW c \in BindCall, Sendish(c), pendings[s].cap # NoCap,
                 calls[c].cap = pendings[s].cap
          PROVE  FALSE
      <3>1. c \in InFlight(pendings[s].cap, calls)
        BY <2>2 DEF InFlight, Sendish
      <3> QED BY <1>1, <1>4, <2>2, <3>1 DEF Overtaken
    <2> QED BY <1>1, <1>4, <2>1, <2>2, Constants DEF RotationSound, Sendish
  <1> QED BY <1>3, <1>4

LEMMA RotationStep ==
  ASSUME Types, OneOwner, PostsSound, StatesSound, AcceptedTraced, RotationsSound, Next
  PROVE  RotationsSound'
PROOF
  <1> SUFFICES ASSUME NEW t \in Session \ lapsed' PROVE RotationSound(t)'
    BY DEF RotationsSound
  <1>1. lapsed \subseteq lapsed'
    <2>1. ASSUME NEW s \in Session, ExpireState(s) PROVE lapsed \subseteq lapsed'
      BY <2>1, ExpireStateEffect
    <2>2. ASSUME NEW c \in BindCall, BeginBind(c) \/ Ensured(c) \/ EnsureFails(c) \/ BindAnswered(c)
          PROVE  lapsed' = lapsed
      BY <2>2 DEF BeginBind, Ensured, EnsureFails, BindAnswered, history
    <2>3. ASSUME NEW c \in AuthCall,
                 \/ \E action \in {"unbind", "status"} : BeginAuthenticated(c, action)
                 \/ AuthAnswered(c)
          PROVE  lapsed' = lapsed
      BY <2>3 DEF BeginAuthenticated, AuthAnswered, history
    <2>4. ASSUME BrokerActs PROVE lapsed' = lapsed
      BY <2>4, BrokerTraces
    <2> QED BY <2>1, <2>2, <2>3, <2>4 DEF Next, BrokerActs
  <1>2. RotationSound(t) /\ t \in Session
    BY <1>1 DEF RotationsSound
  <1>3. ASSUME NEW c \in BindCall, BeginBind(c) PROVE RotationSound(t)'
    BY <1>2, <1>3, BeginBindRotation
  <1>4. ASSUME NEW c \in BindCall, Ensured(c) PROVE RotationSound(t)'
    BY <1>2, <1>4, EnsuredRotation
  <1>5. ASSUME NEW c \in BindCall, EnsureFails(c) PROVE RotationSound(t)'
    <2>1. /\ BrokerStays /\ UNCHANGED <<bindings, landed>> /\ calls[c].stage = "begun"
          /\ calls' = Ended(c) /\ Release(SessionOf[c], calls[c].cap, Ended(c))
      BY <1>5, EnsureFailsEffect
    <2>2. ~Tracing(c)
      BY <2>1, NoTrace, SessionsOfCalls
    <2> QED BY <1>2, <2>1, <2>2, ReleaseRotation
  <1>6. ASSUME NEW c \in BindCall, BindAnswered(c) PROVE RotationSound(t)'
    BY <1>2, <1>6, BindAnsweredRotation
  <1>7. ASSUME NEW c \in AuthCall, NEW action \in {"unbind", "status"},
               BeginAuthenticated(c, action)
        PROVE  RotationSound(t)'
    <2>1. /\ BrokerStays /\ UNCHANGED <<bindings, pendings, registry, landed>>
          /\ c \in Call /\ c \notin BindCall
          /\ \A d \in Call : d # c => calls'[d] = calls[d]
      BY <1>7, BeginAuthenticatedEffect, SessionsOfCalls
    <2>2. TracesStay /\ \A d \in BindCall : Sendish(d)' => Sendish(d) /\ calls'[d].cap = calls[d].cap
      BY <2>1, SessionsOfCalls DEF TracesStay, Tracing, Sendish, BrokerStays
    <2> QED BY <1>2, <2>1, <2>2, RotationQuiet
  <1>8. ASSUME NEW c \in AuthCall, AuthAnswered(c) PROVE RotationSound(t)'
    BY <1>2, <1>8, AuthAnsweredRotation
  <1>9. ASSUME NEW s \in Session, ExpireState(s) PROVE RotationSound(t)'
    BY <1>2, <1>9, ExpireStateRotation
  <1>10. ASSUME BrokerActs PROVE RotationSound(t)'
    <2>1. TracesStay /\ CallsGoOn /\ UNCHANGED <<bindings, pendings, lapsed>>
      BY <1>10, BrokerTraces
    <2>2. \A c \in BindCall : Sendish(c)' => Sendish(c) /\ calls'[c].cap = calls[c].cap
      BY <2>1, SessionsOfCalls DEF CallsGoOn, Sendish
    <2>3. ASSUME UNCHANGED <<registry, landed>> PROVE RotationSound(t)'
      BY <1>2, <2>1, <2>2, <2>3, RotationQuiet
    <2>4. ASSUME (\E c \in Call : Handle(c)) \/ (\E r \in late : HandleLate(r))
          PROVE  RotationSound(t)'
      BY <2>3, <2>4, HandleEffect DEF Handled, PluginStays
    <2>5. ASSUME NEW c \in Call, LoseAnswer(c) PROVE RotationSound(t)'
      BY <2>3, <2>5, LoseAnswerEffect DEF PluginStays
    <2>6. ASSUME NEW r \in late, Dropped(r) PROVE RotationSound(t)'
      BY <2>3, <2>6, DroppedEffect DEF PluginStays
    <2>7. ASSUME NEW m \in Message, Queue(m) PROVE RotationSound(t)'
      BY <2>3, <2>7, QueueEffect DEF PluginStays
    <2>8. ASSUME NEW m \in Message, Attempt(m) PROVE RotationSound(t)'
      BY <1>2, <2>1, <2>8, AttemptRotation
    <2>9. ASSUME TimeOut PROVE RotationSound(t)'
      BY <2>3, <2>9, TimeOutEffect
    <2>10. ASSUME NEW p \in posts, NEW ok \in BOOLEAN, PostEnds(p, ok) PROVE RotationSound(t)'
      BY <1>2, <2>1, <2>10, PostEndsRotation
    <2>11. ASSUME HandlerEnds \/ HandlerRaises PROVE RotationSound(t)'
      BY <2>3, <2>11, HandlerDoneEffect DEF HandlerDone, PluginStays
    <2>12. ASSUME NEW s \in Session, NEW m \in Message, Respond(s, m) PROVE RotationSound(t)'
      BY <2>3, <2>12, RespondEffect DEF PluginStays
    <2>13. ASSUME Expire PROVE RotationSound(t)'
      BY <2>3, <2>13, ExpireEffect DEF PluginStays
    <2>14. ASSUME Crash PROVE RotationSound(t)'
      BY <2>3, <2>14, CrashEffect
    <2>15. ASSUME Restart PROVE RotationSound(t)'
      BY <2>3, <2>15, RestartEffect DEF PluginStays
    <2> QED
      BY <1>10, <2>4, <2>5, <2>6, <2>7, <2>8, <2>9, <2>10, <2>11, <2>12, <2>13, <2>14, <2>15
        DEF BrokerActs
  <1> QED BY <1>3, <1>4, <1>5, <1>6, <1>7, <1>8, <1>9, <1>10 DEF Next, BrokerActs

LEMMA TypesStep ==
  ASSUME Types, PostsSound, Next
  PROVE  Types'
PROOF
  <1>1. ASSUME NEW c \in BindCall,
               BeginBind(c) \/ Ensured(c) \/ EnsureFails(c) \/ BindAnswered(c)
        PROVE  Types'
    BY <1>1, BeginBindEffect, EnsuredEffect, EnsureFailsEffect, BindAnsweredEffect
  <1>2. ASSUME NEW c \in AuthCall, NEW action \in {"unbind", "status"},
               BeginAuthenticated(c, action)
        PROVE  Types'
    BY <1>2, BeginAuthenticatedEffect
  <1>3. ASSUME NEW c \in AuthCall, AuthAnswered(c) PROVE Types'
    BY <1>3, AuthAnsweredEffect
  <1>4. ASSUME (\E c \in Call : Handle(c)) \/ (\E r \in late : HandleLate(r)) PROVE Types'
    BY <1>4, HandleEffect
  <1>5. ASSUME NEW c \in Call, LoseAnswer(c) PROVE Types'
    BY <1>5, LoseAnswerEffect
  <1>6. ASSUME NEW r \in late, Dropped(r) PROVE Types'
    BY <1>6, DroppedEffect
  <1>7. ASSUME NEW m \in Message, Queue(m) \/ Attempt(m) PROVE Types'
    BY <1>7, QueueEffect, AttemptEffect
  <1>8. ASSUME NEW p \in posts, NEW ok \in BOOLEAN, PostEnds(p, ok) PROVE Types'
    <2>1. p.awaited => handler.pc = "waiting"
      BY DEF PostsSound
    <2> QED BY <1>8, <2>1, PostEndsEffect
  <1>9. ASSUME HandlerEnds \/ HandlerRaises PROVE Types'
    BY <1>9, HandlerDoneEffect
  <1>10. ASSUME NEW s \in Session, ExpireState(s) PROVE Types'
    BY <1>10, ExpireStateEffect
  <1>11. ASSUME NEW s \in Session, NEW m \in Message, Respond(s, m) PROVE Types'
    BY <1>11, RespondEffect
  <1>12. ASSUME TimeOut \/ Expire \/ Crash \/ Restart PROVE Types'
    BY <1>12, TimeOutEffect, ExpireEffect, CrashEffect, RestartEffect
  <1> QED
    BY <1>1, <1>2, <1>3, <1>4, <1>5, <1>6, <1>7, <1>8, <1>9, <1>10, <1>11, <1>12 DEF Next

-----------------------------------------------------------------------------
(* What is delivered is in the session that is bound.                      *)

\* The file's route stays, and what counts as delivered either did before or is in
\* the session of the route.
LEMMA DeliveredKept ==
  ASSUME Types, DeliveredSound, route' = route, RoutesAgree',
         \A s \in Session : seen[s] \subseteq seen'[s], answered \subseteq answered',
         \A m \in Message :
           records'[m] = "delivered" /\ m \notin answered' /\ LookedAt(m)' =>
             \/ records[m] = "delivered" /\ LookedAt(m)
             \/ route.cap # NoCap => m \in seen'[route.session]
  PROVE  DeliveredSound'
PROOF
  <1>1. route.session \in Session
    BY DEF Types, BrokerType, Routes
  <1>2. ASSUME NEW m \in Message PROVE DeliveredAt(m)'
    <2>1. DeliveredAt(m)
      BY DEF DeliveredSound
    <2> QED BY <1>1, <2>1 DEF DeliveredAt
  <1> QED BY <1>2 DEF DeliveredSound

\* Nothing that delivery depends on changes.
LEMMA DeliveredQuiet ==
  ASSUME Types, DeliveredSound, UNCHANGED <<registration, route, records, served>>,
         handler'.action = handler.action, handler'.todo = handler.todo,
         answered \subseteq answered', \A s \in Session : seen[s] \subseteq seen'[s]
  PROVE  DeliveredSound'
PROOF
  <1>1. RoutesAgree'
    BY DEF DeliveredSound, RoutesAgree, Bound
  <1> QED BY <1>1, DeliveredKept DEF LookedAt

LEMMA HandledDelivered ==
  ASSUME Types, DeliveredSound, NEW r \in Requests, NEW c \in Call \cup {NoCall}, Handled(r, c)
  PROVE  DeliveredSound'
PROOF
  <1>1. HandledTo(r, c) /\ handler.action = "none" /\ UNCHANGED <<records, answered, seen>>
    BY DEF Handled
  <1>2. CASE /\ registration' = Registered(r) /\ route' = Registered(r)
             /\ handler' = [pc |-> "retry", call |-> c, action |-> "bind", todo |-> Queued]
             /\ served' = FALSE
    <2>1. \A m \in Message : LookedAt(m)' => records'[m] # "delivered"
      BY <1>1, <1>2 DEF LookedAt, Queued
    <2> QED BY <1>2, <2>1 DEF DeliveredSound, RoutesAgree, DeliveredAt
  <1>3. CASE handler' = handler /\ served' = FALSE
    BY <1>1, <1>3 DEF DeliveredSound, RoutesAgree, DeliveredAt, LookedAt
  <1>4. CASE registration' = registration /\ route' = route /\ handler' = handler /\ served' = served
    BY <1>1, <1>4, DeliveredQuiet
  <1>5. CASE registration' = NotBound /\ route' = NotBound
    BY <1>5, Constants DEF DeliveredSound, RoutesAgree, DeliveredAt, Bound
  <1> QED BY <1>1, <1>2, <1>3, <1>4, <1>5 DEF HandledTo

LEMMA AttemptDelivered ==
  ASSUME Types, OneOwner, StatesSound, DeliveredSound, NEW m \in Message, Attempt(m)
  PROVE  DeliveredSound'
PROOF
  <1>1. UNCHANGED <<registration, route, answered, seen, served>> /\ Attempted(m)
    BY AttemptEffect
  <1>2. /\ handler'.action = handler.action /\ handler'.todo = handler.todo \ {m}
        /\ \A n \in Message : n # m => records'[n] = records[n]
        /\ \/ records'[m] = "pending" \/ m \in answered
           \/ \E s \in Relayed : m \in registry[s].delivered
    BY <1>1 DEF Attempted, AttemptedTo
  <1>3. RoutesAgree'
    BY <1>1, <1>2 DEF DeliveredSound, RoutesAgree, Bound
  <1>4. ASSUME NEW s \in Relayed, m \in registry[s].delivered, LookedAt(m)'
        PROVE  m \in seen'[route.session]
    <2>1. s \in Session /\ s = registration.session /\ Bound
      BY RelayedOwner
    <2>2. registration.session = route.session
      BY <1>1, <1>2, <1>4, <2>1 DEF LookedAt, DeliveredSound, RoutesAgree
    <2>3. m \in seen[s]
      BY <1>4, <2>1 DEF StatesSound
    <2> QED BY <1>1, <2>1, <2>2, <2>3
  <1>5. ASSUME NEW n \in Message, records'[n] = "delivered", n \notin answered', LookedAt(n)'
        PROVE  \/ records[n] = "delivered" /\ LookedAt(n)
               \/ n \in seen'[route.session]
    <2>1. CASE n # m
      BY <1>1, <1>2, <1>5, <2>1 DEF LookedAt
    <2>2. CASE n = m
      <3>1. PICK s \in Relayed : m \in registry[s].delivered
        BY <1>1, <1>2, <1>5, <2>2
      <3> QED BY <1>4, <1>5, <2>2, <3>1
    <2> QED BY <2>1, <2>2
  <1> QED BY <1>1, <1>3, <1>5, DeliveredKept

LEMMA PostEndsDelivered ==
  ASSUME Types, PostsSound, DeliveredSound, NEW p \in posts, NEW ok \in BOOLEAN,
         PostEnds(p, ok)
  PROVE  DeliveredSound'
PROOF
  <1> DEFINE m == p.message
  <1>1. p.awaited => handler.pc = "waiting" /\ Bound /\ p.session = registration.session
    BY DEF PostsSound
  <1>2. /\ UNCHANGED <<registration, route, answered, served>>
        /\ \A t \in Session : seen[t] \subseteq seen'[t]
        /\ ok => m \in seen'[p.session]
        /\ handler'.action = handler.action /\ handler'.todo = handler.todo
        /\ ~(p.awaited /\ ok) => records' = records
        /\ \A n \in Message : n # m => records'[n] = records[n]
    BY <1>1, PostEndsEffect
  <1>3. RoutesAgree'
    BY <1>2 DEF DeliveredSound, RoutesAgree, Bound
  <1>4. ASSUME NEW n \in Message, records'[n] = "delivered", n \notin answered', LookedAt(n)'
        PROVE  \/ records[n] = "delivered" /\ LookedAt(n)
               \/ n \in seen'[route.session]
    <2>1. CASE n # m \/ ~(p.awaited /\ ok)
      BY <1>2, <1>4, <2>1 DEF LookedAt
    <2>2. CASE n = m /\ p.awaited /\ ok
      <3>1. registration.session = route.session
        BY <1>1, <1>2, <1>4, <2>2 DEF LookedAt, DeliveredSound, RoutesAgree
      <3> QED BY <1>1, <1>2, <2>2, <3>1
    <2> QED BY <2>1, <2>2
  <1> QED BY <1>2, <1>3, <1>4, DeliveredKept

LEMMA DeliveredStep ==
  ASSUME Types, OneOwner, PostsSound, StatesSound, DeliveredSound, Next
  PROVE  DeliveredSound'
PROOF
  <1>1. ASSUME BrokerStays, UNCHANGED <<seen, served>> PROVE DeliveredSound'
    BY <1>1, DeliveredQuiet DEF BrokerStays
  <1>2. ASSUME NEW c \in BindCall,
               BeginBind(c) \/ Ensured(c) \/ EnsureFails(c) \/ BindAnswered(c)
        PROVE  DeliveredSound'
    BY <1>1, <1>2, BeginBindEffect, EnsuredEffect, EnsureFailsEffect, BindAnsweredEffect
  <1>3. ASSUME NEW c \in AuthCall, NEW action \in {"unbind", "status"},
               BeginAuthenticated(c, action)
        PROVE  DeliveredSound'
    BY <1>1, <1>3, BeginAuthenticatedEffect
  <1>4. ASSUME NEW c \in AuthCall, AuthAnswered(c) PROVE DeliveredSound'
    BY <1>1, <1>4, AuthAnsweredEffect
  <1>5. ASSUME NEW s \in Session, ExpireState(s) PROVE DeliveredSound'
    BY <1>1, <1>5, ExpireStateEffect
  <1>6. ASSUME (\E c \in Call : Handle(c)) \/ (\E r \in late : HandleLate(r))
        PROVE  DeliveredSound'
    BY <1>6, HandleEffect, HandledDelivered
  <1>7. ASSUME NEW c \in Call, LoseAnswer(c) PROVE DeliveredSound'
    BY <1>7, LoseAnswerEffect, DeliveredQuiet
  <1>8. ASSUME NEW r \in late, Dropped(r) PROVE DeliveredSound'
    BY <1>8, DroppedEffect, DeliveredQuiet
  <1>9. ASSUME NEW m \in Message, Queue(m) PROVE DeliveredSound'
    <2>1. /\ UNCHANGED <<registration, route, answered, seen, served>>
          /\ handler'.action = "queue" /\ records'[m] = "pending"
          /\ \A n \in Message : n # m => records'[n] = records[n]
      BY <1>9, QueueEffect
    <2>2. RoutesAgree'
      BY <2>1 DEF DeliveredSound, RoutesAgree, Bound
    <2> QED BY <2>1, <2>2, DeliveredKept DEF LookedAt
  <1>10. ASSUME NEW m \in Message, Attempt(m) PROVE DeliveredSound'
    BY <1>10, AttemptDelivered
  <1>11. ASSUME TimeOut PROVE DeliveredSound'
    BY <1>11, TimeOutEffect, DeliveredQuiet
  <1>12. ASSUME NEW p \in posts, NEW ok \in BOOLEAN, PostEnds(p, ok) PROVE DeliveredSound'
    BY <1>12, PostEndsDelivered
  <1>13. ASSUME HandlerEnds \/ HandlerRaises PROVE DeliveredSound'
    <2>1. /\ UNCHANGED <<registration, route, records, answered, seen>> /\ handler' = Idle
          /\ \/ served' = served
             \/ served' = TRUE /\ handler.action = "bind" /\ handler.todo = {}
      BY <1>13, HandlerDoneEffect DEF HandlerDone
    <2>2. RoutesAgree'
      BY <2>1, Constants DEF DeliveredSound, RoutesAgree, Bound
    <2>3. \A m \in Message : LookedAt(m)' => LookedAt(m)
      BY <2>1, Constants DEF LookedAt
    <2> QED BY <2>1, <2>2, <2>3, DeliveredKept
  <1>14. ASSUME NEW s \in Session, NEW m \in Message, Respond(s, m) PROVE DeliveredSound'
    BY <1>14, RespondEffect, DeliveredQuiet
  <1>15. ASSUME Expire PROVE DeliveredSound'
    BY <1>15, ExpireEffect, Constants DEF DeliveredSound, RoutesAgree, DeliveredAt, Bound
  <1>16. ASSUME Crash PROVE DeliveredSound'
    <2>1. /\ UNCHANGED <<route, records, answered, seen, served>>
          /\ handler'.action = "none" /\ registration' = NotBound
      BY <1>16, CrashEffect
    <2>2. RoutesAgree'
      BY <2>1, Constants DEF RoutesAgree, Bound
    <2> QED BY <2>1, <2>2, DeliveredKept DEF LookedAt
  <1>17. ASSUME Restart PROVE DeliveredSound'
    <2>1. /\ UNCHANGED <<route, records, answered, seen, served>>
          /\ handler' = Idle
          /\ registration'.cap = route.cap /\ registration'.session = route.session
      BY <1>17, RestartEffect
    <2>2. RoutesAgree'
      BY <2>1 DEF RoutesAgree
    <2> QED BY <2>1, <2>2, DeliveredKept, Constants DEF LookedAt
  <1> QED
    BY <1>2, <1>3, <1>4, <1>5, <1>6, <1>7, <1>8, <1>9, <1>10, <1>11, <1>12, <1>13, <1>14,
       <1>15, <1>16, <1>17 DEF Next

-----------------------------------------------------------------------------
(* The invariant.                                                          *)

LEMMA InitSound == Init => IInv
PROOF
  <1> SUFFICES ASSUME Init PROVE IInv
    OBVIOUS
  <1>1. /\ \A s \in Session : /\ bindings[s] = NoCap /\ pendings[s] = NoPending
                              /\ registry[s] = NoState /\ seen[s] = {}
                              /\ landed[s] = [m \in Message |-> 0]
        /\ posts = {} /\ \A c \in Call : calls[c] = NoCallYet
        /\ registration = NotBound /\ route = NotBound /\ handler = Idle /\ late = {}
        /\ \A m \in Message : records[m] = "absent"
        /\ answered = {} /\ served = FALSE /\ faults = 0
    BY DEF Init
  <1>2. PluginType /\ BrokerType
    BY Constants DEF Init, PluginType, BrokerType
  <1>3. HistoryType
    <2>1. [m \in Message |-> 0] \in [Message -> Nat]
      OBVIOUS
    <2>2. landed \in [Session -> [Message -> Nat]]
      BY <2>1 DEF Init
    <2>3. faults \in 0..MaxFaults
      BY BoundsAssumption DEF Init
    <2> QED BY <2>2, <2>3 DEF Init, HistoryType
  <1>4. CallsSound
    <2>1. \A c \in Call : CallSound(c)
      BY <1>1, Constants DEF CallSound
    <2> QED BY <1>1, <2>1, Constants DEF Init, CallsSound
  <1>5. OneOwner
    BY <1>1, Constants DEF OneOwner, Holds
  <1>6. PostsSound /\ StatesSound
    BY <1>1, Constants DEF PostsSound, StatesSound
  <1>7. AcceptedTraced
    BY <1>1, Constants DEF AcceptedTraced, Certain
  <1>8. RotationsSound
    <2>1. ASSUME NEW s \in Session PROVE RotationSound(s)
      <3>1. /\ bindings[s] = NoCap /\ pendings[s].cap = NoCap
            /\ \A m \in Message : landed[s][m] = 0
        BY <1>1, Constants
      <3> QED BY <3>1 DEF RotationSound
    <2> QED BY <2>1 DEF RotationsSound
  <1>9. DeliveredSound
    BY <1>1, Constants DEF DeliveredSound, RoutesAgree, DeliveredAt, Bound
  <1> QED BY <1>2, <1>3, <1>4, <1>5, <1>6, <1>7, <1>8, <1>9 DEF IInv, Types

LEMMA StutterKeeps ==
  ASSUME IInv, UNCHANGED vars
  PROVE  IInv'
PROOF
  <1> USE DEF vars, plugin, broker, history
  <1>1. Types' <=> Types
    BY DEF Types, PluginType, BrokerType, HistoryType, CallsSound, CallSound, Bound
  <1>2. OneOwner' <=> OneOwner
    BY DEF OneOwner, Holds
  <1>3. PostsSound' <=> PostsSound
    BY DEF PostsSound, Bound
  <1>4. StatesSound' <=> StatesSound
    BY DEF StatesSound
  <1>5. AcceptedTraced' <=> AcceptedTraced
    BY DEF AcceptedTraced, Certain, Sent, Traced
  <1>6. RotationsSound' <=> RotationsSound
    BY DEF RotationsSound, RotationSound, Traced
  <1>7. DeliveredSound' <=> DeliveredSound
    BY DEF DeliveredSound, RoutesAgree, DeliveredAt, LookedAt, Bound
  <1> QED BY <1>1, <1>2, <1>3, <1>4, <1>5, <1>6, <1>7 DEF IInv

LEMMA StepKeeps == IInv /\ [Next]_vars => IInv'
PROOF
  <1>1. ASSUME IInv, Next PROVE IInv'
    <2>1. Types'
      BY <1>1, TypesStep DEF IInv
    <2> QED
      BY <1>1, <2>1, OwnerStep, PostsStep, StatesStep, TracedStep, RotationStep,
         DeliveredStep DEF IInv
  <1> QED BY <1>1, StutterKeeps

\* Sessions never share a capability, the plugin never undoes as uncommitted a
\* rotation whose bind the broker accepted, and what is delivered is where the broker
\* believes it is: the inductive invariant, for any number of sessions, messages,
\* calls and faults.
THEOREM SessionInvariant == Spec => []IInv
PROOF
  <1>1. Spec => []IInv
    BY InitSound, StepKeeps, PTL DEF Spec
  <1> QED BY <1>1

\* However often the broker gives up on a post and tries again, a message reaches a
\* session whose delivery state was not dropped while it was attached at most once.
THEOREM PostedAlwaysOnce == Spec => []PostedOnce
PROOF
  <1>1. IInv => PostedOnce
    BY DEF IInv, RotationsSound, RotationSound, PostedOnce
  <1> QED BY <1>1, SessionInvariant, PTL

\* What the broker counts as delivered is in the session that the plugin proves to be
\* the one that is bound, and every variable has its type.
THEOREM DeliveryAlwaysSound == Spec => []DeliverySound
PROOF
  <1>1. IInv => TypeOK
    <2>1. Types => /\ bindings \in [Session -> Cap]
                   /\ pendings \in [Session -> Pendings]
                   /\ registry \in [Session -> States]
                   /\ posts \subseteq Posts
                   /\ {registration.cap, route.cap} \subseteq Cap
                   /\ records \in [Message -> {"absent", "pending", "delivered"}]
                   /\ handler.pc \in {"idle", "retry", "waiting", "down"}
                   /\ faults \in 0..MaxFaults
      BY DEF Types, PluginType, BrokerType, HistoryType, Routes, Handlers
    <2> QED BY <2>1 DEF IInv, TypeOK, Cap, Pendings, States, Posts
  <1>2. IInv => DeliveredIsThere
    <2> SUFFICES ASSUME IInv, NEW s \in Session, NEW m \in Message, served, Bound,
                        bindings[s] = registration.cap, records[m] = "delivered",
                        m \notin answered
                 PROVE  m \in seen[s]
      BY DEF DeliveredIsThere
    <2>1. Types /\ OneOwner /\ DeliveredSound
      BY DEF IInv
    <2>2. registration \in Routes /\ registration.cap \in Cap \ {NoCap}
      BY <2>1 DEF Types, BrokerType, Routes, Bound
    <2>3. s = registration.session
      BY <2>1, <2>2 DEF OneOwner, Holds, Routes
    <2>4. registration.cap = route.cap /\ registration.session = route.session
      BY <2>1 DEF DeliveredSound, RoutesAgree
    <2>5. DeliveredAt(m) /\ LookedAt(m)
      BY <2>1 DEF DeliveredSound, LookedAt
    <2> QED BY <2>2, <2>3, <2>4, <2>5 DEF DeliveredAt
  <1>3. IInv => DeliverySound
    BY <1>1, <1>2 DEF DeliverySound
  <1> QED BY <1>3, SessionInvariant, PTL

-----------------------------------------------------------------------------
(* The plugin does not forget the capability that the broker holds.        *)

\* A bind that left a trace is still on its way.
LEMMA TraceInFlight ==
  ASSUME Types, NEW k \in Cap, NEW s \in Session, Traced(k, s), NEW c \in BindCall, ~Tracing(c)
  PROVE  \E d \in InFlight(k, calls) : d # c /\ SessionOf[d] = s
PROOF
  <1>1. PICK d \in BindCall : SessionOf[d] = s /\ calls[d].cap = k /\ Tracing(d)
    BY DEF Traced, Tracing
  <1>2. d # c
    BY <1>1
  <1>3. calls[d].stage # "none"
    <2>1. d # NoCall
      BY SessionsOfCalls
    <2> QED BY <1>1, <2>1, HandlerCallSound DEF Tracing
  <1> QED BY <1>1, <1>2, <1>3 DEF InFlight

\* The capability of the registration stays with every session that proves it.
Remembers ==
  \A s \in Session :
    /\ bindings[s] = registration.cap => bindings'[s] = registration.cap
    /\ pendings[s].cap = registration.cap => pendings'[s].cap = registration.cap

LEMMA ProvenKept ==
  ASSUME Proven, Remembers, registration' = registration
  PROVE  Proven'
PROOF
  <1> QED BY DEF Proven, Remembers

\* A rotation that the broker has accepted is not undone as one that never was.
LEMMA ReleaseRemembers ==
  ASSUME IInv, Bound, NEW c \in BindCall, ~Tracing(c), calls' = Ended(c),
         Release(SessionOf[c], calls[c].cap, Ended(c)), bindings' = bindings
  PROVE  Remembers
PROOF
  <1> DEFINE s == SessionOf[c]
  <1>0. Types /\ AcceptedTraced
    BY DEF IInv
  <1>1. s \in Session /\ c \in Call
    BY SessionsOfCalls
  <1>2. /\ calls'[c] = NoCallYet /\ \A d \in Call : d # c => calls'[d] = calls[d]
    BY <1>0, <1>1, EndedSound
  <1>3. registration.cap \in Cap \ {NoCap}
    BY <1>0 DEF Types, BrokerType, Routes, Bound
  <1>4. ASSUME pendings[s].cap = registration.cap, pendings'[s] # pendings[s] PROVE FALSE
    <2>1. /\ pendings[s].cap = calls[c].cap /\ ~pendings[s].uncertain
          /\ InFlight(calls[c].cap, Ended(c)) = {}
      BY <1>0, <1>1, <1>4, ReleaseEffect
    <2>2. Certain(s) /\ Sent(pendings[s].cap)
      BY <1>3, <1>4, <2>1 DEF Certain, Sent
    <2>3. Traced(registration.cap, s)
      BY <1>0, <1>1, <1>4, <2>2 DEF AcceptedTraced
    <2>4. PICK d \in InFlight(registration.cap, calls) : d # c
      BY <1>0, <1>1, <1>3, <2>3, TraceInFlight
    <2>5. d \in Call /\ d \in BindCall
      BY <2>4, SessionsOfCalls DEF InFlight
    <2>6. calls'[d] = calls[d]
      BY <1>2, <2>4, <2>5
    <2>7. d \in InFlight(registration.cap, calls')
      BY <2>4, <2>5, <2>6 DEF InFlight
    <2> QED BY <1>4, <2>1, <2>7
  <1>5. \A t \in Session : t # s => pendings'[t] = pendings[t]
    BY <1>0, <1>1, ReleaseEffect
  <1> QED BY <1>4, <1>5 DEF Remembers

LEMMA BindAnsweredRemembers ==
  ASSUME IInv, Bound, Proven, registration' = registration,
         NEW c \in BindCall, BindAnswered(c)
  PROVE  Proven' \/ AnsweredTooLate
PROOF
  <1> DEFINE s == SessionOf[c]
  <1>0. Types
    BY DEF IInv
  <1>1. s \in Session /\ c \in Call
    BY SessionsOfCalls
  <1>2. calls[c].stage = "answered" /\ calls' = Ended(c) /\ calls'[c].stage = "none"
    BY <1>0, <1>1, BindAnsweredEffect, EndedSound, Constants
  <1>3. CASE calls[c].answer = "ok" /\ Accepted(c)
    <2>1. CASE UNCHANGED <<bindings, pendings>>
      BY <2>1, ProvenKept DEF Remembers
    <2>2. CASE bindings'[s] = calls[c].cap /\ calls[c].cap = registration.cap
      BY <1>1, <2>2 DEF Proven
    <2>3. CASE calls[c].cap # registration.cap
      BY <1>2, <1>3, <2>3 DEF AnsweredTooLate
    <2> QED BY <1>0, <1>1, <1>3, <2>1, <2>2, <2>3, AcceptedEffect
  <1>4. CASE calls[c].answer = "rejected" /\ Release(s, calls[c].cap, Ended(c))
             /\ bindings' = bindings
    <2>1. ~Tracing(c)
      BY <1>0, <1>1, <1>2, <1>4, NoTrace
    <2> QED BY <1>2, <1>4, <2>1, ReleaseRemembers, ProvenKept
  <1>5. CASE bindings' = bindings /\ \A t \in Session : pendings'[t].cap = pendings[t].cap
    BY <1>5, ProvenKept DEF Remembers
  <1> QED BY <1>0, <1>3, <1>4, <1>5, BindAnsweredEffect

LEMMA AuthAnsweredRemembers ==
  ASSUME IInv, Bound, Proven, registration' = registration,
         NEW c \in AuthCall, AuthAnswered(c)
  PROVE  Proven' \/ LeavesInDoubt
PROOF
  <1> DEFINE s == SessionOf[c]
  <1>0. Types /\ AcceptedTraced
    BY DEF IInv
  <1>1. s \in Session /\ c \in Call
    BY SessionsOfCalls
  <1>2. /\ calls[c].stage = "answered" /\ calls'[c].stage = "none"
        /\ \A t \in Session : t # s => /\ bindings'[t] = bindings[t]
                                       /\ pendings'[t] = pendings[t]
    BY <1>0, <1>1, AuthAnsweredEffect, EndedSound, Constants
  <1>3. registration.cap \in Cap \ {NoCap} /\ calls[c].cap # NoCap
    BY <1>0, <1>1, <1>2 DEF Types, BrokerType, Routes, Bound, CallsSound, CallSound
  <1>4. CASE calls[c].cap = registration.cap
    BY <1>2, <1>4 DEF LeavesInDoubt
  <1>5. CASE calls[c].cap # registration.cap
    <2>1. bindings[s] = registration.cap => bindings'[s] = registration.cap
      BY <1>5 DEF AuthAnswered, SameBinding
    <2>2. ASSUME pendings[s].cap = registration.cap, pendings'[s].cap # registration.cap
          PROVE  LeavesInDoubt
      <3>1. /\ calls[c].answer = "ok" /\ calls[c].action = "unbind" /\ SameBinding(c)
            /\ bindings' = [bindings EXCEPT ![s] = NoCap] /\ Detached(s)
        BY <2>2 DEF AuthAnswered
      <3>2. bindings[s] # NoCap /\ bindings'[s] = NoCap
        BY <1>0, <1>1, <1>3, <3>1 DEF SameBinding, Types, PluginType
      <3>3. ~Overtaken(s)
        <4>1. SUFFICES ASSUME Overtaken(s) PROVE FALSE
          OBVIOUS
        <4>2. pendings'[s].cap = pendings[s].cap
          BY <1>0, <1>1, <3>1, <4>1 DEF Detached, Types, PluginType, Pendings
        <4> QED BY <2>2, <4>2
      <3>4. pendings[s].uncertain
        <4>1. SUFFICES ASSUME ~pendings[s].uncertain PROVE FALSE
          OBVIOUS
        <4>2. Certain(s) /\ Sent(pendings[s].cap)
          BY <1>3, <2>2, <4>1 DEF Certain, Sent
        <4>3. Traced(registration.cap, s)
          BY <1>0, <1>1, <2>2, <4>2 DEF AcceptedTraced
        <4>4. PICK d \in BindCall : calls[d].cap = registration.cap /\ Tracing(d)
          BY <4>3 DEF Traced, Tracing
        <4>5. d \in InFlight(registration.cap, calls)
          BY <1>0, <1>3, <4>3, <4>4, SessionsOfCalls, HandlerCallSound
             DEF InFlight, Tracing
        <4> QED BY <1>3, <2>2, <3>3, <4>5 DEF Overtaken
      <3> QED BY <1>1, <3>2, <3>3, <3>4 DEF LeavesInDoubt
    <2>3. CASE pendings[s].cap = registration.cap => pendings'[s].cap = registration.cap
      BY <1>2, <2>1, <2>3, ProvenKept DEF Remembers
    <2> QED BY <2>2, <2>3
  <1> QED BY <1>4, <1>5

LEMMA StepRemembers ==
  ASSUME IInv, Next, Bound, Proven, registration' = registration
  PROVE  Proven' \/ LeavesInDoubt \/ AnsweredTooLate
PROOF
  <1>0. Types /\ PostsSound
    BY DEF IInv
  <1>1. registration.cap # NoCap
    BY DEF Bound
  <1>2. ASSUME NEW c \in BindCall, BeginBind(c) PROVE Proven'
    <2> DEFINE s == SessionOf[c]
    <2>1. s \in Session /\ pendings \in [Session -> Pendings] /\ bindings' = bindings
      BY <1>0, <1>2, SessionsOfCalls DEF BeginBind, Types, PluginType
    <2>2. ASSUME NEW t \in Session, pendings[t].cap = registration.cap
          PROVE  pendings'[t] = pendings[t]
      <3>1. CASE t = s
        <4>1. pendings' = [pendings EXCEPT ![s] = pendings[s]]
          BY <1>1, <1>2, <2>2, <3>1 DEF BeginBind
        <4> QED BY <2>1, <3>1, <4>1
      <3>2. CASE t # s
        BY <1>0, <1>2, <3>2, BeginBindEffect
      <3> QED BY <3>1, <3>2
    <2> QED BY <2>1, <2>2, ProvenKept DEF Remembers
  <1>3. ASSUME NEW c \in BindCall, Ensured(c) PROVE Proven'
    BY <1>0, <1>3, EnsuredEffect, ProvenKept DEF Remembers
  <1>4. ASSUME NEW c \in BindCall, EnsureFails(c) PROVE Proven'
    <2>1. /\ calls[c].stage = "begun" /\ calls' = Ended(c) /\ bindings' = bindings
          /\ Release(SessionOf[c], calls[c].cap, Ended(c))
      BY <1>0, <1>4, EnsureFailsEffect
    <2>2. ~Tracing(c)
      BY <1>0, <2>1, SessionsOfCalls, NoTrace
    <2> QED BY <2>1, <2>2, ReleaseRemembers, ProvenKept
  <1>5. ASSUME NEW c \in BindCall, BindAnswered(c) PROVE Proven' \/ AnsweredTooLate
    BY <1>5, BindAnsweredRemembers
  <1>6. ASSUME NEW c \in AuthCall, NEW action \in {"unbind", "status"},
               BeginAuthenticated(c, action)
        PROVE  Proven'
    BY <1>0, <1>6, BeginAuthenticatedEffect, ProvenKept DEF Remembers
  <1>7. ASSUME NEW c \in AuthCall, AuthAnswered(c) PROVE Proven' \/ LeavesInDoubt
    BY <1>7, AuthAnsweredRemembers
  <1>8. ASSUME NEW s \in Session, ExpireState(s) PROVE Proven'
    BY <1>0, <1>8, ExpireStateEffect, ProvenKept DEF Remembers
  <1>9. CASE BrokerActs
    BY <1>0, <1>9, BrokerTraces, ProvenKept DEF Remembers
  <1> QED BY <1>2, <1>3, <1>4, <1>5, <1>6, <1>7, <1>8, <1>9 DEF Next, BrokerActs

\* While the broker holds a capability the plugin does not forget it, through failed,
\* refused and overlapping rotations and late unbinds, for any number of sessions,
\* calls and faults.  It may forget it in three steps, which NeverForgotten excepts:
\* the end of a call that carried this capability, a session that drops its binding
\* while its rotation is in doubt (LeavesInDoubt), and a bind whose answer arrives
\* when the registration has another capability (AnsweredTooLate).
THEOREM NothingEverForgotten == Spec => NeverForgotten
PROOF
  <1> DEFINE Kept == Bound /\ Proven /\ registration' = registration
                       => Proven' \/ LeavesInDoubt \/ AnsweredTooLate
  <1>1. IInv /\ [Next]_vars => [Kept]_vars
    BY StepRemembers
  <1> QED BY <1>1, SessionInvariant, PTL DEF Spec, NeverForgotten
=============================================================================
