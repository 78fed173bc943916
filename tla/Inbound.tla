-------------------------------- MODULE Inbound --------------------------------
(***************************************************************************)
(* How a WhatsApp message reaches the ladder: webhook.controller answers   *)
(* the request and lets webhook.service work through its events, which     *)
(* webhook-event-router and tenis.service hand to the router. One step is  *)
(* one awaited call with the code that runs from its return to the next    *)
(* await. Several requests may be worked on at a time, a call may throw    *)
(* and the process may die.                                                *)
(***************************************************************************)
EXTENDS Integers, FiniteSets, Sequences, Functions

CONSTANTS
    Message,        \* WhatsApp message ids
    Phone,          \* senders
    Sender,         \* the sender of each message
    Ignored,        \* events that are not messages to the tennis number
    Request,        \* webhook requests that may be worked on at a time
    MaxEvents,      \* bound on the events of one request
    MaxRequests,    \* bound on the requests WhatsApp sends
    MaxFailures     \* bound on crashes and throwing calls

ASSUME SenderAssumption == Sender \in [Message -> Phone]
ASSUME IgnoredAssumption == Ignored \subseteq Message
ASSUME BoundAssumption == {MaxEvents, MaxRequests, MaxFailures} \subseteq Nat

VARIABLES
    work,       \* what is left to do of each request
    seen,       \* WebhookService.seen: ids marked less than six hours ago
    players,    \* phones with a row in tenis_players
    inbound,    \* ids with a row in tenis_inbound_messages
    routed,     \* history: how often a message was given to the router
    welcomed,   \* history: how often a phone got "Registro creado"
    received,   \* history: messages a request has brought
    lost,       \* history: messages dropped with a failing request
    requests,   \* history: how many requests have come
    failures    \* history: how many calls threw and processes died

tables == <<players, inbound>>
outcome == <<routed, welcomed>>
history == <<received, lost, requests, failures>>
vars == <<work, seen, tables, outcome, history>>

(* parse turns a payload into one event or more; an empty or malformed one *)
(* becomes a single event the event router ignores.                        *)
Payload == UNION {[1..n -> Message] : n \in 1..MaxEvents}

Free == [todo |-> <<>>, call |-> "none", isNew |-> FALSE]
Call == {"none", "appendRaw", "appendEvent", "getHandlerKey", "findPlayer",
         "insertPlayer", "insertInbound", "route", "routing"}

(* The one type invariant: a request has events left exactly while a call  *)
(* of it is under way.                                                     *)
TypeOK ==
    /\ work \in [Request -> [todo : Seq(Message), call : Call, isNew : BOOLEAN]]
    /\ \A r \in Request : work[r].todo = <<>> <=> work[r].call = "none"
    /\ seen \subseteq Message
    /\ players \subseteq Phone
    /\ inbound \subseteq Message
    /\ routed \in [Message -> Nat]
    /\ welcomed \in [Phone -> Nat]
    /\ received \subseteq Message
    /\ lost \subseteq Message
    /\ requests \in 0..MaxRequests
    /\ failures \in 0..MaxFailures

Init ==
    /\ work = [r \in Request |-> Free]
    /\ seen = {}
    /\ players = {}
    /\ inbound = {}
    /\ routed = [m \in Message |-> 0]
    /\ welcomed = [p \in Phone |-> 0]
    /\ received = {}
    /\ lost = {}
    /\ requests = 0
    /\ failures = 0

-----------------------------------------------------------------------------
Current(r) == Head(work[r].todo)
Calling(r, call) == work[r].call = call
Goes(r, call) == work' = [work EXCEPT ![r].call = call]

(* POST /webhook: the answer does not wait for the work.                   *)
Receive(r, events) ==
    /\ work[r] = Free
    /\ requests < MaxRequests
    /\ requests' = requests + 1
    /\ received' = received \cup Range(events)
    /\ work' = [work EXCEPT ![r] = [todo |-> events, call |-> "appendRaw", isNew |-> FALSE]]
    /\ UNCHANGED <<seen, tables, outcome, lost, failures>>

(* Mutation: one duplicate ends the request.                               *)
ProceedToDuplicate(r, events) ==
    IF events = <<>> \/ Head(events) \in seen
    THEN work' = [work EXCEPT ![r] = Free] /\ UNCHANGED seen
    ELSE /\ work' = [work EXCEPT ![r] = [todo |-> events, call |-> "appendEvent",
                                         isNew |-> FALSE]]
         /\ seen' = seen \cup {Head(events)}

(* The loop of handleWebhook goes on with events: it skips those marked    *)
(* seen, marks the first one that is not and starts on it.                 *)
Proceed(r, events) ==
    \/ /\ Range(events) \subseteq seen
       /\ work' = [work EXCEPT ![r] = Free]
       /\ UNCHANGED seen
    \/ \E next \in DOMAIN events :
         /\ events[next] \notin seen
         /\ \A i \in 1..(next - 1) : events[i] \in seen
         /\ seen' = seen \cup {events[next]}
         /\ work' = [work EXCEPT ![r] = [todo |-> SubSeq(events, next, Len(events)),
                                         call |-> "appendEvent", isNew |-> FALSE]]

(* Mutation: the loop does not look whether an event is left.              *)
FinishEventBlindly(r) ==
    /\ work' = [work EXCEPT ![r] = [todo |-> Tail(work[r].todo), call |-> "appendEvent",
                                    isNew |-> FALSE]]
    /\ UNCHANGED seen

FinishEvent(r) == Proceed(r, Tail(work[r].todo))

AppendRaw(r) ==
    /\ Calling(r, "appendRaw")
    /\ Proceed(r, work[r].todo)
    /\ UNCHANGED <<tables, outcome, history>>

AppendEvent(r) ==
    /\ Calling(r, "appendEvent")
    /\ Goes(r, "getHandlerKey")
    /\ UNCHANGED <<seen, tables, outcome, history>>

GetHandlerKey(r) ==
    /\ Calling(r, "getHandlerKey")
    /\ IF Current(r) \in Ignored THEN FinishEvent(r)
                                 ELSE Goes(r, "findPlayer") /\ UNCHANGED seen
    /\ UNCHANGED <<tables, outcome, history>>

(* Mutation: the message is recorded before its sender is registered.      *)
FindPlayerLater(r) ==
    /\ Calling(r, "findPlayer")
    /\ Goes(r, "insertInbound")
    /\ UNCHANGED <<seen, tables, outcome, history>>

(* ensurePlayer looks the phone up ...                                     *)
FindPlayer(r) ==
    /\ Calling(r, "findPlayer")
    /\ Goes(r, IF Sender[Current(r)] \in players THEN "insertInbound" ELSE "insertPlayer")
    /\ UNCHANGED <<seen, tables, outcome, history>>

(* The promise of a call is rejected: handleWebhook ends, the controller   *)
(* logs the error, and nobody returns to the events that were left.        *)
Abort(r) ==
    /\ work' = [work EXCEPT ![r] = Free]
    /\ lost' = lost \cup Range(work[r].todo)
    /\ UNCHANGED <<seen, received, requests>>

(* Mutation: no UNIQUE (phone_e164).                                       *)
InsertPlayerTwice(r) ==
    /\ Calling(r, "insertPlayer")
    /\ players' = players \cup {Sender[Current(r)]}
    /\ work' = [work EXCEPT ![r].call = "insertInbound", ![r].isNew = TRUE]
    /\ UNCHANGED <<seen, inbound, outcome, history>>

(* ... and inserts it later: UNIQUE (phone_e164) throws if another request *)
(* has done so in between.                                                 *)
InsertPlayer(r) ==
    /\ Calling(r, "insertPlayer")
    /\ IF Sender[Current(r)] \in players
       THEN Abort(r) /\ UNCHANGED <<players, failures>>
       ELSE /\ players' = players \cup {Sender[Current(r)]}
            /\ work' = [work EXCEPT ![r].call = "insertInbound", ![r].isNew = TRUE]
            /\ UNCHANGED <<seen, history>>
    /\ UNCHANGED <<inbound, outcome>>

(* Mutation: the duplicate is noticed but not dropped.                     *)
InsertInboundAnyway(r) ==
    /\ Calling(r, "insertInbound")
    /\ inbound' = inbound \cup {Current(r)}
    /\ Goes(r, "route") /\ UNCHANGED seen
    /\ UNCHANGED <<players, outcome, history>>

(* A violation of UNIQUE (wa_message_id) marks a duplicate.                *)
InsertInbound(r) ==
    /\ Calling(r, "insertInbound")
    /\ IF Current(r) \in inbound
       THEN FinishEvent(r) /\ UNCHANGED inbound
       ELSE /\ inbound' = inbound \cup {Current(r)}
            /\ Goes(r, "route") /\ UNCHANGED seen
    /\ UNCHANGED <<players, outcome, history>>

(* The router greets a new player before it looks at the message.          *)
Route(r) ==
    /\ Calling(r, "route")
    /\ routed' = [routed EXCEPT ![Current(r)] = @ + 1]
    /\ welcomed' = IF work[r].isNew THEN [welcomed EXCEPT ![Sender[Current(r)]] = @ + 1]
                                    ELSE welcomed
    /\ Goes(r, "routing")
    /\ UNCHANGED <<seen, tables, history>>

RouteReturns(r) ==
    /\ Calling(r, "routing")
    /\ FinishEvent(r)
    /\ UNCHANGED <<tables, outcome, history>>

-----------------------------------------------------------------------------
(* The file system, the database or WhatsApp fails a call.                 *)
Throw(r) ==
    /\ work[r] # Free
    /\ failures < MaxFailures
    /\ failures' = failures + 1
    /\ Abort(r)
    /\ UNCHANGED <<tables, outcome>>

(* The process dies and restarts: the map and the work are in memory only. *)
Die ==
    /\ failures < MaxFailures
    /\ failures' = failures + 1
    /\ seen' = {}
    /\ lost' = lost \cup UNION {Range(work[r].todo) : r \in Request}
    /\ work' = [r \in Request |-> Free]
    /\ UNCHANGED <<tables, outcome, received, requests>>

(* Six hours after an id was marked it is forgotten; no request takes that *)
(* long.                                                                   *)
Forget(m) ==
    /\ m \in seen
    /\ \A r \in Request : work[r] = Free
    /\ seen' = seen \ {m}
    /\ UNCHANGED <<work, tables, outcome, history>>

HandleWebhook(r) ==
    \/ AppendRaw(r) \/ AppendEvent(r) \/ GetHandlerKey(r)
    \/ FindPlayer(r) \/ InsertPlayer(r) \/ InsertInbound(r)
    \/ Route(r) \/ RouteReturns(r)

Next ==
    \/ \E r \in Request : \/ \E events \in Payload : Receive(r, events)
                          \/ HandleWebhook(r)
                          \/ Throw(r)
    \/ \E m \in Message : Forget(m)
    \/ Die

Spec == Init /\ [][Next]_vars

(* The event loop comes back to every request whose call has returned.     *)
FairSpec == Spec /\ \A r \in Request : WF_vars(HandleWebhook(r))

-----------------------------------------------------------------------------
(* A message is given to the router at most once, however often WhatsApp   *)
(* sends it: within a request, in two requests at a time, after a restart  *)
(* has emptied the seen map and after six hours.                           *)
RoutedAtMostOnce == \A m \in Message : routed[m] <= 1

(* Nobody is greeted as a new player twice, although ensurePlayer looks    *)
(* the phone up and inserts it in two calls.                               *)
WelcomedAtMostOnce == \A p \in Phone : welcomed[p] <= 1

(* The router only ever runs for a registered player and a recorded        *)
(* message, so the rows it writes have a player to refer to.               *)
RoutedIsKnown ==
    \A m \in Message : routed[m] > 0 => m \in inbound /\ Sender[m] \in players

(* Every message to the ladder is routed in the end, unless the request    *)
(* that brought it failed: duplicates, ignored events and other requests   *)
(* never take a message down with them.                                    *)
ReceivedIsRouted ==
    \A m \in Message \ Ignored : m \in received ~> routed[m] = 1 \/ m \in lost
================================================================================
