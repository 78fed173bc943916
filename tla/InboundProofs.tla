----------------------------- MODULE InboundProofs -----------------------------
(* Theorems of Inbound, for every set of messages, senders and requests and *)
(* every number of failures: whichever calls interleave, throw or are cut   *)
(* short, a message is routed at most once, for a registered player, who is *)
(* greeted at most once.                                                    *)
EXTENDS Inbound, SequenceTheorems, TLAPS

Work == [todo : Seq(Message), call : Call, isNew : BOOLEAN]

(* A request between two events has made no call on the next one yet.       *)
Early == {"none", "appendEvent"}

(* Going on with the loop leaves the request free or at its next event.     *)
LEMMA ProceedWork ==
    ASSUME NEW r \in Request, NEW events \in Seq(Message),
           seen \subseteq Message, Proceed(r, events)
    PROVE  /\ seen' \subseteq Message
           /\ \E w \in Work : /\ work' = [work EXCEPT ![r] = w]
                              /\ w.call \in Early
                              /\ w.isNew = FALSE
                              /\ w.todo = <<>> <=> w.call = "none"
<1>1. CASE Range(events) \subseteq seen /\ work' = [work EXCEPT ![r] = Free] /\ UNCHANGED seen
  <2>1. Free \in Work
    BY DEF Free, Work, Call
  <2>2. QED BY <1>1, <2>1 DEF Free, Early
<1>2. ASSUME NEW next \in DOMAIN events,
             seen' = seen \cup {events[next]},
             work' = [work EXCEPT ![r] = [todo |-> SubSeq(events, next, Len(events)),
                                          call |-> "appendEvent", isNew |-> FALSE]]
      PROVE  /\ seen' \subseteq Message
             /\ \E w \in Work : /\ work' = [work EXCEPT ![r] = w]
                                /\ w.call \in Early
                                /\ w.isNew = FALSE
                                /\ w.todo = <<>> <=> w.call = "none"
  <2> DEFINE rest == SubSeq(events, next, Len(events))
             w == [todo |-> rest, call |-> "appendEvent", isNew |-> FALSE]
  <2>1. next \in 1..Len(events) /\ Len(events) \in Nat /\ events[next] \in Message
    OBVIOUS
  <2>2. rest \in Seq(Message) /\ Len(rest) = Len(events) - next + 1
    BY <2>1, SubSeqProperties
  <2>3. rest # <<>>
    <3>1. Len(rest) >= 1
      BY <2>1, <2>2
    <3>2. Len(<<>>) = 0
      OBVIOUS
    <3>3. QED BY <3>1, <3>2
  <2>4. w \in Work
    BY <2>2 DEF Work, Call
  <2>5. w.call \in Early /\ w.isNew = FALSE /\ (w.todo = <<>> <=> w.call = "none")
    BY <2>3 DEF Early
  <2> HIDE DEF w, rest
  <2>6. work' = [work EXCEPT ![r] = w]
    BY <1>2 DEF w, rest
  <2>7. QED BY <1>2, <2>1, <2>4, <2>5, <2>6
<1>3. QED BY <1>1, <1>2 DEF Proceed

(* A call is always about an event that is left, which is a message.        *)
LEMMA CurrentIsMessage ==
    ASSUME TypeOK, NEW r \in Request, work[r].call # "none"
    PROVE  /\ work[r] \in Work
           /\ Current(r) \in Message /\ Sender[Current(r)] \in Phone
           /\ Tail(work[r].todo) \in Seq(Message)
<1>1. work[r] \in Work /\ work[r].todo \in Seq(Message) /\ work[r].todo # <<>>
  BY DEF TypeOK, Work
<1>2. Head(work[r].todo) \in Message /\ Tail(work[r].todo) \in Seq(Message)
  BY <1>1, HeadTailProperties
<1>3. QED BY <1>1, <1>2, SenderAssumption DEF Current

(* What a step that only moves request r keeps of the type.                 *)
LEMMA WorkKeepsType ==
    ASSUME TypeOK, NEW r \in Request, NEW w \in Work, work' = [work EXCEPT ![r] = w],
           w.todo = <<>> <=> w.call = "none"
    PROVE  /\ work' \in [Request -> Work]
           /\ \A s \in Request : work[s]'.todo = <<>> <=> work[s]'.call = "none"
BY DEF TypeOK, Work

LEMMA GoesWork ==
    ASSUME TypeOK, NEW r \in Request, NEW call \in Call \ {"none"},
           work[r].call # "none", Goes(r, call)
    PROVE  \E w \in Work : /\ work' = [work EXCEPT ![r] = w]
                           /\ w.call = call
                           /\ w.todo = work[r].todo
                           /\ w.isNew = work[r].isNew
                           /\ w.todo = <<>> <=> w.call = "none"
<1> DEFINE w == [work[r] EXCEPT !.call = call]
<1>1. work[r] \in Work /\ work \in [Request -> Work] /\ work[r].todo # <<>>
  BY DEF TypeOK, Work
<1>2. w \in Work /\ w.call = call /\ w.todo = work[r].todo /\ w.isNew = work[r].isNew
  BY <1>1 DEF Work
<1>3. work' = [work EXCEPT ![r] = w]
  BY <1>1 DEF Goes
<1>4. QED BY <1>1, <1>2, <1>3

LEMMA FreeIsWork == Free \in Work /\ Free.todo = <<>> /\ Free.call = "none" /\ Free.isNew = FALSE
BY DEF Free, Work, Call

(* The webhook's part of the type.                                          *)
WebhookTypeOK ==
    /\ work \in [Request -> Work]
    /\ \A r \in Request : work[r].todo = <<>> <=> work[r].call = "none"
    /\ seen \subseteq Message

(* Giving a request up loses events, which are messages.                    *)
LEMMA AbortKeepsType ==
    ASSUME TypeOK, NEW r \in Request, Abort(r)
    PROVE  WebhookTypeOK' /\ lost' \subseteq Message
<1>1. work' = [work EXCEPT ![r] = Free] /\ UNCHANGED seen
  BY DEF Abort
<1>2. WebhookTypeOK'
  BY <1>1, FreeIsWork, WorkKeepsType DEF WebhookTypeOK, TypeOK
<1>3. work[r].todo \in Seq(Message)
  BY DEF TypeOK
<1>4. Range(work[r].todo) \subseteq Message
  BY <1>3 DEF Range
<1>5. QED BY <1>2, <1>4 DEF Abort, TypeOK

LEMMA ProceedKeepsType ==
    ASSUME TypeOK, NEW r \in Request, NEW events \in Seq(Message), Proceed(r, events)
    PROVE  WebhookTypeOK'
<1>1. seen' \subseteq Message
  BY ProceedWork DEF TypeOK
<1>2. PICK w \in Work : work' = [work EXCEPT ![r] = w] /\ (w.todo = <<>> <=> w.call = "none")
  BY ProceedWork DEF TypeOK
<1>3. QED BY <1>1, <1>2, WorkKeepsType DEF WebhookTypeOK

LEMMA GoesKeepsType ==
    ASSUME TypeOK, NEW r \in Request, NEW call \in Call \ {"none"},
           work[r].call # "none", Goes(r, call), UNCHANGED seen
    PROVE  WebhookTypeOK'
<1>1. PICK w \in Work : work' = [work EXCEPT ![r] = w] /\ (w.todo = <<>> <=> w.call = "none")
  BY GoesWork
<1>2. QED BY <1>1, WorkKeepsType DEF WebhookTypeOK, TypeOK

(* Inserting the player remembers that he is new.                           *)
LEMMA InsertPlayerWork ==
    ASSUME TypeOK, NEW r \in Request, work[r].call = "insertPlayer",
           work' = [work EXCEPT ![r].call = "insertInbound", ![r].isNew = TRUE]
    PROVE  \E w \in Work : /\ work' = [work EXCEPT ![r] = w]
                           /\ w.call = "insertInbound"
                           /\ w.todo = work[r].todo
                           /\ w.isNew = TRUE
                           /\ w.todo = <<>> <=> w.call = "none"
<1> DEFINE w == [work[r] EXCEPT !.call = "insertInbound", !.isNew = TRUE]
<1>1. work[r] \in Work /\ work \in [Request -> Work] /\ work[r].todo # <<>>
  BY DEF TypeOK, Work
<1>2. w \in Work /\ w.call = "insertInbound" /\ w.todo = work[r].todo /\ w.isNew = TRUE
  BY <1>1 DEF Work, Call
<1>3. work' = [work EXCEPT ![r] = w]
  BY <1>1
<1>4. QED BY <1>1, <1>2, <1>3

-----------------------------------------------------------------------------
(* The rest of it, for this state and the next.                             *)
RestTypeOK ==
    /\ players \subseteq Phone /\ inbound \subseteq Message
    /\ routed \in [Message -> Nat] /\ welcomed \in [Phone -> Nat]
    /\ received \subseteq Message /\ lost \subseteq Message
    /\ requests \in 0..MaxRequests /\ failures \in 0..MaxFailures

LEMMA TypeOKParts ==
    /\ TypeOK <=> WebhookTypeOK /\ RestTypeOK
    /\ TypeOK' <=> WebhookTypeOK' /\ RestTypeOK'
BY DEF TypeOK, WebhookTypeOK, RestTypeOK, Work

LEMMA BoundsAreNatural == MaxEvents \in Nat /\ MaxRequests \in Nat /\ MaxFailures \in Nat
BY BoundAssumption

LEMMA TypeInit == Init => TypeOK
<1> SUFFICES ASSUME Init PROVE TypeOK
  OBVIOUS
<1>1. WebhookTypeOK
  BY FreeIsWork DEF Init, WebhookTypeOK
<1>2. QED BY <1>1, TypeOKParts, BoundsAreNatural DEF Init, RestTypeOK

LEMMA PayloadIsEvents ==
    ASSUME NEW events \in Payload
    PROVE  /\ events \in Seq(Message) /\ events # <<>> /\ Range(events) \subseteq Message
<1>1. PICK n \in 1..MaxEvents : events \in [1..n -> Message]
  BY DEF Payload
<1>2. n \in Nat /\ n >= 1
  BY BoundsAreNatural
<1>3. events \in Seq(Message) /\ Len(events) = n
  BY <1>1, <1>2
<1>4. events # <<>>
  <2>1. Len(<<>>) = 0
    OBVIOUS
  <2>2. QED BY <1>2, <1>3, <2>1
<1>5. QED BY <1>1, <1>3, <1>4 DEF Range

LEMMA TypeReceive ==
    ASSUME TypeOK, NEW r \in Request, NEW events \in Payload, Receive(r, events)
    PROVE  TypeOK'
<1> DEFINE w == [todo |-> events, call |-> "appendRaw", isNew |-> FALSE]
<1>1. w \in Work /\ ~(w.todo = <<>>) /\ w.call # "none"
  BY PayloadIsEvents DEF Work, Call
<1>2. work' = [work EXCEPT ![r] = w]
  BY DEF Receive
<1> HIDE DEF w
<1>3. WebhookTypeOK'
  BY <1>1, <1>2, WorkKeepsType DEF WebhookTypeOK, TypeOK, Receive
<1>4. requests' \in 0..MaxRequests
  BY BoundsAreNatural DEF TypeOK, Receive
<1>5. received' \subseteq Message
  BY PayloadIsEvents DEF TypeOK, Receive
<1>6. QED BY <1>3, <1>4, <1>5, TypeOKParts DEF RestTypeOK, Receive, tables, outcome

LEMMA TypeHandle ==
    ASSUME TypeOK, NEW r \in Request, HandleWebhook(r)
    PROVE  TypeOK'
<1> USE DEF Calling, tables, outcome, history
<1>1. work[r].call # "none"
  BY DEF HandleWebhook, AppendRaw, AppendEvent, GetHandlerKey, FindPlayer, InsertPlayer,
         InsertInbound, Route, RouteReturns
<1>2. Current(r) \in Message /\ Sender[Current(r)] \in Phone /\ Tail(work[r].todo) \in Seq(Message)
  BY <1>1, CurrentIsMessage
<1>3. FinishEvent(r) => WebhookTypeOK'
  BY <1>2, ProceedKeepsType DEF FinishEvent
<1>4. ASSUME NEW call \in Call \ {"none"}, Goes(r, call), UNCHANGED seen
      PROVE  WebhookTypeOK'
  BY <1>1, <1>4, GoesKeepsType
<1>5. CASE AppendRaw(r)
  <2>1. work[r].todo \in Seq(Message)
    BY DEF TypeOK
  <2>2. QED BY <1>5, <2>1, ProceedKeepsType, TypeOKParts DEF RestTypeOK, AppendRaw
<1>6. CASE AppendEvent(r)
  BY <1>4, <1>6, TypeOKParts DEF RestTypeOK, AppendEvent, Call
<1>7. CASE GetHandlerKey(r)
  <2>1. WebhookTypeOK'
    BY <1>3, <1>4, <1>7 DEF GetHandlerKey, Call
  <2>2. QED BY <1>7, <2>1, TypeOKParts DEF RestTypeOK, GetHandlerKey
<1>8. CASE FindPlayer(r)
  BY <1>4, <1>8, TypeOKParts DEF RestTypeOK, FindPlayer, Call
<1>9. CASE InsertPlayer(r)
  <2>1. CASE Sender[Current(r)] \in players
    BY <1>9, <2>1, AbortKeepsType, TypeOKParts DEF RestTypeOK, InsertPlayer, Abort
  <2>2. CASE Sender[Current(r)] \notin players
    <3>1. work' = [work EXCEPT ![r].call = "insertInbound", ![r].isNew = TRUE] /\ UNCHANGED seen
      BY <1>9, <2>2 DEF InsertPlayer
    <3>2. PICK w \in Work : work' = [work EXCEPT ![r] = w] /\ (w.todo = <<>> <=> w.call = "none")
      BY <1>9, <3>1, InsertPlayerWork DEF InsertPlayer
    <3>3. WebhookTypeOK'
      BY <3>1, <3>2, WorkKeepsType DEF WebhookTypeOK, TypeOK
    <3>4. QED BY <1>2, <1>9, <2>2, <3>3, TypeOKParts DEF RestTypeOK, InsertPlayer
  <2>3. QED BY <2>1, <2>2
<1>10. CASE InsertInbound(r)
  <2>1. WebhookTypeOK'
    BY <1>3, <1>4, <1>10 DEF InsertInbound, Call
  <2>2. QED BY <1>2, <1>10, <2>1, TypeOKParts DEF RestTypeOK, InsertInbound
<1>11. CASE Route(r)
  <2>1. WebhookTypeOK'
    BY <1>4, <1>11 DEF Route, Call
  <2>2. routed' \in [Message -> Nat] /\ welcomed' \in [Phone -> Nat]
    BY <1>2, <1>11 DEF Route, TypeOK
  <2>3. QED BY <1>11, <2>1, <2>2, TypeOKParts DEF RestTypeOK, Route
<1>12. CASE RouteReturns(r)
  BY <1>3, <1>12, TypeOKParts DEF RestTypeOK, RouteReturns
<1>13. QED BY <1>5, <1>6, <1>7, <1>8, <1>9, <1>10, <1>11, <1>12 DEF HandleWebhook

LEMMA TypeThrow ==
    ASSUME TypeOK, NEW r \in Request, Throw(r)
    PROVE  TypeOK'
<1>1. failures' \in 0..MaxFailures
  BY BoundsAreNatural DEF Throw, TypeOK
<1>2. QED BY <1>1, AbortKeepsType, TypeOKParts DEF RestTypeOK, Throw, Abort, tables, outcome

LEMMA TypeDie ==
    ASSUME TypeOK, Die
    PROVE  TypeOK'
<1>1. WebhookTypeOK'
  BY FreeIsWork DEF Die, WebhookTypeOK
<1>2. lost' \subseteq Message
  <2>1. \A r \in Request : Range(work[r].todo) \subseteq Message
    BY DEF TypeOK, Range
  <2>2. QED BY <2>1 DEF Die, TypeOK
<1>3. failures' \in 0..MaxFailures
  BY BoundsAreNatural DEF Die, TypeOK
<1>4. QED BY <1>1, <1>2, <1>3, TypeOKParts DEF RestTypeOK, Die, tables, outcome

LEMMA TypeStep == TypeOK /\ [Next]_vars => TypeOK'
<1> SUFFICES ASSUME TypeOK, [Next]_vars PROVE TypeOK'
  OBVIOUS
<1>1. CASE UNCHANGED vars
  BY <1>1 DEF TypeOK, vars, tables, outcome, history
<1>2. ASSUME NEW m \in Message, Forget(m) PROVE TypeOK'
  BY <1>2 DEF Forget, TypeOK, tables, outcome, history
<1>3. QED BY <1>1, <1>2, TypeReceive, TypeHandle, TypeThrow, TypeDie DEF Next

(* The variables of the webhook stay within their types, and a request has  *)
(* events left exactly while one of its calls is under way.                 *)
THEOREM TypeCorrect == Spec => []TypeOK
<1> QED BY TypeInit, TypeStep, PTL DEF Spec

-----------------------------------------------------------------------------
(* Safety. A message is routed between two calls of the same request, so    *)
(* that RoutedAtMostOnce has to say which requests may still route, and     *)
(* WelcomedAtMostOnce which may still greet.                                *)

At(r, call) == work[r].call = call
Recording(r) == At(r, "insertInbound") \/ At(r, "route")
Greeting(r) == Recording(r) /\ work[r].isNew

(* Only the request that recorded a message may route it.                   *)
RoutingInv ==
    /\ \A m \in Message : /\ routed[m] <= 1
                          /\ routed[m] > 0 => m \in inbound /\ Sender[m] \in players
    /\ \A r \in Request : At(r, "route") => Current(r) \in inbound /\ routed[Current(r)] = 0
    /\ \A r, s \in Request :
          At(r, "route") /\ At(s, "route") /\ Current(r) = Current(s) => r = s

(* Only the request that inserted a player may greet him.                   *)
GreetingInv ==
    /\ \A p \in Phone : welcomed[p] <= 1 /\ (welcomed[p] > 0 => p \in players)
    /\ \A r \in Request : Recording(r) => Sender[Current(r)] \in players
    /\ \A r \in Request : Greeting(r) => welcomed[Sender[Current(r)]] = 0
    /\ \A r, s \in Request :
          Greeting(r) /\ Greeting(s) /\ Sender[Current(r)] = Sender[Current(s)] => r = s
    /\ \A r \in Request : work[r].isNew => Recording(r) \/ At(r, "routing")

InboundInv == TypeOK /\ RoutingInv /\ GreetingInv

(* A step that leaves the tables and the router alone cannot disturb the    *)
(* invariant unless the request it moves goes on to record or route.        *)
LEMMA QuietStep ==
    ASSUME InboundInv, NEW r \in Request, NEW w \in Work, work' = [work EXCEPT ![r] = w],
           w.call \notin {"insertInbound", "route"},
           w.isNew => w.call = "routing",
           UNCHANGED <<tables, outcome>>
    PROVE  RoutingInv' /\ GreetingInv'
<1>1. /\ \A s \in Request \ {r} : work[s]' = work[s]
      /\ work[r]' = w
  BY DEF InboundInv, TypeOK
<1>2. /\ ~At(r, "route")' /\ ~At(r, "insertInbound")' /\ ~Recording(r)' /\ ~Greeting(r)'
      /\ work[r]'.isNew => At(r, "routing")'
      /\ \A s \in Request \ {r} : /\ Current(s)' = Current(s)
                                  /\ At(s, "route")' = At(s, "route")
                                  /\ Recording(s)' = Recording(s)
                                  /\ Greeting(s)' = Greeting(s)
                                  /\ At(s, "routing")' = At(s, "routing")
                                  /\ work[s]'.isNew = work[s].isNew
  BY <1>1 DEF At, Recording, Greeting, Current
<1>3. RoutingInv'
  BY <1>2 DEF InboundInv, RoutingInv, tables, outcome
<1>4. GreetingInv'
  BY <1>2 DEF InboundInv, GreetingInv, tables, outcome
<1>5. QED BY <1>3, <1>4

LEMMA ProceedIsQuiet ==
    ASSUME InboundInv, NEW r \in Request, NEW events \in Seq(Message), Proceed(r, events),
           UNCHANGED <<tables, outcome>>
    PROVE  RoutingInv' /\ GreetingInv'
<1>1. PICK w \in Work : /\ work' = [work EXCEPT ![r] = w]
                       /\ w.call \in Early /\ w.isNew = FALSE
  BY ProceedWork DEF InboundInv, TypeOK
<1>2. QED BY <1>1, QuietStep DEF Early

LEMMA GoesIsQuiet ==
    ASSUME InboundInv, NEW r \in Request,
           NEW call \in Call \ {"none", "insertInbound", "route"},
           work[r].call # "none", Goes(r, call), work[r].isNew => call = "routing",
           UNCHANGED <<tables, outcome>>
    PROVE  RoutingInv' /\ GreetingInv'
<1>1. PICK w \in Work : /\ work' = [work EXCEPT ![r] = w]
                       /\ w.call = call /\ w.isNew = work[r].isNew
  BY GoesWork DEF InboundInv
<1>2. QED BY <1>1, QuietStep

LEMMA AbortIsQuiet ==
    ASSUME InboundInv, NEW r \in Request, Abort(r), UNCHANGED <<tables, outcome>>
    PROVE  RoutingInv' /\ GreetingInv'
BY FreeIsWork, QuietStep DEF Abort

LEMMA SafetyInit == Init => RoutingInv /\ GreetingInv
BY DEF Init, RoutingInv, GreetingInv, At, Recording, Greeting, Free

(* What a step that moves only r, from event to event of it or not at all,  *)
(* leaves of the others.                                                    *)
LEMMA OthersStay ==
    ASSUME TypeOK, NEW r \in Request, NEW w \in Work, work' = [work EXCEPT ![r] = w],
           w.todo = work[r].todo
    PROVE  /\ work[r]' = w
           /\ Current(r)' = Current(r)
           /\ \A s \in Request \ {r} : /\ work[s]' = work[s]
                                       /\ Current(s)' = Current(s)
                                       /\ At(s, "route")' = At(s, "route")
                                       /\ At(s, "routing")' = At(s, "routing")
                                       /\ Recording(s)' = Recording(s)
                                       /\ Greeting(s)' = Greeting(s)
<1>1. work[r]' = w /\ \A s \in Request \ {r} : work[s]' = work[s]
  BY DEF TypeOK
<1>2. QED BY <1>1 DEF Current, At, Recording, Greeting

(* A request may start to record once its sender has a row.                 *)
LEMMA SafetyFindPlayer ==
    ASSUME InboundInv, NEW r \in Request, FindPlayer(r)
    PROVE  RoutingInv' /\ GreetingInv'
<1> USE DEF Calling
<1>1. At(r, "findPlayer") /\ UNCHANGED <<tables, outcome>>
  BY DEF FindPlayer, At
<1>2. ~work[r].isNew
  BY <1>1 DEF InboundInv, GreetingInv, Recording, At
<1>3. CASE Sender[Current(r)] \notin players
  <2>1. Goes(r, "insertPlayer")
    BY <1>3 DEF FindPlayer
  <2>2. QED BY <1>1, <1>2, <2>1, GoesIsQuiet DEF Call, At
<1>4. CASE Sender[Current(r)] \in players
  <2>1. PICK w \in Work : /\ work' = [work EXCEPT ![r] = w]
                         /\ w.call = "insertInbound" /\ w.todo = work[r].todo
                         /\ w.isNew = work[r].isNew
    BY <1>4, GoesWork DEF InboundInv, FindPlayer, Call
  <2>2. TypeOK
    BY DEF InboundInv
  <2>3. Current(r)' = Current(r) /\ ~At(r, "route")' /\ ~Greeting(r)' /\ ~work[r]'.isNew
    BY <1>2, <2>1, <2>2, OthersStay DEF At, Greeting
  <2>4. \A s \in Request \ {r} : /\ work[s]' = work[s]
                                      /\ Current(s)' = Current(s)
                                      /\ At(s, "route")' = At(s, "route")
                                      /\ At(s, "routing")' = At(s, "routing")
                                      /\ Recording(s)' = Recording(s)
                                      /\ Greeting(s)' = Greeting(s)
    BY <2>1, <2>2, OthersStay
  <2>5. RoutingInv'
    BY <1>1, <2>3, <2>4 DEF InboundInv, RoutingInv, tables, outcome
  <2>6. GreetingInv'
    BY <1>1, <1>4, <2>3, <2>4 DEF InboundInv, GreetingInv, tables, outcome
  <2>7. QED BY <2>5, <2>6
<1>5. QED BY <1>3, <1>4

(* Whoever inserts the player is the only one to greet him: before, he had  *)
(* no row, and everyone who records has a sender with a row.                *)
LEMMA SafetyInsertPlayer ==
    ASSUME InboundInv, NEW r \in Request, InsertPlayer(r)
    PROVE  RoutingInv' /\ GreetingInv'
<1> DEFINE p == Sender[Current(r)]
<1>1. At(r, "insertPlayer") /\ UNCHANGED <<inbound, routed, welcomed>>
  BY DEF InsertPlayer, At, Calling, outcome
<1>2. TypeOK /\ p \in Phone
  BY <1>1, CurrentIsMessage DEF InboundInv, At
<1>3. CASE p \in players
  BY <1>3, AbortIsQuiet DEF InsertPlayer, tables, outcome
<1>4. CASE p \notin players
  <2>1. work' = [work EXCEPT ![r].call = "insertInbound", ![r].isNew = TRUE]
        /\ players' = players \cup {p}
    BY <1>4 DEF InsertPlayer
  <2>2. PICK w \in Work : /\ work' = [work EXCEPT ![r] = w]
                         /\ w.call = "insertInbound" /\ w.todo = work[r].todo /\ w.isNew
    BY <1>1, <1>2, <2>1, InsertPlayerWork DEF At
  <2>3. Current(r)' = Current(r) /\ ~At(r, "route")' /\ Recording(r)' /\ Greeting(r)'
    BY <1>2, <2>2, OthersStay DEF At, Greeting, Recording
  <2>4. welcomed[p] = 0
    BY <1>2, <1>4 DEF InboundInv, GreetingInv, TypeOK
  <2>5. \A s \in Request : Recording(s) => Sender[Current(s)] # p
    BY <1>4 DEF InboundInv, GreetingInv
  <2>6. \A s \in Request \ {r} : /\ work[s]' = work[s]
                                      /\ Current(s)' = Current(s)
                                      /\ At(s, "route")' = At(s, "route")
                                      /\ At(s, "routing")' = At(s, "routing")
                                      /\ Recording(s)' = Recording(s)
                                      /\ Greeting(s)' = Greeting(s)
    BY <1>2, <2>2, OthersStay
  <2>7. RoutingInv'
    BY <1>1, <2>1, <2>3, <2>6 DEF InboundInv, RoutingInv
  <2>8. GreetingInv'
    <3>1. \A s \in Request \ {r} : Greeting(s)' => Greeting(s) /\ Sender[Current(s)'] # p
      BY <2>5, <2>6 DEF Greeting
    <3>2. \A s \in Request : Recording(s)' => Sender[Current(s)'] \in players'
      BY <2>1, <2>3, <2>6 DEF InboundInv, GreetingInv
    <3>3. \A s \in Request : Greeting(s)' => welcomed'[Sender[Current(s)']] = 0
      BY <1>1, <2>3, <2>4, <2>6 DEF InboundInv, GreetingInv
    <3>4. \A s, t \in Request :
            Greeting(s)' /\ Greeting(t)' /\ Sender[Current(s)'] = Sender[Current(t)'] => s = t
      BY <2>3, <2>6, <3>1 DEF InboundInv, GreetingInv
    <3>5. \A s \in Request : work[s]'.isNew => Recording(s)' \/ At(s, "routing")'
      BY <2>3, <2>6 DEF InboundInv, GreetingInv
    <3>6. QED BY <1>1, <2>1, <3>2, <3>3, <3>4, <3>5 DEF InboundInv, GreetingInv
  <2>9. QED BY <2>7, <2>8
<1>5. QED BY <1>3, <1>4

(* The row is what makes the request the only one to route the message.     *)
LEMMA SafetyInsertInbound ==
    ASSUME InboundInv, NEW r \in Request, InsertInbound(r)
    PROVE  RoutingInv' /\ GreetingInv'
<1> DEFINE m == Current(r)
<1>1. At(r, "insertInbound") /\ UNCHANGED <<players, routed, welcomed>>
  BY DEF InsertInbound, At, Calling, outcome
<1>2. TypeOK /\ m \in Message /\ Tail(work[r].todo) \in Seq(Message)
  BY <1>1, CurrentIsMessage DEF InboundInv, At
<1>3. CASE m \in inbound
  <2>1. Proceed(r, Tail(work[r].todo)) /\ UNCHANGED <<tables, outcome>>
    BY <1>1, <1>3 DEF InsertInbound, FinishEvent, tables, outcome
  <2>2. QED BY <1>2, <2>1, ProceedIsQuiet
<1>4. CASE m \notin inbound
  <2>1. Goes(r, "route") /\ inbound' = inbound \cup {m}
    BY <1>4 DEF InsertInbound
  <2>2. PICK w \in Work : /\ work' = [work EXCEPT ![r] = w]
                         /\ w.call = "route" /\ w.todo = work[r].todo
                         /\ w.isNew = work[r].isNew
    BY <1>1, <1>2, <2>1, GoesWork DEF At, Call
  <2>3. /\ Current(r)' = m
        /\ Recording(r) /\ Recording(r)'
        /\ Greeting(r)' = Greeting(r)
        /\ work[r]'.isNew = work[r].isNew
    BY <1>1, <1>2, <2>2, OthersStay DEF At, Greeting, Recording
  <2>4. \A s \in Request \ {r} : /\ work[s]' = work[s]
                                      /\ Current(s)' = Current(s)
                                      /\ At(s, "route")' = At(s, "route")
                                      /\ At(s, "routing")' = At(s, "routing")
                                      /\ Recording(s)' = Recording(s)
                                      /\ Greeting(s)' = Greeting(s)
    BY <1>2, <2>2, OthersStay
  <2>5. routed[m] = 0
    BY <1>2, <1>4 DEF InboundInv, RoutingInv, TypeOK
  <2>6. \A s \in Request \ {r} : At(s, "route") => Current(s) # m
    BY <1>4 DEF InboundInv, RoutingInv
  <2>7. RoutingInv'
    BY <1>1, <2>1, <2>3, <2>4, <2>5, <2>6 DEF InboundInv, RoutingInv
  <2>8. GreetingInv'
    BY <1>1, <2>3, <2>4 DEF InboundInv, GreetingInv
  <2>9. QED BY <2>7, <2>8
<1>5. QED BY <1>3, <1>4

(* Routing uses up the right to route the message and to greet its sender.  *)
LEMMA SafetyRoute ==
    ASSUME InboundInv, NEW r \in Request, Route(r)
    PROVE  RoutingInv' /\ GreetingInv'
<1> DEFINE m == Current(r)
           p == Sender[m]
<1>1. At(r, "route") /\ UNCHANGED <<players, inbound>>
  BY DEF Route, At, Calling, tables
<1>2. TypeOK /\ m \in Message /\ p \in Phone
  BY <1>1, CurrentIsMessage DEF InboundInv, At
<1>3. PICK w \in Work : /\ work' = [work EXCEPT ![r] = w]
                       /\ w.call = "routing" /\ w.todo = work[r].todo
                       /\ w.isNew = work[r].isNew
  BY <1>1, <1>2, GoesWork DEF Route, At, Call
<1>4. /\ ~At(r, "route")' /\ At(r, "routing")' /\ ~Recording(r)' /\ ~Greeting(r)'
      /\ Recording(r) /\ (Greeting(r) <=> work[r].isNew)
  BY <1>1, <1>2, <1>3, OthersStay DEF At, Recording, Greeting
<1>5. \A s \in Request \ {r} : /\ work[s]' = work[s]
                                      /\ Current(s)' = Current(s)
                                      /\ At(s, "route")' = At(s, "route")
                                      /\ At(s, "routing")' = At(s, "routing")
                                      /\ Recording(s)' = Recording(s)
                                      /\ Greeting(s)' = Greeting(s)
  BY <1>2, <1>3, OthersStay
<1>6. routed' = [routed EXCEPT ![m] = @ + 1] /\ routed[m] = 0 /\ m \in inbound /\ p \in players
  BY <1>1, <1>4 DEF Route, InboundInv, RoutingInv, GreetingInv
<1>7. /\ routed'[m] = 1
      /\ \A n \in Message \ {m} : routed'[n] = routed[n]
      /\ \A s \in Request \ {r} : At(s, "route") => Current(s) # m
  BY <1>1, <1>2, <1>6 DEF InboundInv, RoutingInv, TypeOK
<1>8. /\ welcomed'[p] <= 1
      /\ \A q \in Phone \ {p} : welcomed'[q] = welcomed[q]
      /\ ~work[r].isNew => welcomed' = welcomed
  BY <1>2, <1>4 DEF Route, InboundInv, GreetingInv, TypeOK
<1>9. \A s \in Request \ {r} : Greeting(s) =>
          Sender[Current(s)] \in Phone /\ welcomed'[Sender[Current(s)]] = 0
  <2> SUFFICES ASSUME NEW s \in Request \ {r}, Greeting(s)
               PROVE  Sender[Current(s)] \in Phone /\ welcomed'[Sender[Current(s)]] = 0
    OBVIOUS
  <2>1. Sender[Current(s)] \in Phone
    BY <1>2, CurrentIsMessage DEF Greeting, Recording, At
  <2>2. welcomed[Sender[Current(s)]] = 0
    BY DEF InboundInv, GreetingInv
  <2>3. work[r].isNew => Sender[Current(s)] # p
    BY <1>4 DEF InboundInv, GreetingInv
  <2>4. QED BY <1>8, <2>1, <2>2, <2>3
<1>10. RoutingInv'
  <2>1. \A n \in Message : routed'[n] <= 1 /\ (routed'[n] > 0 => n \in inbound' /\ Sender[n] \in players')
    BY <1>1, <1>6, <1>7 DEF InboundInv, RoutingInv
  <2>2. \A s \in Request : At(s, "route")' => Current(s)' \in inbound' /\ routed'[Current(s)'] = 0
    <3> SUFFICES ASSUME NEW s \in Request \ {r}, At(s, "route")
                 PROVE  Current(s) \in inbound /\ routed'[Current(s)] = 0
      BY <1>1, <1>4, <1>5
    <3>1. Current(s) \in Message \ {m}
      BY <1>2, <1>7, CurrentIsMessage DEF At
    <3>2. QED BY <1>7, <3>1 DEF InboundInv, RoutingInv
  <2>3. QED BY <1>4, <1>5, <2>1, <2>2 DEF InboundInv, RoutingInv
<1>11. GreetingInv'
  <2>1. \A q \in Phone : welcomed'[q] <= 1 /\ (welcomed'[q] > 0 => q \in players')
    BY <1>1, <1>6, <1>8 DEF InboundInv, GreetingInv
  <2>2. QED BY <1>1, <1>4, <1>5, <1>9, <2>1 DEF InboundInv, GreetingInv
<1>12. QED BY <1>10, <1>11

LEMMA SafetyHandle ==
    ASSUME InboundInv, NEW r \in Request, HandleWebhook(r)
    PROVE  RoutingInv' /\ GreetingInv'
<1> USE DEF Calling, history
<1>1. CASE AppendRaw(r)
  <2>1. work[r].todo \in Seq(Message)
    BY DEF InboundInv, TypeOK
  <2>2. QED BY <1>1, <2>1, ProceedIsQuiet DEF AppendRaw
<1>2. ASSUME work[r].call \in {"appendEvent", "getHandlerKey"} PROVE ~work[r].isNew
  BY <1>2 DEF InboundInv, GreetingInv, Recording, At
<1>3. CASE AppendEvent(r)
  BY <1>2, <1>3, GoesIsQuiet DEF AppendEvent, Call
<1>4. ASSUME work[r].call # "none", FinishEvent(r), UNCHANGED <<tables, outcome>>
      PROVE  RoutingInv' /\ GreetingInv'
  <2>1. Tail(work[r].todo) \in Seq(Message)
    BY <1>4, CurrentIsMessage DEF InboundInv
  <2>2. QED BY <1>4, <2>1, ProceedIsQuiet DEF FinishEvent
<1>5. CASE GetHandlerKey(r)
  <2>1. work[r].call = "getHandlerKey" /\ UNCHANGED <<tables, outcome>>
    BY <1>5 DEF GetHandlerKey
  <2>2. CASE Current(r) \in Ignored
    BY <1>4, <1>5, <2>1, <2>2 DEF GetHandlerKey
  <2>3. CASE Current(r) \notin Ignored
    BY <1>2, <1>5, <2>1, <2>3, GoesIsQuiet DEF GetHandlerKey, Call
  <2>4. QED BY <2>2, <2>3
<1>6. CASE RouteReturns(r)
  BY <1>4, <1>6 DEF RouteReturns
<1>7. QED BY <1>1, <1>3, <1>5, <1>6, SafetyFindPlayer, SafetyInsertPlayer, SafetyInsertInbound,
             SafetyRoute DEF HandleWebhook

LEMMA SafetyStep == InboundInv /\ [Next]_vars => InboundInv'
<1> SUFFICES ASSUME InboundInv, [Next]_vars PROVE RoutingInv' /\ GreetingInv'
  BY TypeStep DEF InboundInv
<1>1. CASE UNCHANGED vars
  BY <1>1 DEF InboundInv, RoutingInv, GreetingInv, At, Recording, Greeting, Current,
              vars, tables, outcome, history
<1>2. ASSUME NEW r \in Request, NEW events \in Payload, Receive(r, events)
      PROVE  RoutingInv' /\ GreetingInv'
  <2> DEFINE w == [todo |-> events, call |-> "appendRaw", isNew |-> FALSE]
  <2>1. w \in Work /\ w.call = "appendRaw" /\ w.isNew = FALSE
    BY PayloadIsEvents DEF Work, Call
  <2>2. work' = [work EXCEPT ![r] = w] /\ UNCHANGED <<tables, outcome>>
    BY <1>2 DEF Receive
  <2> HIDE DEF w
  <2>3. QED BY <2>1, <2>2, QuietStep
<1>3. ASSUME NEW r \in Request, Throw(r) PROVE RoutingInv' /\ GreetingInv'
  BY <1>3, AbortIsQuiet DEF Throw
<1>4. ASSUME NEW m \in Message, Forget(m) PROVE RoutingInv' /\ GreetingInv'
  BY <1>4 DEF InboundInv, RoutingInv, GreetingInv, At, Recording, Greeting, Current,
              Forget, tables, outcome
<1>5. CASE Die
  <2>1. \A r \in Request : work'[r] = Free
    BY <1>5 DEF Die
  <2>2. \A r \in Request : ~At(r, "route")' /\ ~At(r, "insertInbound")' /\ ~Recording(r)'
                           /\ ~Greeting(r)' /\ ~work[r]'.isNew
    BY <2>1, FreeIsWork DEF At, Recording, Greeting
  <2>3. UNCHANGED <<tables, outcome>>
    BY <1>5 DEF Die
  <2>4. QED BY <2>2, <2>3 DEF InboundInv, RoutingInv, GreetingInv, tables, outcome
<1>6. QED BY <1>1, <1>2, <1>3, <1>4, <1>5, SafetyHandle DEF Next

LEMMA SafetyCorrect == Spec => []InboundInv
<1>1. Init => InboundInv
  BY TypeInit, SafetyInit DEF InboundInv
<1> QED BY <1>1, SafetyStep, PTL DEF Spec

(* However often WhatsApp sends a message, and whenever the process dies,   *)
(* tenis.service hands it to the router at most once.                       *)
THEOREM RoutedOnce == Spec => []RoutedAtMostOnce
<1>1. InboundInv => RoutedAtMostOnce
  BY DEF InboundInv, RoutingInv, RoutedAtMostOnce
<1> QED BY <1>1, SafetyCorrect, PTL

(* However many first messages of a phone come at a time, ensurePlayer lets *)
(* one of them greet the new player.                                        *)
THEOREM WelcomedOnce == Spec => []WelcomedAtMostOnce
<1>1. InboundInv => WelcomedAtMostOnce
  BY DEF InboundInv, GreetingInv, WelcomedAtMostOnce
<1> QED BY <1>1, SafetyCorrect, PTL

(* The router runs for recorded messages of registered players only.        *)
THEOREM RoutedOnlyKnown == Spec => []RoutedIsKnown
<1>1. InboundInv => RoutedIsKnown
  BY DEF InboundInv, RoutingInv, RoutedIsKnown
<1> QED BY <1>1, SafetyCorrect, PTL
=============================================================================
