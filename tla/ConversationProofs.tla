------------------------- MODULE ConversationProofs -------------------------
(***************************************************************************)
(* Theorems of Conversation, for every set of players, challenges and      *)
(* commands in flight. Until a handler is interrupted between its read and *)
(* its save the ladder part of a step of TalkNext is a step of             *)
(* MatchLifecycle, and what MatchLifecycleProofs says of the ladder holds; *)
(* afterwards a weaker invariant of the rows is left (ChainOK).            *)
(***************************************************************************)
EXTENDS Conversation, MatchLifecycleProofs, SequenceTheorems

(***************************************************************************)
(* What a command in flight still has to do                                *)

(* A conversation that is saved has a state, and a handler's news clears   *)
(* the list of candidates.                                                 *)
SavedRow == {row \in Row : row.state # "none"}
NewsRow == {row \in SavedRow : row.offer = {}}
News == [do : {"setState"}, who : Player, row : NewsRow]

Offering(p, offer) == <<SetOffer(p, offer)>>
Picking(p, q) == <<SetOffer(p, {}), CreateFor(p, q, TRUE)>>
Sending(p, q, fromList) == <<CreateFor(p, q, fromList)>>
Choosing(o, p) == <<Choose(o, p)>>

IsProgram(todo) ==
    \/ todo \in Seq(News)
    \/ \E p \in Player, offer \in (SUBSET Player) \ {{}} : todo = Offering(p, offer)
    \/ \E p \in Player, q \in Player : todo = Picking(p, q)
    \/ \E p \in Player, q \in Player, b \in BOOLEAN : todo = Sending(p, q, b)
    \/ \E o \in Proposal, p \in Player : todo = Choosing(o, p)

(* The row a command holds is the one its next call saves.                 *)
IsCopyFor(copy, step) ==
    /\ step.do \in {"setState", "updateContext"}
    /\ copy \in [row : SavedRow, insert : BOOLEAN]
    /\ step.do = "setState" => copy.row = step.row
    /\ step.do = "updateContext" => copy.row.offer = step.offer

IsFlight(f) ==
    /\ f = [todo |-> f.todo, copy |-> f.copy]
    /\ IsProgram(f.todo)
    /\ f.copy # None => f.todo # <<>> /\ IsCopyFor(f.copy, Head(f.todo))

(* TalkTypeOK without the copies of the interrupted handlers.              *)
RouterTypes ==
    /\ talk \in [Player -> Row]
    /\ \A r \in Route : /\ flight[r].todo = <<>> => flight[r].copy = None
                        /\ flight[r].copy # None => flight[r].copy.row \in Row
    /\ \A p \in Player : talk[p].state = "none" => talk[p] = NoRow
    /\ offered \in [Player -> Nat]
    /\ picked \in [Player -> Nat]
    /\ overlapped \in BOOLEAN
    /\ failures \in 0..MaxFailures

TalkTyped ==
    /\ RouterTypes
    /\ flight = [r \in Route |-> flight[r]]
    /\ \A r \in Route : IsFlight(flight[r])

(* A challenge names two players from its first day, a report is by one of *)
(* them, and no match is reported that has no schedule yet.                *)
RowsMakeSense ==
    \A c \in Challenge :
        /\ IF challenge[c].status = "none"
           THEN challenge[c].challenger = None /\ challenge[c].challenged = None
           ELSE challenge[c].challenger \in Player /\ challenge[c].challenged \in Player
        /\ report[c].status # "none" => Plays(report[c].reporter, c)
        /\ match[c].status = "PENDING_SCHEDULE" => report[c].status = "none"

(* What is left of that once stale rows are saved: a match may be saved    *)
(* back without its option, a challenge that was accepted as expired.      *)
RowsChain ==
    /\ \A c \in Challenge :
          /\ IF challenge[c].status = "none"
             THEN challenge[c].challenger = None /\ challenge[c].challenged = None
             ELSE challenge[c].challenger \in Player /\ challenge[c].challenged \in Player
          /\ report[c].status # "none" =>
                report[c].reporter \in Player /\ Plays(report[c].reporter, c)
    /\ \A o \in Proposal : proposal[o].status # "none" => proposal[o].match # None

(* What an interrupted handler has read is still there when it saves.      *)
CopiesOK == held \in [Challenge -> Copy] /\ interleaved \in BOOLEAN
HeldOK ==
    \A c \in Challenge :
        /\ held[c].op = "expire" => challenge[c].status # "none"
        /\ held[c].op = "disputa" => report[c].status # "none"

ChainOK == TypeOK /\ RowsChain /\ CopiesOK /\ HeldOK

(***************************************************************************)
(* A conversation or a copy of one that does not run ahead of the ladder   *)
Backed(p, row) ==
    LET c == row.challenge
        m == row.match IN
    /\ c # None => challenge[c].status # "none" /\ Plays(p, c)
    /\ m # None => match[m].status # "none" /\ Plays(p, m)
    /\ row.state = "challenge_received" => c # None /\ challenge[c].challenged = p
    /\ row.state = "awaiting_schedule" => m # None
    /\ row.state = "awaiting_result_confirmation" =>
          m # None /\ \E o \in Proposal : proposal[o] = [status |-> "SELECTED", match |-> m]
    /\ row.state = "disputed" => \E d \in Challenge : Plays(p, d) /\ dispute[d] # "none"

(* A selection on its way was checked: the option is there, and the player *)
(* is the challenged one.                                                  *)
Chooses(o, p) ==
    LET c == proposal[o].match IN
    /\ proposal[o].status # "none"
    /\ challenge[c].challenged = p /\ challenge[c].challenger # p

BackedFlight(f) ==
    /\ f.todo \in Seq(News) => \A i \in DOMAIN f.todo : Backed(f.todo[i].who, f.todo[i].row)
    /\ f.copy # None => Backed(Head(f.todo).who, f.copy.row)
    /\ \A o \in Proposal, p \in Player : f.todo = Choosing(o, p) => Chooses(o, p)

AllBacked ==
    /\ \A p \in Player : Backed(p, talk[p])
    /\ \A r \in Route : BackedFlight(flight[r])

(***************************************************************************)
(* One command at a time                                                   *)
Alone == ~overlapped => \A r, s \in Busy : r = s

(* A list that is shown, or cleared for a challenge still to be sent, has  *)
(* not been used yet.                                                      *)
Unused(p) == picked[p] < offered[p]
ListUnused ==
    ~overlapped =>
        /\ \A p \in Player : /\ picked[p] <= offered[p]
                             /\ talk[p].offer # {} => Unused(p)
        /\ \A r \in Route, p \in Player, q \in Player :
             /\ flight[r].todo = Picking(p, q) => Unused(p)
             /\ flight[r].todo = Sending(p, q, TRUE) => Unused(p) /\ talk[p].offer = {}

(* With nobody else writing, the row a command read is the row it replaces *)
CopyCurrent ==
    ~overlapped => \A r \in Route : flight[r].copy # None =>
        LET step == Head(flight[r].todo) IN
        flight[r].copy = [row |-> NewRow(step, talk[step.who]),
                          insert |-> talk[step.who] = NoRow]

(* What a player's conversation will be once the command is through.       *)
Mute(todo, p) == todo \in Seq(News) => \A i \in DOMAIN todo : todo[i].who # p
LastWord(todo, p, row) ==
    /\ todo \in Seq(News)
    /\ \E i \in DOMAIN todo : /\ todo[i].who = p /\ todo[i].row = row
                              /\ \A j \in DOMAIN todo : j > i => todo[j].who # p
Final(p, row) ==
    \/ \E r \in Route : LastWord(flight[r].todo, p, row)
    \/ row = talk[p] /\ \A r \in Route : Mute(flight[r].todo, p)

OnlyIn(p, c) == Plays(p, c) /\ \A d \in Challenge \ {c} : ~Plays(p, d)

Follows(p, c, row) ==
    /\ challenge[c].status = "PENDING" =>
        /\ row.challenge = c
        /\ challenge[c].challenged = p => row.state = "challenge_received"
    /\ match[c].status = "PENDING_SCHEDULE" => row.match = c /\ row.state = "awaiting_schedule"
    /\ match[c].selected # None /\ report[c].status = "none" =>
        row.match = c /\ row.state = "awaiting_result_confirmation"
    /\ dispute[c] = "OPEN" /\ report[c].reporter # p => row.state = "disputed"

InTurn == ~overlapped /\ ~interleaved /\ failures = 0 /\ Queue # "flaky"

WillFollow ==
    InTurn => \A c \in Challenge, p \in Player, row \in Row :
                OnlyIn(p, c) /\ Final(p, row) => Follows(p, c, row)
-----------------------------------------------------------------------------
(* Commands in flight                                                      *)

(* The programs and the calls they begin with.                             *)
LEMMA Programs ==
    /\ IsProgram(<<>>)
    /\ \A todo \in Seq(News) : IsProgram(todo)
    /\ \A p, q \in Player, b \in BOOLEAN : IsProgram(Picking(p, q)) /\ IsProgram(Sending(p, q, b))
    /\ \A p \in Player, offer \in (SUBSET Player) \ {{}} : IsProgram(Offering(p, offer))
    /\ \A o \in Proposal, p \in Player : IsProgram(Choosing(o, p))
BY DEF IsProgram

(* The lists of one and of two calls, taken apart.                         *)
LEMMA Listed ==
    ASSUME NEW a, NEW b
    PROVE  /\ <<a>> # <<>> /\ Head(<<a>>) = a /\ Tail(<<a>>) = <<>>
           /\ <<a, b>> # <<>> /\ Head(<<a, b>>) = a /\ Tail(<<a, b>>) = <<b>>
           /\ \A S : a \notin S => <<a>> \notin Seq(S) /\ <<a, b>> \notin Seq(S)
OBVIOUS

(* A call that is not setState is no news.                                 *)
LEMMA OtherCalls ==
    ASSUME NEW p, NEW q, NEW b, NEW offer, NEW o
    PROVE  /\ SetOffer(p, offer) \notin News /\ CreateFor(p, q, b) \notin News
           /\ Choose(o, p) \notin News
<1>1. /\ SetOffer(p, offer).do = "updateContext" /\ CreateFor(p, q, b).do = "createChallengeFor"
      /\ Choose(o, p).do = "selectOption"
  BY DEF SetOffer, CreateFor, Choose
<1>2. \A x \in News : x.do = "setState"
  BY DEF News
<1> QED
  BY <1>1, <1>2

(* Showing a list is the one call that saves it.                           *)
LEMMA OfferingShape ==
    ASSUME NEW p, NEW offer
    PROVE  /\ Offering(p, offer) # <<>> /\ Tail(Offering(p, offer)) = <<>>
           /\ Head(Offering(p, offer)) = SetOffer(p, offer)
           /\ Offering(p, offer) \notin Seq(News)
BY Listed, OtherCalls DEF Offering

(* A pick clears the list first and then sends the challenge.              *)
LEMMA PickingShape ==
    ASSUME NEW p, NEW q
    PROVE  /\ Picking(p, q) # <<>> /\ Tail(Picking(p, q)) = Sending(p, q, TRUE)
           /\ Head(Picking(p, q)) = SetOffer(p, {})
           /\ Picking(p, q) \notin Seq(News)
BY Listed, OtherCalls DEF Picking, Sending

(* Sending a challenge is one call.                                        *)
LEMMA SendingShape ==
    ASSUME NEW p, NEW q, NEW b
    PROVE  /\ Sending(p, q, b) # <<>> /\ Tail(Sending(p, q, b)) = <<>>
           /\ Head(Sending(p, q, b)) = CreateFor(p, q, b)
           /\ Sending(p, q, b) \notin Seq(News)
BY Listed, OtherCalls DEF Sending

(* A selection is one call.                                                *)
LEMMA ChoosingShape ==
    ASSUME NEW o, NEW p
    PROVE  /\ Choosing(o, p) # <<>> /\ Tail(Choosing(o, p)) = <<>>
           /\ Head(Choosing(o, p)) = Choose(o, p)
           /\ Choosing(o, p) \notin Seq(News)
           /\ Choose(o, p).do = "selectOption"
           /\ Choose(o, p).who = p /\ Choose(o, p).option = o
BY Listed, OtherCalls DEF Choosing, Choose

(* A news call names the player it is for and the row he gets.             *)
LEMMA NewsTyped ==
    ASSUME NEW p \in Player, NEW s \in FlowState,
           NEW c \in Challenge \cup {None}, NEW m \in Challenge \cup {None}
    PROVE  /\ SetState(p, s, c, m) \in News
           /\ SetState(p, s, c, m).who = p
           /\ SetState(p, s, c, m).row.state = s
           /\ SetState(p, s, c, m).row.challenge = c
           /\ SetState(p, s, c, m).row.match = m
<1>1. s # "none"
  BY DEF FlowState
<1> QED
  BY <1>1 DEF SetState, News, NewsRow, SavedRow, Row

(* What a command that does something does next.                           *)
LEMMA NextCall ==
    ASSUME NEW f, IsFlight(f), f.todo # <<>>
    PROVE  \/ /\ f.todo \in Seq(News) /\ Head(f.todo) \in News
              /\ Tail(f.todo) \in Seq(News)
           \/ \E p \in Player, offer \in (SUBSET Player) \ {{}} :
                 /\ f.todo = Offering(p, offer) /\ Head(f.todo) = SetOffer(p, offer)
                 /\ Tail(f.todo) = <<>>
           \/ \E p \in Player, q \in Player :
                 /\ f.todo = Picking(p, q) /\ Head(f.todo) = SetOffer(p, {})
                 /\ Tail(f.todo) = Sending(p, q, TRUE)
           \/ \E p \in Player, q \in Player, b \in BOOLEAN :
                 f.todo = Sending(p, q, b) /\ Head(f.todo) = CreateFor(p, q, b)
           \/ \E o \in Proposal, p \in Player :
                 f.todo = Choosing(o, p) /\ Head(f.todo) = Choose(o, p)
<1>1. f.todo \in Seq(News) => Head(f.todo) \in News /\ Tail(f.todo) \in Seq(News)
  BY HeadTailProperties
<1>2. IsProgram(f.todo)
  BY DEF IsFlight
<1>3. ASSUME NEW p \in Player, NEW offer \in (SUBSET Player) \ {{}}, f.todo = Offering(p, offer)
      PROVE  Head(f.todo) = SetOffer(p, offer) /\ Tail(f.todo) = <<>>
  BY <1>3, OfferingShape
<1>4. ASSUME NEW p \in Player, NEW q \in Player, f.todo = Picking(p, q)
      PROVE  Head(f.todo) = SetOffer(p, {}) /\ Tail(f.todo) = Sending(p, q, TRUE)
  BY <1>4, PickingShape
<1>5. ASSUME NEW p \in Player, NEW q \in Player, NEW b \in BOOLEAN, f.todo = Sending(p, q, b)
      PROVE  Head(f.todo) = CreateFor(p, q, b)
  BY <1>5, SendingShape
<1>6. ASSUME NEW o \in Proposal, NEW p \in Player, f.todo = Choosing(o, p)
      PROVE  Head(f.todo) = Choose(o, p)
  BY <1>6, ChoosingShape
<1> QED
  BY <1>1, <1>2, <1>3, <1>4, <1>5, <1>6 DEF IsProgram
-----------------------------------------------------------------------------
(* One step of one command                                                 *)

InFlight(todo, copy) == [todo |-> todo, copy |-> copy]
Moved(r, f) == flight' = [s \in Route |-> IF s = r THEN f ELSE flight[s]]

(* What is put in flight is the command with its calls and its copy.       *)
LEMMA InFlightIs ==
    ASSUME NEW todo, NEW copy
    PROVE  /\ InFlight(todo, copy).todo = todo /\ InFlight(todo, copy).copy = copy
           /\ InFlight(todo, copy) = [todo |-> todo, copy |-> copy]
           /\ IsProgram(todo) => IsFlight(InFlight(todo, None))
BY DEF InFlight, IsFlight

(* A takeoff puts one command in flight, which had landed.                 *)
LEMMA TakeoffMoves ==
    ASSUME TalkTyped, NEW r \in Route, NEW todo, Takeoff(r, todo)
    PROVE  /\ Moved(r, InFlight(todo, None)) /\ flight[r] = Landed
           /\ flight[r].todo = <<>> /\ flight[r].copy = None
           /\ UNCHANGED <<offered, picked, failures>>
           /\ overlapped' = (overlapped \/ Busy # {})
<1>1. flight[r] = [todo |-> <<>>, copy |-> None]
  BY DEF Takeoff, Landed
<1>2. [flight[r] EXCEPT !.todo = todo] = InFlight(todo, None)
  BY <1>1 DEF InFlight
<1>3. flight' = [s \in Route |-> IF s = r THEN [flight[r] EXCEPT !.todo = todo] ELSE flight[s]]
  BY DEF Takeoff, TalkTyped
<1>4. Moved(r, InFlight(todo, None))
  BY <1>2, <1>3 DEF Moved
<1>5. UNCHANGED <<offered, picked, failures>> /\ overlapped' = (overlapped \/ Busy # {})
  BY DEF Takeoff
<1>6. flight[r] = Landed
  BY DEF Takeoff
<1> QED
  BY <1>1, <1>4, <1>5, <1>6

(* The rest of a command is in flight without a copy.                      *)
LEMMA ThenMoves ==
    ASSUME TalkTyped, NEW r \in Route, NEW todo, Then(r, todo)
    PROVE  Moved(r, InFlight(todo, None))
BY DEF TalkTyped, Then, Moved, InFlight

(* A read puts the same calls in flight, with the copy.                    *)
LEMMA FindMoves ==
    ASSUME TalkTyped, NEW r \in Route, NEW copy, flight' = [flight EXCEPT ![r].copy = copy]
    PROVE  Moved(r, InFlight(flight[r].todo, copy))
<1>1. flight[r] = [todo |-> flight[r].todo, copy |-> flight[r].copy]
  BY DEF TalkTyped, IsFlight
<1>2. [flight[r] EXCEPT !.copy = copy] = InFlight(flight[r].todo, copy)
  BY <1>1 DEF InFlight
<1>3. flight' = [s \in Route |-> IF s = r THEN [flight[r] EXCEPT !.copy = copy] ELSE flight[s]]
  BY DEF TalkTyped
<1> QED
  BY <1>2, <1>3 DEF Moved

(* The types after a step that moves one command.                          *)
TalkOK == /\ talk \in [Player -> Row]
          /\ \A p \in Player : talk[p].state = "none" => talk[p] = NoRow
HistoryOK == /\ offered \in [Player -> Nat] /\ picked \in [Player -> Nat]
             /\ overlapped \in BOOLEAN /\ failures \in 0..MaxFailures

(* A command in flight meets the conjuncts of RouterTypes about it.        *)
LEMMA FlightFields ==
    ASSUME NEW f, IsFlight(f)
    PROVE  (f.todo = <<>> => f.copy = None) /\ (f.copy # None => f.copy.row \in Row)
BY DEF IsFlight, IsCopyFor, SavedRow

(* TalkTyped by parts: conversations, history, commands in flight.         *)
LEMMA TypedParts ==
    TalkTyped <=> /\ TalkOK /\ HistoryOK
                  /\ flight = [r \in Route |-> flight[r]]
                  /\ \A r \in Route : IsFlight(flight[r])
BY FlightFields DEF TalkTyped, RouterTypes, TalkOK, HistoryOK

(* A step of one command keeps the types if its rest and its rows fit.     *)
LEMMA TypedAfterMove ==
    ASSUME TalkTyped, NEW r \in Route, NEW f, IsFlight(f), Moved(r, f), TalkOK', HistoryOK'
    PROVE  TalkTyped'
<1>1. \A s \in Route : flight'[s] = IF s = r THEN f ELSE flight[s]
  BY DEF Moved
<1>2. flight' = [s \in Route |-> flight'[s]]
  BY DEF Moved
<1>3. \A s \in Route : IsFlight(flight'[s])
  BY <1>1, TypedParts
<1> QED
  BY <1>2, <1>3, FlightFields DEF TalkTyped, RouterTypes, TalkOK, HistoryOK

(* A takeoff with a program keeps the types.                               *)
LEMMA TypedTakeoff ==
    ASSUME TalkTyped, NEW r \in Route, NEW todo, IsProgram(todo), Takeoff(r, todo),
           UNCHANGED talk
    PROVE  TalkTyped'
<1>1. IsFlight(InFlight(todo, None))
  BY InFlightIs
<1>2. TalkOK' /\ HistoryOK'
  BY TypedParts DEF TalkOK, HistoryOK, Takeoff
<1> QED
  BY <1>1, <1>2, TakeoffMoves, TypedAfterMove
-----------------------------------------------------------------------------
(* What the ladder never takes back                                        *)

LadderOK == LadderInv /\ RowsMakeSense

(* The players of a challenge never change, and what has once happened to  *)
(* it has happened.                                                        *)
Lasting ==
    \A c \in Challenge :
        /\ challenge[c].status # "none" =>
             /\ challenge'[c].status # "none"
             /\ challenge'[c].challenger = challenge[c].challenger
             /\ challenge'[c].challenged = challenge[c].challenged
        /\ match[c].status # "none" => match'[c].status # "none"
        /\ report[c].status # "none" => report'[c].status # "none"
        /\ dispute[c] # "none" => dispute'[c] # "none"
LastingOptions ==
    \A o \in Proposal :
        /\ proposal[o].status # "none" => /\ proposal'[o].status # "none"
                                         /\ proposal'[o].match = proposal[o].match
        /\ proposal[o].status = "SELECTED" => proposal'[o] = proposal[o]
AllLasting == Lasting /\ LastingOptions

(* No step of the ladder forgets a player, a match, a report, a dispute.   *)
LEMMA LadderLasts == TypeOK /\ [Next]_vars => Lasting
<1> SUFFICES ASSUME TypeOK, [Next]_vars PROVE Lasting
  OBVIOUS
<1> USE DEF Lasting, TypeOK, ChallengeRow, MatchRow, ReportRow, rows, limits, jobs, score
<1>1. ASSUME NEW c \in Challenge, NEW p \in Player, NEW q \in Player, CreateChallenge(c, p, q)
      PROVE  Lasting
  BY <1>1 DEF CreateChallenge
<1>2. ASSUME NEW c \in Challenge, NEW p \in Player, AcceptChallenge(c, p)
      PROVE  Lasting
  BY <1>2 DEF AcceptChallenge
<1>3. ASSUME NEW c \in Challenge, NEW p \in Player, RejectChallenge(c, p)
      PROVE  Lasting
  BY <1>3 DEF RejectChallenge
<1>4. ASSUME NEW c \in Challenge, NEW p \in Player, NEW o \in Proposal, ProposeSchedule(c, p, o)
      PROVE  Lasting
  BY <1>4 DEF ProposeSchedule
<1>5. ASSUME NEW o \in Proposal, NEW p \in Player, SelectOption(o, p)
      PROVE  Lasting
  BY <1>5, NoneAssumption DEF SelectOption
<1>6. ASSUME NEW c \in Challenge, NEW p \in Player, ReportResult(c, p)
      PROVE  Lasting
  BY <1>6 DEF ReportResult
<1>7. ASSUME NEW c \in Challenge, NEW p \in Player, ConfirmResult(c, p)
      PROVE  Lasting
  BY <1>7 DEF ConfirmResult, AwardPoints
<1>8. ASSUME NEW c \in Challenge, NEW p \in Player, RejectResult(c, p)
      PROVE  Lasting
  BY <1>8 DEF RejectResult
<1>9. ASSUME NEW c \in Challenge, PassExpiry(c)
      PROVE  Lasting
  BY <1>9 DEF PassExpiry
<1>10. ASSUME NEW c \in Challenge, ExpireChallenge(c)
      PROVE  Lasting
  BY <1>10 DEF ExpireChallenge
<1>11. ASSUME NEW c \in Challenge, ExpireSchedule(c)
      PROVE  Lasting
  BY <1>11 DEF ExpireSchedule
<1>12. ASSUME NEW c \in Challenge, ConfirmCourt(c)
      PROVE  Lasting
  BY <1>12 DEF ConfirmCourt
<1>13. ASSUME NEW c \in Challenge, NEW p \in Player, ApplyWalkover(c, p)
      PROVE  Lasting
  BY <1>13 DEF ApplyWalkover, AwardPoints
<1>14. ASSUME NEW c \in Challenge, ResolveDispute(c)
      PROVE  Lasting
  BY <1>14 DEF ResolveDispute, AwardPoints
<1>15. ASSUME NEW c \in Challenge, CancelMatch(c)
      PROVE  Lasting
  BY <1>15 DEF CancelMatch
<1>16. CASE UNCHANGED vars
  BY <1>16 DEF vars
<1> QED
  BY <1>1, <1>2, <1>3, <1>4, <1>5, <1>6, <1>7, <1>8, <1>9, <1>10, <1>11, <1>12, <1>13,
     <1>14, <1>15, <1>16
  DEF Next, PlayerStep, JobStep, AdminStep

(* Nor an option that was proposed or selected.                            *)
LEMMA OptionsLast == TypeOK /\ RowsChain /\ [Next]_vars => LastingOptions
<1> SUFFICES ASSUME TypeOK, RowsChain, [Next]_vars PROVE LastingOptions
  OBVIOUS
<1> USE DEF LastingOptions, TypeOK, ProposalRow, rows, limits, jobs, score
<1>1. ASSUME NEW c \in Challenge, NEW p \in Player, NEW q \in Player, CreateChallenge(c, p, q)
      PROVE  LastingOptions
  BY <1>1 DEF CreateChallenge
<1>2. ASSUME NEW c \in Challenge, NEW p \in Player, AcceptChallenge(c, p)
      PROVE  LastingOptions
  BY <1>2 DEF AcceptChallenge
<1>3. ASSUME NEW c \in Challenge, NEW p \in Player, RejectChallenge(c, p)
      PROVE  LastingOptions
  BY <1>3 DEF RejectChallenge
<1>4. ASSUME NEW c \in Challenge, NEW p \in Player, NEW o \in Proposal, ProposeSchedule(c, p, o)
      PROVE  LastingOptions
  BY <1>4 DEF ProposeSchedule
<1>5. ASSUME NEW o \in Proposal, NEW p \in Player, SelectOption(o, p)
      PROVE  LastingOptions
  BY <1>5, NoneAssumption DEF SelectOption
<1>6. ASSUME NEW c \in Challenge, NEW p \in Player, ReportResult(c, p)
      PROVE  LastingOptions
  BY <1>6 DEF ReportResult
<1>7. ASSUME NEW c \in Challenge, NEW p \in Player, ConfirmResult(c, p)
      PROVE  LastingOptions
  BY <1>7 DEF ConfirmResult, AwardPoints
<1>8. ASSUME NEW c \in Challenge, NEW p \in Player, RejectResult(c, p)
      PROVE  LastingOptions
  BY <1>8 DEF RejectResult
<1>9. ASSUME NEW c \in Challenge, PassExpiry(c)
      PROVE  LastingOptions
  BY <1>9 DEF PassExpiry
<1>10. ASSUME NEW c \in Challenge, ExpireChallenge(c)
      PROVE  LastingOptions
  BY <1>10 DEF ExpireChallenge
<1>11. ASSUME NEW c \in Challenge, ExpireSchedule(c)
      PROVE  LastingOptions
  BY <1>11 DEF ExpireSchedule
<1>12. ASSUME NEW c \in Challenge, ConfirmCourt(c)
      PROVE  LastingOptions
  BY <1>12 DEF ConfirmCourt
<1>13. ASSUME NEW c \in Challenge, NEW p \in Player, ApplyWalkover(c, p)
      PROVE  LastingOptions
  BY <1>13 DEF ApplyWalkover, AwardPoints
<1>14. ASSUME NEW c \in Challenge, ResolveDispute(c)
      PROVE  LastingOptions
  BY <1>14 DEF ResolveDispute, AwardPoints
<1>15. ASSUME NEW c \in Challenge, CancelMatch(c)
      PROVE  LastingOptions
  BY <1>15 DEF CancelMatch
<1>16. CASE UNCHANGED vars
  BY <1>16 DEF vars
<1> QED
  BY <1>1, <1>2, <1>3, <1>4, <1>5, <1>6, <1>7, <1>8, <1>9, <1>10, <1>11, <1>12, <1>13,
     <1>14, <1>15, <1>16
  DEF Next, PlayerStep, JobStep, AdminStep

(* Every step of the ladder keeps what is left of the order of the rows.   *)
LEMMA ChainStep == TypeOK /\ RowsChain /\ [Next]_vars => RowsChain'
<1> SUFFICES ASSUME TypeOK, RowsChain, [Next]_vars PROVE RowsChain'
  OBVIOUS
<1> USE DEF RowsChain, Plays, TypeOK, ChallengeRow, MatchRow, ProposalRow, ReportRow, rows,
            limits, jobs, score
<1>1. ASSUME NEW c \in Challenge, NEW p \in Player, NEW q \in Player, CreateChallenge(c, p, q)
      PROVE  RowsChain'
  BY <1>1, NoneAssumption DEF CreateChallenge
<1>2. ASSUME NEW c \in Challenge, NEW p \in Player, AcceptChallenge(c, p)
      PROVE  RowsChain'
  BY <1>2 DEF AcceptChallenge
<1>3. ASSUME NEW c \in Challenge, NEW p \in Player, RejectChallenge(c, p)
      PROVE  RowsChain'
  BY <1>3 DEF RejectChallenge
<1>4. ASSUME NEW c \in Challenge, NEW p \in Player, NEW o \in Proposal, ProposeSchedule(c, p, o)
      PROVE  RowsChain'
  BY <1>4, NoneAssumption DEF ProposeSchedule
<1>5. ASSUME NEW o \in Proposal, NEW p \in Player, SelectOption(o, p)
      PROVE  RowsChain'
  BY <1>5 DEF SelectOption
<1>6. ASSUME NEW c \in Challenge, NEW p \in Player, ReportResult(c, p)
      PROVE  RowsChain'
  BY <1>6 DEF ReportResult
<1>7. ASSUME NEW c \in Challenge, NEW p \in Player, ConfirmResult(c, p)
      PROVE  RowsChain'
  BY <1>7 DEF ConfirmResult, AwardPoints
<1>8. ASSUME NEW c \in Challenge, NEW p \in Player, RejectResult(c, p)
      PROVE  RowsChain'
  BY <1>8 DEF RejectResult
<1>9. ASSUME NEW c \in Challenge, PassExpiry(c)
      PROVE  RowsChain'
  BY <1>9 DEF PassExpiry
<1>10. ASSUME NEW c \in Challenge, ExpireChallenge(c)
      PROVE  RowsChain'
  BY <1>10 DEF ExpireChallenge
<1>11. ASSUME NEW c \in Challenge, ExpireSchedule(c)
      PROVE  RowsChain'
  BY <1>11 DEF ExpireSchedule
<1>12. ASSUME NEW c \in Challenge, ConfirmCourt(c)
      PROVE  RowsChain'
  BY <1>12 DEF ConfirmCourt
<1>13. ASSUME NEW c \in Challenge, NEW p \in Player, ApplyWalkover(c, p)
      PROVE  RowsChain'
  BY <1>13 DEF ApplyWalkover, AwardPoints
<1>14. ASSUME NEW c \in Challenge, ResolveDispute(c)
      PROVE  RowsChain'
  BY <1>14 DEF ResolveDispute, AwardPoints
<1>15. ASSUME NEW c \in Challenge, CancelMatch(c)
      PROVE  RowsChain'
  BY <1>15 DEF CancelMatch
<1>16. CASE UNCHANGED vars
  BY <1>16 DEF vars
<1> QED
  BY <1>1, <1>2, <1>3, <1>4, <1>5, <1>6, <1>7, <1>8, <1>9, <1>10, <1>11, <1>12, <1>13,
     <1>14, <1>15, <1>16
  DEF Next, PlayerStep, JobStep, AdminStep

(* Every step of the ladder keeps the players of a challenge named.        *)
LEMMA NamedStep == LadderOK /\ [Next]_vars => RowsMakeSense'
<1> SUFFICES ASSUME LadderOK, [Next]_vars PROVE RowsMakeSense'
  OBVIOUS
<1> USE DEF RowsMakeSense, Plays, LadderOK, LadderInv, RowsInOrder, TypeOK, ChallengeRow,
            MatchRow, ProposalRow, ReportRow, rows, limits, jobs, score
<1>1. ASSUME NEW c \in Challenge, NEW p \in Player, NEW q \in Player, CreateChallenge(c, p, q)
      PROVE  RowsMakeSense'
  BY <1>1 DEF CreateChallenge
<1>2. ASSUME NEW c \in Challenge, NEW p \in Player, AcceptChallenge(c, p)
      PROVE  RowsMakeSense'
  BY <1>2 DEF AcceptChallenge
<1>3. ASSUME NEW c \in Challenge, NEW p \in Player, RejectChallenge(c, p)
      PROVE  RowsMakeSense'
  BY <1>3 DEF RejectChallenge
<1>4. ASSUME NEW c \in Challenge, NEW p \in Player, NEW o \in Proposal, ProposeSchedule(c, p, o)
      PROVE  RowsMakeSense'
  BY <1>4 DEF ProposeSchedule
<1>5. ASSUME NEW o \in Proposal, NEW p \in Player, SelectOption(o, p)
      PROVE  RowsMakeSense'
  BY <1>5 DEF SelectOption
<1>6. ASSUME NEW c \in Challenge, NEW p \in Player, ReportResult(c, p)
      PROVE  RowsMakeSense'
  BY <1>6 DEF ReportResult
<1>7. ASSUME NEW c \in Challenge, NEW p \in Player, ConfirmResult(c, p)
      PROVE  RowsMakeSense'
  BY <1>7 DEF ConfirmResult, AwardPoints
<1>8. ASSUME NEW c \in Challenge, NEW p \in Player, RejectResult(c, p)
      PROVE  RowsMakeSense'
  BY <1>8 DEF RejectResult
<1>9. ASSUME NEW c \in Challenge, PassExpiry(c)
      PROVE  RowsMakeSense'
  BY <1>9 DEF PassExpiry
<1>10. ASSUME NEW c \in Challenge, ExpireChallenge(c)
      PROVE  RowsMakeSense'
  BY <1>10 DEF ExpireChallenge
<1>11. ASSUME NEW c \in Challenge, ExpireSchedule(c)
      PROVE  RowsMakeSense'
  BY <1>11 DEF ExpireSchedule
<1>12. ASSUME NEW c \in Challenge, ConfirmCourt(c)
      PROVE  RowsMakeSense'
  BY <1>12 DEF ConfirmCourt
<1>13. ASSUME NEW c \in Challenge, NEW p \in Player, ApplyWalkover(c, p)
      PROVE  RowsMakeSense'
  BY <1>13 DEF ApplyWalkover, AwardPoints
<1>14. ASSUME NEW c \in Challenge, ResolveDispute(c)
      PROVE  RowsMakeSense'
  BY <1>14 DEF ResolveDispute, AwardPoints
<1>15. ASSUME NEW c \in Challenge, CancelMatch(c)
      PROVE  RowsMakeSense'
  BY <1>15 DEF CancelMatch
<1>16. CASE UNCHANGED vars
  BY <1>16 DEF vars
<1> QED
  BY <1>1, <1>2, <1>3, <1>4, <1>5, <1>6, <1>7, <1>8, <1>9, <1>10, <1>11, <1>12, <1>13,
     <1>14, <1>15, <1>16
  DEF Next, PlayerStep, JobStep, AdminStep

(* A step of the ladder keeps its invariant.                               *)
LEMMA LadderOKStep == LadderOK /\ LadderInv' /\ [Next]_vars => LadderOK'
BY NamedStep DEF LadderOK
-----------------------------------------------------------------------------
(* What each command does, in terms of the programs above                  *)

(* /desafio sends a challenge or shows a list that is not empty.           *)
LEMMA DesafioDoes ==
    ASSUME NEW r \in Route, NEW p \in Player, Desafio(r, p)
    PROVE  /\ UNCHANGED <<vars, talk>>
           /\ \E todo : /\ Takeoff(r, todo)
                        /\ \/ \E q \in Player : todo = Sending(p, q, FALSE)
                           \/ \E offer \in (SUBSET Player) \ {{}} : todo = Offering(p, offer)
<1>1. CASE \E q \in Player \ {p} : Takeoff(r, <<CreateFor(p, q, FALSE)>>)
  BY <1>1 DEF Desafio, Sending
<1>2. CASE \E offer \in SUBSET (Player \ {p}) :
             Cardinality(offer) > 1 /\ Takeoff(r, <<SetOffer(p, offer)>>)
  <2>1. PICK offer \in SUBSET (Player \ {p}) :
          Cardinality(offer) > 1 /\ Takeoff(r, <<SetOffer(p, offer)>>)
    BY <1>2
  <2>2. offer \in (SUBSET Player) \ {{}}
    BY <2>1, FS_EmptySet
  <2>3. Takeoff(r, Offering(p, offer))
    BY <2>1 DEF Offering
  <2> QED
    BY <2>2, <2>3 DEF Desafio
<1> QED
  BY <1>1, <1>2 DEF Desafio

(* A pick is of a player on the list shown last.                           *)
LEMMA SelectPlayerDoes ==
    ASSUME TalkTyped, NEW r \in Route, NEW p \in Player, SelectPlayer(r, p)
    PROVE  /\ UNCHANGED <<vars, talk>>
           /\ \E q \in Player : q \in talk[p].offer /\ Takeoff(r, Picking(p, q))
<1>1. talk[p].offer \subseteq Player
  BY DEF TalkTyped, RouterTypes, Row
<1> QED
  BY <1>1 DEF SelectPlayer, Picking

(* A command that waits for createChallengeFor has nothing else to do.     *)
LEMMA SendingWaits ==
    ASSUME TalkTyped, NEW r \in Route, Waiting(r, "createChallengeFor")
    PROVE  \E p \in Player, q \in Player, b \in BOOLEAN :
              /\ flight[r].todo = Sending(p, q, b) /\ flight[r].copy = None
              /\ Next1(r).who = p /\ Next1(r).rival = q /\ Next1(r).fromList = b
<1>1. IsFlight(flight[r]) /\ flight[r].todo # <<>>
  BY DEF TalkTyped, Waiting
<1>2. Head(flight[r].todo).do = "createChallengeFor"
  BY DEF Waiting, Next1
<1>3. Head(flight[r].todo) \notin News
  BY <1>2 DEF News
<1>4. /\ \A p, offer : SetOffer(p, offer).do = "updateContext"
      /\ \A o, p : Choose(o, p).do = "selectOption"
  BY DEF SetOffer, Choose
<1>5. PICK p \in Player, q \in Player, b \in BOOLEAN :
        flight[r].todo = Sending(p, q, b) /\ Head(flight[r].todo) = CreateFor(p, q, b)
  <2>1. /\ \A t, offer : Head(flight[r].todo) # SetOffer(t, offer)
        /\ \A o, t : Head(flight[r].todo) # Choose(o, t)
    BY <1>2, <1>4
  <2> QED
    BY <1>1, <1>3, <2>1, NextCall
<1>6. flight[r].copy = None
  BY <1>1, <1>2 DEF IsFlight, IsCopyFor
<1>7. /\ CreateFor(p, q, b).who = p /\ CreateFor(p, q, b).rival = q
      /\ CreateFor(p, q, b).fromList = b
  BY DEF CreateFor
<1> QED
  BY <1>5, <1>6, <1>7 DEF Next1

(* A command that waits for selectOption has nothing else to do.           *)
LEMMA ChoosingWaits ==
    ASSUME TalkTyped, NEW r \in Route, Waiting(r, "selectOption")
    PROVE  \E o \in Proposal, p \in Player :
              /\ flight[r].todo = Choosing(o, p) /\ flight[r].copy = None
              /\ Next1(r).who = p /\ Next1(r).option = o
<1>1. IsFlight(flight[r]) /\ flight[r].todo # <<>>
  BY DEF TalkTyped, Waiting
<1>2. Head(flight[r].todo).do = "selectOption"
  BY DEF Waiting, Next1
<1>3. Head(flight[r].todo) \notin News
  BY <1>2 DEF News
<1>4. /\ \A p, offer : SetOffer(p, offer).do = "updateContext"
      /\ \A p, q, b : CreateFor(p, q, b).do = "createChallengeFor"
  BY DEF SetOffer, CreateFor
<1>5. PICK o \in Proposal, p \in Player :
        flight[r].todo = Choosing(o, p) /\ Head(flight[r].todo) = Choose(o, p)
  <2>1. /\ \A t, offer : Head(flight[r].todo) # SetOffer(t, offer)
        /\ \A p, q, b : Head(flight[r].todo) # CreateFor(p, q, b)
    BY <1>2, <1>4
  <2>2. PICK f : f = flight[r]
    OBVIOUS
  <2>3. /\ f.todo # <<>> /\ IsFlight(f) /\ Head(f.todo) \notin News
        /\ \A t, offer : Head(f.todo) # SetOffer(t, offer)
        /\ \A p, q, b : Head(f.todo) # CreateFor(p, q, b)
    BY <1>1, <1>3, <2>1, <2>2
  <2>4. \E o \in Proposal, p \in Player :
          f.todo = Choosing(o, p) /\ Head(f.todo) = Choose(o, p)
    BY <2>3, NextCall
  <2> QED
    BY <2>2, <2>4
<1>6. flight[r].copy = None
  BY <1>1, <1>2 DEF IsFlight, IsCopyFor
<1> QED
  BY <1>5, <1>6, ChoosingShape DEF Next1

(* The two players of a new challenge are told; a challenge that is refused*)
(* or a queue that fails ends the command.                                 *)
Challenged(p, q, c) ==
    <<SetState(p, "idle", c, None), SetState(q, "challenge_received", c, None)>>

(* createChallengeFor: a challenge and its news, or nothing to tell.       *)
LEMMA CreateForDoes ==
    ASSUME TalkTyped, NEW r \in Route, CreateChallengeFor(r)
    PROVE  \E p \in Player, q \in Player, b \in BOOLEAN : \E todo :
              /\ flight[r].todo = Sending(p, q, b) /\ flight[r].copy = None
              /\ Then(r, todo) /\ UNCHANGED <<talk, offered, overlapped, failures>>
              /\ picked' = IF b THEN [picked EXCEPT ![p] = @ + 1] ELSE picked
              /\ \/ UNCHANGED vars /\ todo = <<>>
                 \/ \E c \in Challenge :
                       /\ CreateChallenge(c, p, q)
                       /\ \/ todo = <<>> /\ Queue = "flaky"
                          \/ todo = Challenged(p, q, c)
<1>1. PICK p \in Player, q \in Player, b \in BOOLEAN :
        /\ flight[r].todo = Sending(p, q, b) /\ flight[r].copy = None
        /\ Next1(r).who = p /\ Next1(r).rival = q /\ Next1(r).fromList = b
  BY SendingWaits DEF CreateChallengeFor
<1>2. /\ UNCHANGED <<talk, offered, overlapped, failures>>
      /\ picked' = IF b THEN [picked EXCEPT ![p] = @ + 1] ELSE picked
  BY <1>1 DEF CreateChallengeFor
<1>3. \/ \E c \in Challenge :
            /\ CreateChallenge(c, p, q)
            /\ Then(r, IF Queue = "flaky" /\ c \notin challengeJobs' THEN <<>>
                       ELSE Challenged(p, q, c))
      \/ Then(r, <<>>) /\ UNCHANGED vars
  BY <1>1 DEF CreateChallengeFor, Challenged
<1>4. CASE Then(r, <<>>) /\ UNCHANGED vars
  BY <1>1, <1>2, <1>4
<1>5. ASSUME NEW c \in Challenge, CreateChallenge(c, p, q),
             Then(r, IF Queue = "flaky" /\ c \notin challengeJobs' THEN <<>>
                     ELSE Challenged(p, q, c))
      PROVE  \E todo : /\ Then(r, todo)
                       /\ \/ todo = <<>> /\ Queue = "flaky"
                          \/ todo = Challenged(p, q, c)
  <2>1. CASE Queue = "flaky" /\ c \notin challengeJobs'
    BY <1>5, <2>1
  <2>2. CASE ~(Queue = "flaky" /\ c \notin challengeJobs')
    BY <1>5, <2>2
  <2> QED
    BY <2>1, <2>2
<1> QED
  BY <1>1, <1>2, <1>3, <1>4, <1>5

(* The call a row is held for.                                             *)
WritesRow(step) == step.do \in {"setState", "updateContext"}

(* A call that writes a row is news, a list, or the clearing of one.       *)
LEMMA WritingCall ==
    ASSUME NEW f, IsFlight(f), f.todo # <<>>,
           WritesRow(Head(f.todo))
    PROVE  \/ /\ f.todo \in Seq(News) /\ Head(f.todo) \in News
              /\ Tail(f.todo) \in Seq(News)
           \/ \E p \in Player, offer \in (SUBSET Player) \ {{}} :
                 /\ f.todo = Offering(p, offer)
                 /\ Head(f.todo) = SetOffer(p, offer)
                 /\ Tail(f.todo) = <<>>
           \/ \E p \in Player, q \in Player :
                 /\ f.todo = Picking(p, q)
                 /\ Head(f.todo) = SetOffer(p, {})
                 /\ Tail(f.todo) = Sending(p, q, TRUE)
<1>2. /\ \A p, q, b : CreateFor(p, q, b).do = "createChallengeFor"
      /\ \A o, p : Choose(o, p).do = "selectOption"
  BY DEF CreateFor, Choose
<1>3. /\ \A p, q, b : Head(f.todo) # CreateFor(p, q, b)
      /\ \A o, p : Head(f.todo) # Choose(o, p)
  BY <1>2 DEF WritesRow
<1> QED
  BY <1>3, NextCall

(* The columns of an updateContext.                                        *)
LEMMA OfferFields ==
    ASSUME NEW p, NEW offer
    PROVE  /\ SetOffer(p, offer).do = "updateContext" /\ SetOffer(p, offer).who = p
           /\ SetOffer(p, offer).offer = offer
BY DEF SetOffer

(* The columns of a setState.                                              *)
LEMMA NewsFields ==
    ASSUME NEW x \in News
    PROVE  /\ x.do = "setState" /\ x.who \in Player /\ x.row \in SavedRow /\ x.row.offer = {}
           /\ x.row \in Row
BY DEF News, NewsRow, SavedRow

(* A call that writes a row names a player, and its rest is a program.     *)
LEMMA WritingFits ==
    ASSUME NEW f, IsFlight(f), f.todo # <<>>,
           WritesRow(Head(f.todo))
    PROVE  /\ Head(f.todo).who \in Player
           /\ IsProgram(Tail(f.todo))
           /\ Head(f.todo).do = "updateContext"
                => Head(f.todo).offer \in SUBSET Player
           /\ Head(f.todo).do = "setState"
                => Head(f.todo) \in News /\ f.todo \in Seq(News)
<1>1. CASE f.todo \in Seq(News) /\ Head(f.todo) \in News
           /\ Tail(f.todo) \in Seq(News)
  <2>1. Head(f.todo).do = "setState" /\ Head(f.todo).who \in Player
    BY <1>1, NewsFields
  <2>2. IsProgram(Tail(f.todo))
    BY <1>1, Programs
  <2> QED
    BY <1>1, <2>1, <2>2
<1>2. ASSUME NEW p \in Player, NEW offer \in (SUBSET Player) \ {{}},
             Head(f.todo) = SetOffer(p, offer), Tail(f.todo) = <<>>
      PROVE  /\ Head(f.todo).who \in Player /\ IsProgram(Tail(f.todo))
             /\ Head(f.todo).do = "updateContext"
             /\ Head(f.todo).offer \in SUBSET Player
  <2>1. IsProgram(<<>>)
    BY Programs
  <2>2. /\ SetOffer(p, offer).do = "updateContext" /\ SetOffer(p, offer).who = p
        /\ SetOffer(p, offer).offer = offer
    BY OfferFields
  <2> QED
    BY <1>2, <2>1, <2>2
<1>3. ASSUME NEW p \in Player, NEW q \in Player,
             Head(f.todo) = SetOffer(p, {}),
             Tail(f.todo) = Sending(p, q, TRUE)
      PROVE  /\ Head(f.todo).who \in Player /\ IsProgram(Tail(f.todo))
             /\ Head(f.todo).do = "updateContext"
             /\ Head(f.todo).offer \in SUBSET Player
  <2>1. IsProgram(Sending(p, q, TRUE))
    BY Programs
  <2>2. /\ SetOffer(p, {}).do = "updateContext" /\ SetOffer(p, {}).who = p
        /\ SetOffer(p, {}).offer = {}
    BY OfferFields
  <2> QED
    BY <1>3, <2>1, <2>2
<1> QED
  BY <1>1, <1>2, <1>3, WritingCall

(* The row a call makes of the one it finds.                               *)
LEMMA NewRowIs ==
    ASSUME NEW found \in Row, NEW step, WritesRow(step),
           step.do = "setState" => step \in News,
           step.do = "updateContext" => step.offer \in SUBSET Player
    PROVE  /\ NewRow(step, found) \in SavedRow
           /\ step.do = "setState" => NewRow(step, found) = step.row
           /\ step.do = "updateContext" =>
                /\ NewRow(step, found).offer = step.offer
                /\ NewRow(step, found).challenge = found.challenge
                /\ NewRow(step, found).match = found.match
                /\ NewRow(step, found).state =
                      IF found.state = "none" THEN "idle" ELSE found.state
<1>1. CASE step.do = "setState"
  BY <1>1, NewsFields DEF NewRow
<1>2. CASE step.do = "updateContext"
  <2>1. NewRow(step, found) = [found EXCEPT !.offer = step.offer,
                                            !.state = IF @ = "none" THEN "idle" ELSE @]
    BY <1>2 DEF NewRow
  <2> QED
    BY <1>2, <2>1 DEF SavedRow, Row, FlowState
<1> QED
  BY <1>1, <1>2 DEF WritesRow

(* find: the command holds what it will save.                              *)
LEMMA FindDoes ==
    ASSUME TalkTyped, NEW r \in Route, FindRow(r)
    PROVE  \E step, copy :
              /\ flight[r].todo # <<>> /\ step = Head(flight[r].todo) /\ WritesRow(step)
              /\ step.who \in Player
              /\ copy = [row |-> NewRow(step, talk[step.who]),
                         insert |-> talk[step.who] = NoRow]
              /\ IsCopyFor(copy, step)
              /\ flight' = [flight EXCEPT ![r].copy = copy]
              /\ UNCHANGED <<vars, talk, history>>
<1>1. PICK step : step = Head(flight[r].todo)
  OBVIOUS
<1>2. flight[r].todo # <<>> /\ WritesRow(step) /\ UNCHANGED <<vars, talk, history>>
  BY <1>1 DEF FindRow, WritesRow, Next1
<1>3. /\ step.who \in Player /\ (step.do = "setState" => step \in News)
      /\ step.do = "updateContext" => step.offer \in SUBSET Player
  BY <1>1, <1>2, WritingFits DEF TalkTyped
<1>4. talk[step.who] \in Row
  BY <1>3 DEF TalkTyped, RouterTypes
<1>5. PICK copy : copy = [row |-> NewRow(step, talk[step.who]),
                          insert |-> talk[step.who] = NoRow]
  OBVIOUS
<1>6. flight' = [flight EXCEPT ![r].copy = copy]
  BY <1>1, <1>5 DEF FindRow, Next1
<1>7. PICK w : w = NewRow(step, talk[step.who])
  OBVIOUS
<1>8. /\ w \in SavedRow /\ (step.do = "setState" => w = step.row)
      /\ step.do = "updateContext" => w.offer = step.offer
  BY <1>2, <1>3, <1>4, <1>7, NewRowIs
<1>9. /\ copy \in [row : SavedRow, insert : BOOLEAN] /\ copy.row = w
  BY <1>5, <1>7, <1>8
<1>10. IsCopyFor(copy, step)
  BY <1>2, <1>8, <1>9 DEF IsCopyFor, WritesRow
<1> QED
  BY <1>1, <1>2, <1>3, <1>5, <1>6, <1>10

(* save: the copy replaces the row, unless it is a second first row.       *)
LEMMA SaveDoes ==
    ASSUME TalkTyped, NEW r \in Route, SaveRow(r)
    PROVE  \E step, copy :
              /\ flight[r].todo # <<>> /\ step = Head(flight[r].todo) /\ WritesRow(step)
              /\ step.who \in Player /\ copy = flight[r].copy /\ copy # None
              /\ IsCopyFor(copy, step)
              /\ UNCHANGED <<vars, picked, overlapped, failures>>
              /\ \/ /\ copy.insert /\ talk[step.who] # NoRow
                    /\ Then(r, <<>>) /\ UNCHANGED <<talk, offered>>
                 \/ /\ ~(copy.insert /\ talk[step.who] # NoRow)
                    /\ Then(r, Tail(flight[r].todo))
                    /\ talk' = [talk EXCEPT ![step.who] = copy.row]
                    /\ offered' = IF step.do = "updateContext" /\ step.offer # {}
                                  THEN [offered EXCEPT ![step.who] = @ + 1] ELSE offered
<1>1. PICK step, copy : step = Head(flight[r].todo) /\ copy = flight[r].copy
  OBVIOUS
<1>2. copy # None /\ UNCHANGED <<vars, picked, overlapped, failures>>
  BY <1>1 DEF SaveRow
<1>3. flight[r].todo # <<>> /\ IsCopyFor(copy, step)
  BY <1>1, <1>2 DEF TalkTyped, IsFlight
<1>4. WritesRow(step)
  BY <1>3 DEF IsCopyFor, WritesRow
<1>5. step.who \in Player
  BY <1>1, <1>3, <1>4, WritingFits DEF TalkTyped
<1>6. CASE copy.insert /\ talk[step.who] # NoRow
  <2>1. Then(r, <<>>) /\ UNCHANGED <<talk, offered>>
    BY <1>1, <1>6 DEF SaveRow, Next1
  <2> QED
    BY <1>1, <1>2, <1>3, <1>4, <1>5, <1>6, <2>1
<1>7. CASE ~(copy.insert /\ talk[step.who] # NoRow)
  <2>1. /\ Then(r, Tail(flight[r].todo)) /\ talk' = [talk EXCEPT ![step.who] = copy.row]
        /\ offered' = IF step.do = "updateContext" /\ step.offer # {}
                      THEN [offered EXCEPT ![step.who] = @ + 1] ELSE offered
    BY <1>1, <1>7 DEF SaveRow, Next1
  <2> QED
    BY <1>1, <1>2, <1>3, <1>4, <1>5, <1>7, <2>1
<1> QED
  BY <1>6, <1>7

Accepted(p, q, c) ==
    <<SetState(p, "awaiting_schedule", None, c), SetState(q, "awaiting_schedule", None, c)>>
Played(p, c) == SetState(p, "awaiting_result_confirmation", None, c)
Scheduled(p, q, c) == <<Played(p, c), Played(q, c), Played(p, c)>>
Judged(p, state) == <<SetState(p, state, None, None)>>

(* One to three news are a list of news.                                   *)
LEMMA ListsOfNews ==
    ASSUME NEW a \in News, NEW b \in News, NEW d \in News
    PROVE  <<a>> \in Seq(News) /\ <<a, b>> \in Seq(News) /\ <<a, b, d>> \in Seq(News)
OBVIOUS

(* What each handler tells is a list of news.                              *)
LEMMA NewsLists ==
    ASSUME NEW p \in Player, NEW q \in Player, NEW c \in Challenge
    PROVE  /\ Challenged(p, q, c) \in Seq(News) /\ Accepted(p, q, c) \in Seq(News)
           /\ Scheduled(p, q, c) \in Seq(News)
           /\ Judged(p, "idle") \in Seq(News) /\ Judged(p, "disputed") \in Seq(News)
<1>1. /\ SetState(p, "idle", c, None) \in News
      /\ SetState(q, "challenge_received", c, None) \in News
  BY NewsTyped DEF FlowState
<1>2. /\ SetState(p, "awaiting_schedule", None, c) \in News
      /\ SetState(q, "awaiting_schedule", None, c) \in News
  BY NewsTyped DEF FlowState
<1>3. Played(p, c) \in News /\ Played(q, c) \in News
  BY NewsTyped DEF FlowState, Played
<1>4. SetState(p, "idle", None, None) \in News /\ SetState(p, "disputed", None, None) \in News
  BY NewsTyped DEF FlowState
<1>5. Challenged(p, q, c) \in Seq(News)
  BY <1>1, ListsOfNews DEF Challenged
<1>6. Accepted(p, q, c) \in Seq(News)
  BY <1>2, ListsOfNews DEF Accepted
<1>7. Scheduled(p, q, c) \in Seq(News)
  BY <1>3, ListsOfNews DEF Scheduled
<1>8. Judged(p, "idle") \in Seq(News) /\ Judged(p, "disputed") \in Seq(News)
  BY <1>4, ListsOfNews DEF Judged
<1> QED
  BY <1>5, <1>6, <1>7, <1>8

(* An acceptance is told to both players, unless the queue throws.         *)
LEMMA AcceptDoes ==
    ASSUME ChainOK, NEW r \in Route, NEW c \in Challenge, NEW p \in Player, Accept(r, c, p)
    PROVE  /\ AcceptChallenge(c, p) /\ UNCHANGED talk
           /\ challenge[c].challenged = p /\ challenge[c].challenger \in Player
           /\ \E todo : /\ Takeoff(r, todo)
                        /\ \/ todo = <<>> /\ Queue = "flaky"
                           \/ todo = Accepted(p, challenge[c].challenger, c)
<1>1. /\ AcceptChallenge(c, p) /\ UNCHANGED talk
      /\ Takeoff(r, IF Queue = "flaky" /\ c \notin scheduleJobs' THEN <<>>
                    ELSE Accepted(p, challenge[c].challenger, c))
  BY DEF Accept, Accepted
<1>2. challenge[c].challenged = p /\ challenge[c].challenger \in Player
  BY <1>1 DEF AcceptChallenge, ChainOK, RowsChain
<1>3. CASE Queue = "flaky" /\ c \notin scheduleJobs'
  BY <1>1, <1>2, <1>3
<1>4. CASE ~(Queue = "flaky" /\ c \notin scheduleJobs')
  BY <1>1, <1>2, <1>4
<1> QED
  BY <1>3, <1>4

(* What selectOption saves, whatever has become of the match.              *)
Selects(o, c) ==
    /\ match' = [match EXCEPT ![c] = [status |-> "SCHEDULED", selected |-> o]]
    /\ proposal' = [x \in Proposal |->
                      CASE x = o -> [proposal[x] EXCEPT !.status = "SELECTED"]
                        [] x # o /\ proposal[x].match = c /\ proposal[x].status = "OPEN"
                             -> [proposal[x] EXCEPT !.status = "REPLACED"]
                        [] OTHER -> proposal[x]]
    /\ UNCHANGED <<challenge, report, dispute, limits, jobs, score>>

(* Whoever may choose an option plays its match, against the challenger.   *)
LEMMA ChoosesIs ==
    ASSUME ChainOK, NEW o \in Proposal, NEW p \in Player, Chooses(o, p)
    PROVE  \E c \in Challenge, q \in Player :
              /\ c = proposal[o].match /\ p # q
              /\ challenge[c].challenged = p /\ challenge[c].challenger = q
<1>1. PICK c : c = proposal[o].match
  OBVIOUS
<1>2. c \in Challenge
  BY <1>1 DEF ChainOK, TypeOK, ProposalRow, RowsChain, Chooses
<1>3. challenge[c].challenged = p /\ challenge[c].challenger # p
  BY <1>1 DEF Chooses
<1>4. challenge[c].challenger \in Player
  BY <1>2, <1>3, NoneAssumption DEF ChainOK, RowsChain
<1> QED
  BY <1>1, <1>2, <1>3, <1>4

(* The rest of selectOption: the two players are told, or a stale copy is  *)
(* saved before anybody is.                                                *)
LEMMA SelectionDoes ==
    ASSUME TalkTyped, ChainOK, AllBacked, NEW r \in Route, SaveSelection(r)
    PROVE  \E o \in Proposal, p \in Player, c \in Challenge, q \in Player : \E todo :
              /\ flight[r].todo = Choosing(o, p) /\ c = proposal[o].match /\ p # q
              /\ challenge[c].challenged = p /\ challenge[c].challenger = q
              /\ proposal[o].status # "none"
              /\ Selects(o, c) /\ UNCHANGED <<talk, held, history>>
              /\ interleaved' = (interleaved \/ match[c].status # "PENDING_SCHEDULE")
              /\ Then(r, todo)
              /\ todo = Scheduled(p, q, c) \/ (todo = <<>> /\ held[c] # NoCopy)
<1>1. PICK o \in Proposal, p \in Player :
        /\ flight[r].todo = Choosing(o, p)
        /\ Next1(r).who = p /\ Next1(r).option = o
  BY ChoosingWaits DEF SaveSelection
<1>2. Chooses(o, p)
  BY <1>1 DEF AllBacked, BackedFlight
<1>3. PICK c \in Challenge, q \in Player :
        /\ c = proposal[o].match /\ p # q
        /\ challenge[c].challenged = p /\ challenge[c].challenger = q
  BY <1>2, ChoosesIs
<1>4. Selects(o, c) /\ UNCHANGED <<talk, held, history>>
  BY <1>1, <1>3 DEF SaveSelection, Selects
<1>5. interleaved' = (interleaved \/ match[c].status # "PENDING_SCHEDULE")
  BY <1>1, <1>3 DEF SaveSelection
<1>6. Then(r, Scheduled(p, q, c)) \/ (held[c].op \in DOMAIN SavedStatus /\ Then(r, <<>>))
  BY <1>1, <1>3 DEF SaveSelection, Scheduled, Played
<1>7. held[c].op \in DOMAIN SavedStatus => held[c] # NoCopy
  BY DEF SavedStatus, NoCopy
<1>8. proposal[o].status # "none"
  BY <1>2 DEF Chooses
<1> QED
  BY <1>1, <1>3, <1>4, <1>5, <1>6, <1>7, <1>8

(* A selection takes off when its checks have passed, and saves nothing.   *)
LEMMA SelectDoes ==
    ASSUME NEW r \in Route, NEW o \in Proposal, NEW p \in Player, Select(r, o, p)
    PROVE  UNCHANGED <<vars, talk, copies>> /\ Chooses(o, p) /\ Takeoff(r, Choosing(o, p))
BY DEF Select, Chooses, Choosing

(* A verdict is told to the player who gives it.                           *)
LEMMA VerdictDoes ==
    ASSUME NEW r \in Route, NEW c \in Challenge, NEW p \in Player, Verdict(r, c, p)
    PROVE  /\ report[c].status # "none" /\ Opponent(c, report[c].reporter) = p /\ UNCHANGED talk
           /\ \/ ConfirmResult(c, p) /\ Takeoff(r, Judged(p, "idle"))
              \/ RejectResult(c, p) /\ Takeoff(r, Judged(p, "disputed"))
BY DEF Verdict, Judged

(* The steps that save what an earlier step has read.                      *)
SavesStale ==
    \/ \E r \in Route : SaveSelection(r)
    \/ \E c \in Challenge : SaveChallengeCopy(c) \/ SaveMatchCopy(c)

(* Each other step of TalkNext leaves the ladder alone or is a step of it. *)
LEMMA LadderMoves == TalkTyped /\ [TalkNext]_talkVars => SavesStale \/ [Next]_vars
<1> SUFFICES ASSUME TalkTyped, [TalkNext]_talkVars, ~SavesStale PROVE [Next]_vars
  OBVIOUS
<1>1. ASSUME NEW r \in Route, NEW p \in Player, Command(r, p) PROVE [Next]_vars
  <2>1. CASE Desafio(r, p) \/ SelectPlayer(r, p) \/ \E o \in Proposal : Select(r, o, p)
    BY <2>1 DEF Desafio, SelectPlayer, Select
  <2>2. ASSUME NEW c \in Challenge, Accept(r, c, p) PROVE Next
    BY <2>2 DEF Accept, Next, PlayerStep
  <2>3. ASSUME NEW c \in Challenge, Verdict(r, c, p) PROVE Next
    BY <2>3 DEF Verdict, Next, PlayerStep
  <2> QED
    BY <1>1, <2>1, <2>2, <2>3 DEF Command
<1>2. ASSUME NEW r \in Route, CreateChallengeFor(r) PROVE [Next]_vars
  BY <1>2, CreateForDoes DEF Next, PlayerStep
<1>3. ASSUME NEW r \in Route, FindRow(r) \/ SaveRow(r) PROVE [Next]_vars
  BY <1>3 DEF FindRow, SaveRow
<1>4. ASSUME NEW r \in Route, Throw(r) PROVE [Next]_vars
  BY <1>4 DEF Throw, Fail
<1>5. ASSUME NEW c \in Challenge, NEW p \in Player, Silent(c, p) PROVE [Next]_vars
  BY <1>5 DEF Silent, Next, PlayerStep
<1>6. CASE Background
  BY <1>6 DEF Background, Next, JobStep
<1>7. CASE Die
  BY <1>7 DEF Die, Fail
<1>8. CASE UNCHANGED talkVars
  BY <1>8 DEF talkVars
<1>9. ASSUME NEW c \in Challenge, ReadCopy(c) PROVE [Next]_vars
  BY <1>9 DEF ReadCopy
<1> QED
  BY <1>1, <1>2, <1>3, <1>4, <1>5, <1>6, <1>7, <1>8, <1>9 DEF TalkNext, SavesStale

-----------------------------------------------------------------------------
(* Types                                                                   *)

(* A throw or a crash lands commands and touches nothing else.             *)
LEMMA FailDoes ==
    ASSUME TalkTyped, NEW failing, Fail(failing)
    PROVE  /\ \A r \in Route : flight'[r] = IF r \in failing THEN Landed ELSE flight[r]
           /\ flight' = [r \in Route |-> flight'[r]]
           /\ failures' = failures + 1 /\ failures \in Nat /\ failures' \in 0..MaxFailures
           /\ UNCHANGED <<vars, talk, offered, picked, overlapped>>
           /\ IsFlight(Landed) /\ Landed.todo = <<>> /\ Landed.copy = None
<1>1. IsFlight(Landed) /\ Landed.todo = <<>> /\ Landed.copy = None
  BY InFlightIs, Programs DEF Landed, InFlight
<1>2. failures \in Nat /\ failures + 1 \in 0..MaxFailures
  BY RouteAssumption DEF TalkTyped, RouterTypes, Fail
<1> QED
  BY <1>1, <1>2 DEF Fail

(* A step that tells nobody keeps the types.                               *)
LEMMA TypedQuiet ==
    ASSUME TalkTyped, UNCHANGED <<talk, flight, history>>
    PROVE  TalkTyped'
BY DEF TalkTyped, RouterTypes, history

(* createChallengeFor keeps the types.                                     *)
LEMMA CreateForTyped ==
    ASSUME TalkTyped, NEW r \in Route, CreateChallengeFor(r)
    PROVE  TalkTyped'
<1>1. PICK p \in Player, q \in Player, b \in BOOLEAN : \E todo :
        /\ Then(r, todo) /\ UNCHANGED <<talk, offered, overlapped, failures>>
        /\ picked' = IF b THEN [picked EXCEPT ![p] = @ + 1] ELSE picked
        /\ todo = <<>> \/ \E c \in Challenge : todo = Challenged(p, q, c)
  BY CreateForDoes
<1>2. PICK todo :
        /\ Then(r, todo) /\ UNCHANGED <<talk, offered, overlapped, failures>>
        /\ picked' = IF b THEN [picked EXCEPT ![p] = @ + 1] ELSE picked
        /\ todo = <<>> \/ \E c \in Challenge : todo = Challenged(p, q, c)
  BY <1>1
<1>3. IsProgram(todo)
  BY <1>2, NewsLists, Programs
<1>4. IsFlight(InFlight(todo, None)) /\ Moved(r, InFlight(todo, None))
  BY <1>2, <1>3, InFlightIs, ThenMoves
<1>5. TalkOK' /\ HistoryOK'
  BY <1>2, TypedParts DEF TalkOK, HistoryOK
<1> QED
  BY <1>4, <1>5, TypedAfterMove

(* A read keeps the types.                                                 *)
LEMMA FindTyped ==
    ASSUME TalkTyped, NEW r \in Route, FindRow(r)
    PROVE  TalkTyped'
<1>1. PICK step, copy :
        /\ flight[r].todo # <<>> /\ step = Head(flight[r].todo)
        /\ IsCopyFor(copy, step)
        /\ flight' = [flight EXCEPT ![r].copy = copy]
        /\ UNCHANGED <<vars, talk, history>>
  BY FindDoes
<1>2. PICK todo : todo = flight[r].todo
  OBVIOUS
<1>3. IsProgram(todo) /\ todo # <<>> /\ IsCopyFor(copy, Head(todo))
  BY <1>1, <1>2 DEF TalkTyped, IsFlight
<1>4. IsFlight(InFlight(todo, copy))
  BY <1>3 DEF IsFlight, InFlight
<1>5. Moved(r, InFlight(todo, copy))
  BY <1>1, <1>2, FindMoves
<1>6. TalkOK' /\ HistoryOK'
  BY <1>1, TypedParts DEF TalkOK, HistoryOK, history
<1> QED
  BY <1>4, <1>5, <1>6, TypedAfterMove

(* A save keeps the types.                                                 *)
LEMMA SaveTyped ==
    ASSUME TalkTyped, NEW r \in Route, SaveRow(r)
    PROVE  TalkTyped'
<1>1. PICK step, copy :
        /\ flight[r].todo # <<>> /\ step = Head(flight[r].todo) /\ WritesRow(step)
        /\ step.who \in Player /\ IsCopyFor(copy, step)
        /\ UNCHANGED <<vars, picked, overlapped, failures>>
        /\ \/ Then(r, <<>>) /\ UNCHANGED <<talk, offered>>
           \/ /\ Then(r, Tail(flight[r].todo))
              /\ talk' = [talk EXCEPT ![step.who] = copy.row]
              /\ offered' = IF step.do = "updateContext" /\ step.offer # {}
                            THEN [offered EXCEPT ![step.who] = @ + 1] ELSE offered
  BY SaveDoes
<1>2. PICK todo : Then(r, todo) /\ todo \in {<<>>, Tail(flight[r].todo)}
  BY <1>1
<1>3. IsProgram(todo)
  BY <1>1, <1>2, WritingFits, Programs DEF TalkTyped
<1>4. IsFlight(InFlight(todo, None)) /\ Moved(r, InFlight(todo, None))
  BY <1>2, <1>3, InFlightIs, ThenMoves
<1>5. copy.row \in Row /\ copy.row.state # "none"
  BY <1>1 DEF IsCopyFor, SavedRow
<1>6. PICK w, a : w = copy.row /\ a = step.who
  OBVIOUS
<1>7. talk' = talk \/ talk' = [talk EXCEPT ![a] = w]
  BY <1>1, <1>6
<1>8. w \in Row /\ w.state # "none" /\ a \in Player
  BY <1>1, <1>5, <1>6
<1>9. talk \in [Player -> Row] /\ \A p \in Player : talk[p].state = "none" => talk[p] = NoRow
  BY DEF TalkTyped, RouterTypes
<1>10. TalkOK'
  BY <1>7, <1>8, <1>9 DEF TalkOK
<1>11. HistoryOK'
  BY <1>1, TypedParts DEF HistoryOK
<1> QED
  BY <1>4, <1>10, <1>11, TypedAfterMove

(* The takeoff of a command keeps the types.                               *)
LEMMA CommandTyped ==
    ASSUME TalkTyped, ChainOK, NEW r \in Route, NEW p \in Player, Command(r, p)
    PROVE  TalkTyped'
<1>1. \E todo : IsProgram(todo) /\ Takeoff(r, todo) /\ UNCHANGED talk
  <2>1. CASE Desafio(r, p)
    <3>1. PICK todo :
            /\ Takeoff(r, todo) /\ UNCHANGED talk
            /\ \/ \E q \in Player : todo = Sending(p, q, FALSE)
               \/ \E offer \in (SUBSET Player) \ {{}} : todo = Offering(p, offer)
      BY <2>1, DesafioDoes
    <3>2. IsProgram(todo)
      BY <3>1, Programs
    <3> QED
      BY <3>1, <3>2
  <2>2. CASE SelectPlayer(r, p)
    BY <2>2, SelectPlayerDoes, Programs
  <2>3. ASSUME NEW c \in Challenge, Accept(r, c, p)
        PROVE  \E todo : IsProgram(todo) /\ Takeoff(r, todo) /\ UNCHANGED talk
    BY <2>3, AcceptDoes, NewsLists, Programs
  <2>4. ASSUME NEW c \in Challenge, Verdict(r, c, p)
        PROVE  \E todo : IsProgram(todo) /\ Takeoff(r, todo) /\ UNCHANGED talk
    BY <2>4, VerdictDoes, NewsLists, Programs
  <2>5. ASSUME NEW o \in Proposal, Select(r, o, p)
        PROVE  \E todo : IsProgram(todo) /\ Takeoff(r, todo) /\ UNCHANGED talk
    BY <2>5, SelectDoes, Programs
  <2> QED
    BY <2>1, <2>2, <2>3, <2>4, <2>5 DEF Command
<1> QED
  BY <1>1, TypedTakeoff

(* The rest of selectOption keeps the types.                               *)
LEMMA SelectionTyped ==
    ASSUME TalkTyped, ChainOK, AllBacked, NEW r \in Route, SaveSelection(r)
    PROVE  TalkTyped'
<1>1. PICK o \in Proposal, p \in Player, c \in Challenge, q \in Player : \E todo :
        /\ UNCHANGED <<talk, history>> /\ Then(r, todo)
        /\ todo = Scheduled(p, q, c) \/ todo = <<>>
  BY SelectionDoes
<1>2. PICK todo : /\ UNCHANGED <<talk, history>> /\ Then(r, todo)
                  /\ todo = Scheduled(p, q, c) \/ todo = <<>>
  BY <1>1
<1>3. IsProgram(todo)
  BY <1>2, NewsLists, Programs
<1>4. IsFlight(InFlight(todo, None)) /\ Moved(r, InFlight(todo, None))
  BY <1>2, <1>3, InFlightIs, ThenMoves
<1>5. TalkOK' /\ HistoryOK'
  BY <1>2, TypedParts DEF TalkOK, HistoryOK, history
<1> QED
  BY <1>4, <1>5, TypedAfterMove

(* Every step keeps the types.                                             *)
LEMMA TypedStep == TalkTyped /\ ChainOK /\ AllBacked /\ [TalkNext]_talkVars => TalkTyped'
<1> SUFFICES ASSUME TalkTyped, ChainOK, AllBacked, [TalkNext]_talkVars PROVE TalkTyped'
  OBVIOUS
<1>1. ASSUME NEW failing, Fail(failing) PROVE TalkTyped'
  <2>1. \A r \in Route : IsFlight(flight'[r])
    BY <1>1, FailDoes DEF TalkTyped
  <2>2. flight' = [r \in Route |-> flight'[r]]
    BY <1>1, FailDoes
  <2>3. TalkOK' /\ HistoryOK'
    BY <1>1, FailDoes, TypedParts DEF TalkOK, HistoryOK
  <2> QED
    BY <2>1, <2>2, <2>3, FlightFields DEF TalkTyped, RouterTypes, TalkOK, HistoryOK
<1>2. CASE Die \/ \E r \in Route : Throw(r)
  BY <1>1, <1>2 DEF Die, Throw
<1>3. CASE Background \/ \E c \in Challenge, p \in Player : Silent(c, p)
  BY <1>3, TypedQuiet DEF Background, Silent
<1>4. CASE UNCHANGED talkVars
  BY <1>4, TypedQuiet DEF talkVars
<1>5. ASSUME NEW c \in Challenge, ReadCopy(c) \/ SaveChallengeCopy(c) \/ SaveMatchCopy(c)
      PROVE  TalkTyped'
  BY <1>5, TypedQuiet DEF ReadCopy, SaveChallengeCopy, SaveMatchCopy
<1> QED
  BY <1>2, <1>3, <1>4, <1>5, CommandTyped, CreateForTyped, SelectionTyped, FindTyped, SaveTyped
  DEF TalkNext

(* The first state is typed.                                               *)
LEMMA TalkStarts == TalkInit => TalkTyped /\ LadderOK /\ ChainOK
<1> SUFFICES ASSUME TalkInit PROVE TalkTyped /\ LadderOK /\ ChainOK
  OBVIOUS
<1>1. NoRow \in Row
  BY DEF NoRow, Row
<1>2. IsFlight(Landed)
  BY InFlightIs, Programs DEF Landed, InFlight
<1>3. TalkOK /\ HistoryOK
  <2>1. TalkOK
    BY <1>1 DEF TalkInit, TalkOK
  <2>2. HistoryOK
    <3>1. /\ offered = [p \in Player |-> 0] /\ picked = [p \in Player |-> 0]
          /\ overlapped = FALSE /\ failures = 0
      BY DEF TalkInit
    <3>2. overlapped \in BOOLEAN
      BY <3>1
    <3>3. failures \in 0..MaxFailures
      BY <3>1, RouteAssumption
    <3> QED
      BY <3>1, <3>2, <3>3 DEF HistoryOK
  <2> QED
    BY <2>1, <2>2
<1>4. flight = [r \in Route |-> flight[r]] /\ \A r \in Route : IsFlight(flight[r])
  BY <1>2 DEF TalkInit
<1>5. TalkTyped
  BY <1>3, <1>4, TypedParts
<1>6. LadderInv
  <2>1. TypeOK
    BY DEF TalkInit, Init, TypeOK, ChallengeRow, MatchRow, ProposalRow, ReportRow
  <2>2. RowsInOrder /\ DisputeTracksReport /\ ClosedWasAwarded
    BY DEF TalkInit, Init, RowsInOrder, DisputeTracksReport, ClosedWasAwarded
  <2>3. SelectionSettled
    BY NoneAssumption DEF TalkInit, Init, SelectionSettled
  <2> QED
    BY <2>1, <2>2, <2>3 DEF LadderInv
<1>7. RowsMakeSense
  BY DEF TalkInit, Init, RowsMakeSense
<1>8. RowsChain /\ HeldOK /\ CopiesOK
  BY DEF TalkInit, Init, RowsChain, HeldOK, CopiesOK, NoCopy, Copy
<1> QED
  BY <1>5, <1>6, <1>7, <1>8 DEF LadderOK, LadderInv, ChainOK

-----------------------------------------------------------------------------
(* What stale saves leave of the order of the rows                         *)

(* The rows after a selection, whatever has become of the match.           *)
LEMMA SelectionRows ==
    ASSUME ChainOK, NEW o \in Proposal, NEW c \in Challenge, c = proposal[o].match,
           proposal[o].status # "none", Selects(o, c)
    PROVE  TypeOK' /\ RowsChain' /\ AllLasting
<1> USE DEF Selects, ChainOK, TypeOK, rows, limits, jobs, score
<1>1. UNCHANGED <<challenge, report, dispute, sent, accepted, overdue, challengeJobs,
                  scheduleJobs, points, awards>>
  OBVIOUS
<1>2. match' \in [Challenge -> MatchRow] /\ \A d \in Challenge :
        match[d].status # "none" => match'[d].status # "none"
  BY DEF MatchRow, MatchStatus
<1>3. proposal' \in [Proposal -> ProposalRow] /\ \A x \in Proposal :
        proposal'[x].match = proposal[x].match
  BY DEF ProposalRow
<1>4. LastingOptions
  BY DEF ProposalRow, LastingOptions
<1>5. TypeOK'
  BY <1>1, <1>2, <1>3
<1>6. Lasting
  BY <1>1, <1>2 DEF Lasting
<1>7. RowsChain'
  <2>1. \A x \in Proposal : proposal'[x].status # "none" => proposal[x].status # "none"
    BY DEF ProposalRow
  <2> QED
    BY <1>1, <1>3, <2>1 DEF RowsChain, Plays
<1> QED
  BY <1>4, <1>5, <1>6, <1>7 DEF AllLasting

(* The rows after a stale save of a challenge.                             *)
LEMMA ChallengeCopyRows ==
    ASSUME ChainOK, NEW c \in Challenge, SaveChallengeCopy(c)
    PROVE  TypeOK' /\ RowsChain' /\ AllLasting
<1> USE DEF SaveChallengeCopy, ChainOK, TypeOK, rows, limits, jobs, score
<1>1. UNCHANGED <<match, proposal, report, dispute, sent, accepted, overdue,
                  scheduleJobs, points, awards>>
  OBVIOUS
<1>2. challenge[c].status # "none"
  BY DEF HeldOK
<1>3. /\ challenge' \in [Challenge -> ChallengeRow]
      /\ \A d \in Challenge : /\ challenge'[d].challenger = challenge[d].challenger
                              /\ challenge'[d].challenged = challenge[d].challenged
                              /\ challenge'[d].status = "none" <=> challenge[d].status = "none"
  BY <1>2 DEF ChallengeRow, ChallengeStatus
<1>4. TypeOK'
  BY <1>1, <1>3
<1>5. Lasting /\ LastingOptions
  BY <1>1, <1>3 DEF Lasting, LastingOptions
<1>6. RowsChain'
  BY <1>1, <1>3 DEF RowsChain, Plays
<1> QED
  BY <1>4, <1>5, <1>6 DEF AllLasting

(* The rows after a stale save of a match.                                 *)
LEMMA MatchCopyRows ==
    ASSUME ChainOK, NEW c \in Challenge, SaveMatchCopy(c)
    PROVE  TypeOK' /\ RowsChain' /\ AllLasting
<1>1. PICK op, reporter : op = held[c].op /\ reporter = report[c].reporter
  OBVIOUS
<1>2. /\ UNCHANGED <<challenge, proposal, limits, overdue, challengeJobs>>
      /\ match' = [match EXCEPT ![c] = [status |-> SavedStatus[op],
                                        selected |-> held[c].selected]]
      /\ scheduleJobs' = IF op = "agenda" THEN scheduleJobs \ {c} ELSE scheduleJobs
      /\ op \in DOMAIN SavedStatus
  BY <1>1 DEF SaveMatchCopy
<1>3. \/ (\E p \in Player : AwardPoints(c, p, Opponent(c, p))) /\ UNCHANGED <<report, dispute>>
      \/ /\ op = "disputa" /\ AwardPoints(c, reporter, Opponent(c, reporter))
         /\ report' = [report EXCEPT ![c].status = "CONFIRMED",
                                     ![c].confirmer = Opponent(c, reporter)]
         /\ dispute' = IF dispute[c] = "none" THEN dispute
                                              ELSE [dispute EXCEPT ![c] = "RESOLVED"]
      \/ UNCHANGED <<score, report, dispute>>
  BY <1>1 DEF SaveMatchCopy
<1>4. /\ SavedStatus[op] \in MatchStatus /\ held[c].selected \in Proposal \cup {None}
  BY <1>2 DEF SavedStatus, MatchStatus, ChainOK, CopiesOK, Copy
<1>5. /\ match' \in [Challenge -> MatchRow]
      /\ \A d \in Challenge : match[d].status # "none" => match'[d].status # "none"
  BY <1>2, <1>4 DEF ChainOK, TypeOK, MatchRow, MatchStatus
<1>6. points' \in [Player -> Nat] /\ awards' \in [Challenge -> Nat]
  BY <1>3, AwardType DEF ChainOK, TypeOK, score
<1>7. op = "disputa" => report[c].status # "none"
  BY <1>1 DEF ChainOK, HeldOK
<1>8. Opponent(c, reporter) \in Player \cup {None}
  BY DEF ChainOK, TypeOK, ChallengeRow, Opponent
<1>9. /\ report' \in [Challenge -> ReportRow]
      /\ \A d \in Challenge : /\ report'[d].reporter = report[d].reporter
                              /\ report'[d].status = "none" <=> report[d].status = "none"
  <2>1. report \in [Challenge -> ReportRow]
    BY DEF ChainOK, TypeOK
  <2>2. CASE UNCHANGED report
    BY <2>1, <2>2
  <2>3. CASE /\ op = "disputa"
             /\ report' = [report EXCEPT ![c].status = "CONFIRMED",
                                         ![c].confirmer = Opponent(c, reporter)]
    BY <1>7, <1>8, <2>1, <2>3 DEF ReportRow
  <2> QED
    BY <1>3, <2>2, <2>3
<1>10. /\ dispute' \in [Challenge -> {"none", "OPEN", "RESOLVED"}]
       /\ \A d \in Challenge : dispute[d] # "none" => dispute'[d] # "none"
  BY <1>3 DEF ChainOK, TypeOK
<1>11. scheduleJobs' \subseteq Challenge
  BY <1>2 DEF ChainOK, TypeOK
<1>12. TypeOK'
  BY <1>2, <1>5, <1>6, <1>9, <1>10, <1>11 DEF ChainOK, TypeOK, limits
<1>13. Lasting
  BY <1>2, <1>5, <1>9, <1>10 DEF Lasting
<1>14. LastingOptions
  BY <1>2 DEF LastingOptions
<1>15. RowsChain'
  BY <1>2, <1>9 DEF ChainOK, RowsChain, Plays
<1> QED
  BY <1>12, <1>13, <1>14, <1>15 DEF AllLasting

(* Every step keeps what is left of the rows, and what lasts.              *)
LEMMA RowsStep ==
    TalkTyped /\ ChainOK /\ AllBacked /\ [TalkNext]_talkVars
        => TypeOK' /\ RowsChain' /\ AllLasting
<1> SUFFICES ASSUME TalkTyped, ChainOK, AllBacked, [TalkNext]_talkVars
             PROVE  TypeOK' /\ RowsChain' /\ AllLasting
  OBVIOUS
<1>1. CASE [Next]_vars
  BY <1>1, TypeStep, ChainStep, LadderLasts, OptionsLast DEF ChainOK, AllLasting
<1>2. ASSUME NEW r \in Route, SaveSelection(r)
      PROVE  TypeOK' /\ RowsChain' /\ AllLasting
  BY <1>2, SelectionDoes, SelectionRows
<1> QED
  BY <1>1, <1>2, ChallengeCopyRows, MatchCopyRows, LadderMoves DEF SavesStale

(* A copy is read by one step and saved, or lost, by another; that rows    *)
(* were read and saved apart is never forgotten.                           *)
LEMMA HeldMoves ==
    [TalkNext]_talkVars =>
        /\ \/ UNCHANGED held
           \/ held' = [c \in Challenge |-> NoCopy]
           \/ \E c \in Challenge : held' = [held EXCEPT ![c] = NoCopy]
           \/ \E c \in Challenge : ReadCopy(c)
        /\ interleaved' = interleaved \/ interleaved' = TRUE
           \/ \E r \in Route : SaveSelection(r)
<1> SUFFICES ASSUME [TalkNext]_talkVars
             PROVE  /\ \/ UNCHANGED held
                       \/ held' = [c \in Challenge |-> NoCopy]
                       \/ \E c \in Challenge : held' = [held EXCEPT ![c] = NoCopy]
                       \/ \E c \in Challenge : ReadCopy(c)
                    /\ interleaved' = interleaved \/ interleaved' = TRUE
                       \/ \E r \in Route : SaveSelection(r)
  OBVIOUS
<1>1. ASSUME NEW r \in Route, NEW p \in Player, Command(r, p) PROVE UNCHANGED copies
  BY <1>1 DEF Command, Desafio, SelectPlayer, Accept, Select, Verdict
<1>2. ASSUME NEW r \in Route, CreateChallengeFor(r) \/ FindRow(r) \/ SaveRow(r)
      PROVE  UNCHANGED copies
  BY <1>2 DEF CreateChallengeFor, FindRow, SaveRow
<1>3. ASSUME NEW r \in Route, SaveSelection(r) PROVE UNCHANGED held
  BY <1>3 DEF SaveSelection
<1>4. ASSUME NEW r \in Route, Throw(r) PROVE UNCHANGED <<held, interleaved>>
  BY <1>4 DEF Throw, Fail
<1>5. CASE Background \/ \E c \in Challenge, p \in Player : Silent(c, p)
  BY <1>5 DEF Background, Silent, copies
<1>6. CASE Die
  BY <1>6 DEF Die, Fail
<1>7. ASSUME NEW c \in Challenge, SaveChallengeCopy(c) \/ SaveMatchCopy(c)
      PROVE  held' = [held EXCEPT ![c] = NoCopy] /\ UNCHANGED interleaved
  BY <1>7 DEF SaveChallengeCopy, SaveMatchCopy
<1>8. ASSUME NEW c \in Challenge, ReadCopy(c) PROVE interleaved' = TRUE
  BY <1>8 DEF ReadCopy
<1>9. CASE UNCHANGED talkVars
  BY <1>9 DEF talkVars, copies
<1> QED
  BY <1>1, <1>2, <1>3, <1>4, <1>5, <1>6, <1>7, <1>8, <1>9 DEF TalkNext, copies

(* Every step keeps what is known of the copies.                           *)
LEMMA HeldStep ==
    TalkTyped /\ ChainOK /\ AllBacked /\ [TalkNext]_talkVars => CopiesOK' /\ HeldOK'
<1> SUFFICES ASSUME TalkTyped, ChainOK, AllBacked, [TalkNext]_talkVars
             PROVE  CopiesOK' /\ HeldOK'
  OBVIOUS
<1>1. Lasting
  BY RowsStep DEF AllLasting
<1>2. NoCopy \in Copy /\ NoCopy.op = "none"
  BY DEF NoCopy, Copy
<1>3. held \in [Challenge -> Copy] /\ interleaved \in BOOLEAN
  BY DEF ChainOK, CopiesOK
<1>4. interleaved' \in BOOLEAN
  <2>1. ASSUME NEW r \in Route, SaveSelection(r) PROVE interleaved' \in BOOLEAN
    BY <1>3, <2>1, SelectionDoes
  <2> QED
    BY <1>3, <2>1, HeldMoves
<1>5. ASSUME NEW c \in Challenge, ReadCopy(c) PROVE held' \in [Challenge -> Copy] /\ HeldOK'
  <2>1. PICK op \in Handler :
          /\ op = "expire" => challenge[c].status # "none"
          /\ op = "disputa" => report[c].status # "none"
          /\ held' = [held EXCEPT ![c] = [op |-> op, selected |-> match[c].selected]]
    BY <1>5, ParameterAssumption DEF ReadCopy, AdminCommand
  <2>2. match[c].selected \in Proposal \cup {None}
    BY DEF ChainOK, TypeOK, MatchRow
  <2>3. held' \in [Challenge -> Copy]
    BY <1>3, <2>1, <2>2 DEF Copy
  <2>4. \A d \in Challenge : held'[d].op = IF d = c THEN op ELSE held[d].op
    BY <1>3, <2>1
  <2> QED
    BY <1>1, <2>1, <2>3, <2>4 DEF HeldOK, ChainOK, Lasting
<1>6. CASE \/ UNCHANGED held \/ held' = [c \in Challenge |-> NoCopy]
           \/ \E c \in Challenge : held' = [held EXCEPT ![c] = NoCopy]
  <2>1. held' \in [Challenge -> Copy]
    BY <1>2, <1>3, <1>6
  <2>2. \A d \in Challenge : held'[d].op \in {held[d].op, "none"}
    BY <1>2, <1>3, <1>6
  <2> QED
    BY <1>1, <1>4, <2>1, <2>2 DEF HeldOK, ChainOK, CopiesOK, Lasting
<1> QED
  BY <1>4, <1>5, <1>6, HeldMoves DEF CopiesOK

(* So every step keeps the weaker invariant of the rows.                   *)
LEMMA ChainOKStep ==
    TalkTyped /\ ChainOK /\ AllBacked /\ [TalkNext]_talkVars => ChainOK' /\ AllLasting
BY RowsStep, HeldStep DEF ChainOK

-----------------------------------------------------------------------------
(* Until a handler is interrupted                                          *)

(* The order of the rows is what the handlers promise as long as each of   *)
(* them has found the rows as it left them.                                *)
TurnOK == ~interleaved => LadderOK /\ \A c \in Challenge : held[c] = NoCopy

(* A selection that finds its match unchanged is a step of the ladder.     *)
LEMMA SelectionInTurn ==
    ASSUME TalkTyped, ChainOK, AllBacked, NEW r \in Route, SaveSelection(r), ~interleaved'
    PROVE  ~interleaved /\ Next
<1>1. PICK o \in Proposal, p \in Player, c \in Challenge, q \in Player :
        /\ c = proposal[o].match /\ p # q /\ challenge[c].challenger = q
        /\ proposal[o].status # "none" /\ Selects(o, c)
        /\ interleaved' = (interleaved \/ match[c].status # "PENDING_SCHEDULE")
  BY SelectionDoes
<1>2. SelectOption(o, p)
  BY <1>1 DEF SelectOption, Selects
<1> QED
  BY <1>1, <1>2 DEF Next

(* Until then a step is a step of the ladder, or leaves it alone, and the  *)
(* order of the rows stays.                                                *)
LEMMA TurnStep ==
    TalkTyped /\ ChainOK /\ AllBacked /\ TurnOK /\ [TalkNext]_talkVars
        => TurnOK' /\ (~interleaved' => ~interleaved /\ [Next]_vars)
<1> SUFFICES ASSUME TalkTyped, ChainOK, AllBacked, TurnOK, [TalkNext]_talkVars, ~interleaved'
             PROVE  /\ ~interleaved /\ [Next]_vars /\ LadderOK'
                    /\ \A c \in Challenge : held'[c] = NoCopy
  BY DEF TurnOK
<1>1. ~interleaved
  BY HeldMoves, SelectionInTurn
<1>2. LadderOK /\ \A c \in Challenge : held[c] = NoCopy
  BY <1>1 DEF TurnOK
<1>3. NoCopy.op = "none" /\ "none" \notin DOMAIN SavedStatus
  BY DEF NoCopy, SavedStatus
<1>4. \A c \in Challenge : ~SaveChallengeCopy(c) /\ ~SaveMatchCopy(c)
  BY <1>2, <1>3 DEF SaveChallengeCopy, SaveMatchCopy
<1>5. [Next]_vars
  BY <1>4, LadderMoves, SelectionInTurn DEF SavesStale
<1>6. LadderInv'
  BY <1>2, <1>5, TypeStep, RowsInOrderStep, DisputeStep, ClosedStep, SelectionStep
  DEF LadderOK, LadderInv
<1>7. LadderOK'
  BY <1>2, <1>5, <1>6, LadderOKStep
<1>8. \A c \in Challenge : held'[c] = NoCopy
  <2>1. \A c \in Challenge : ~ReadCopy(c)
    BY DEF ReadCopy
  <2>2. held \in [Challenge -> Copy]
    BY DEF ChainOK, CopiesOK
  <2> QED
    BY <1>2, <2>1, <2>2, HeldMoves
<1> QED
  BY <1>1, <1>5, <1>7, <1>8

-----------------------------------------------------------------------------
(* No conversation runs ahead of the ladder                                *)

(* A row that is backed stays backed: the ladder only goes on.             *)
LEMMA RowKept ==
    ASSUME ChainOK, AllLasting, NEW p \in Player, NEW w \in Row, Backed(p, w)
    PROVE  Backed(p, w)'
<1>1. PICK c, m : c = w.challenge /\ m = w.match
  OBVIOUS
<1>2. c \in Challenge \cup {None} /\ m \in Challenge \cup {None}
  BY <1>1 DEF Row
<1>3. \A d \in Challenge : challenge[d].status # "none" /\ Plays(p, d) =>
        challenge'[d].status # "none" /\ Plays(p, d)'
  BY DEF AllLasting, Lasting, Plays
<1>4. \A d \in Challenge : Plays(p, d) => challenge[d].status # "none"
  BY NoneAssumption DEF ChainOK, RowsChain, Plays
<1>5. c # None => challenge'[c].status # "none" /\ Plays(p, c)'
  BY <1>1, <1>2, <1>3 DEF Backed
<1>6. m # None => match'[m].status # "none" /\ Plays(p, m)'
  BY <1>1, <1>2, <1>3, <1>4 DEF Backed, AllLasting, Lasting
<1>7. w.state = "challenge_received" => c # None /\ challenge'[c].challenged = p
  BY <1>1, <1>2 DEF Backed, AllLasting, Lasting
<1>8. /\ w.state = "awaiting_schedule" => m # None
      /\ w.state = "awaiting_result_confirmation" =>
            m # None /\ \E o \in Proposal : proposal'[o] = [status |-> "SELECTED", match |-> m]
  <2>1. w.state = "awaiting_result_confirmation" =>
          m # None /\ \E o \in Proposal : proposal[o] = [status |-> "SELECTED", match |-> m]
    BY <1>1 DEF Backed
  <2>2. \A o \in Proposal : proposal[o] = [status |-> "SELECTED", match |-> m]
                              => proposal'[o] = proposal[o]
    BY DEF AllLasting, LastingOptions
  <2> QED
    BY <1>1, <2>1, <2>2 DEF Backed
<1>9. w.state = "disputed" => \E d \in Challenge : Plays(p, d)' /\ dispute'[d] # "none"
  BY <1>3, <1>4 DEF Backed, AllLasting, Lasting
<1> QED
  BY <1>1, <1>5, <1>6, <1>7, <1>8, <1>9 DEF Backed

(* What a command in flight will write stays backed.                       *)
LEMMA FlightKept ==
    ASSUME ChainOK, AllLasting, NEW f, IsFlight(f), BackedFlight(f)
    PROVE  BackedFlight(f)'
<1>1. ASSUME f.todo \in Seq(News), NEW i \in DOMAIN f.todo
      PROVE  Backed(f.todo[i].who, f.todo[i].row)'
  <2>1. f.todo[i] \in News
    BY <1>1
  <2>2. PICK p, w : p = f.todo[i].who /\ w = f.todo[i].row
    OBVIOUS
  <2>3. p \in Player /\ w \in Row
    BY <2>1, <2>2, NewsFields
  <2>4. Backed(p, w)
    BY <1>1, <2>2 DEF BackedFlight
  <2> QED
    BY <2>2, <2>3, <2>4, RowKept
<1>2. ASSUME f.copy # None
      PROVE  Backed(Head(f.todo).who, f.copy.row)'
  <2>1. PICK p, w : p = Head(f.todo).who /\ w = f.copy.row
    OBVIOUS
  <2>2. f.todo # <<>> /\ IsCopyFor(f.copy, Head(f.todo))
    BY <1>2 DEF IsFlight
  <2>3. p \in Player /\ w \in Row
    BY <2>1, <2>2, WritingFits DEF IsCopyFor, WritesRow, SavedRow
  <2>4. Backed(p, w)
    BY <1>2, <2>1 DEF BackedFlight
  <2> QED
    BY <2>1, <2>3, <2>4, RowKept
<1>3. ASSUME NEW o \in Proposal, NEW p \in Player, f.todo = Choosing(o, p)
      PROVE  Chooses(o, p)'
  <2>1. Chooses(o, p)
    BY <1>3 DEF BackedFlight
  <2>2. PICK c \in Challenge, q \in Player :
          /\ c = proposal[o].match /\ p # q
          /\ challenge[c].challenged = p /\ challenge[c].challenger = q
    BY <2>1, ChoosesIs
  <2>3. proposal'[o].status # "none" /\ proposal'[o].match = c
    BY <2>1, <2>2 DEF AllLasting, LastingOptions, Chooses
  <2>4. challenge[c].status # "none"
    BY <2>2, NoneAssumption DEF ChainOK, RowsChain
  <2>5. challenge'[c].challenged = p /\ challenge'[c].challenger = q
    BY <2>2, <2>4 DEF AllLasting, Lasting
  <2> QED
    BY <2>2, <2>3, <2>5 DEF Chooses
<1> QED
  BY <1>1, <1>2, <1>3 DEF BackedFlight

(* A step that leaves a conversation or a command alone leaves it backed.  *)
LEMMA BackedAfter ==
    ASSUME TalkTyped, ChainOK, AllLasting, AllBacked,
           \A p \in Player : talk'[p] = talk[p] \/ Backed(p, talk[p])',
           \A r \in Route : flight'[r] = flight[r] \/ BackedFlight(flight[r])'
    PROVE  AllBacked'
<1>1. ASSUME NEW p \in Player PROVE Backed(p, talk[p])'
  <2>1. CASE talk'[p] = talk[p]
    <3>1. PICK w : w = talk[p]
      OBVIOUS
    <3>2. w \in Row /\ Backed(p, w)
      BY <3>1 DEF TalkTyped, RouterTypes, AllBacked
    <3>3. Backed(p, w)'
      BY <3>2, RowKept
    <3> QED
      BY <2>1, <3>1, <3>3 DEF Backed
  <2> QED
    BY <2>1
<1>2. ASSUME NEW r \in Route PROVE BackedFlight(flight[r])'
  <2>1. CASE flight'[r] = flight[r]
    <3>1. PICK f : f = flight[r]
      OBVIOUS
    <3>2. IsFlight(f) /\ BackedFlight(f)
      BY <3>1 DEF TalkTyped, AllBacked
    <3>3. BackedFlight(f)'
      BY <3>2, FlightKept
    <3> QED
      BY <2>1, <3>1, <3>3 DEF BackedFlight
  <2> QED
    BY <2>1
<1> QED
  BY <1>1, <1>2 DEF AllBacked

(* A command that moves on with backed rows leaves all backed.             *)
LEMMA BackedMove ==
    ASSUME TalkTyped, ChainOK, AllLasting, AllBacked, NEW r \in Route, NEW f, Moved(r, f),
           BackedFlight(f)', UNCHANGED talk
    PROVE  AllBacked'
<1>1. flight'[r] = f /\ \A s \in Route \ {r} : flight'[s] = flight[s]
  BY DEF Moved
<1>2. BackedFlight(flight[r])'
  BY <1>1 DEF BackedFlight
<1> QED
  BY <1>1, <1>2, BackedAfter

(* News is backed when every call of it is; other programs carry none.     *)
NewsBacked(x) == Backed(x.who, x.row)

(* No other command is a selection.                                        *)
LEMMA NotChoosing ==
    /\ \A o, p : <<>> # Choosing(o, p) /\ Choosing(o, p) \notin Seq(News)
    /\ \A o, p, x, y, b : Sending(x, y, b) # Choosing(o, p) /\ Picking(x, y) # Choosing(o, p)
    /\ \A o, p, x, offer : Offering(x, offer) # Choosing(o, p)
<1>1. \A o, p, x, y, b : CreateFor(x, y, b) # Choose(o, p)
  <2>1. \A o, p, x, y, b : /\ CreateFor(x, y, b).do = "createChallengeFor"
                          /\ Choose(o, p).do = "selectOption"
    BY DEF CreateFor, Choose
  <2> QED
    BY <2>1
<1>2. \A o, p, x, offer : SetOffer(x, offer) # Choose(o, p)
  <2>1. \A o, p, x, offer : /\ SetOffer(x, offer).do = "updateContext"
                           /\ Choose(o, p).do = "selectOption"
    BY DEF SetOffer, Choose
  <2> QED
    BY <2>1
<1>3. \A o, p : <<>> # Choosing(o, p) /\ Choosing(o, p) \notin Seq(News)
  BY ChoosingShape
<1>4. \A o, p, x, y, b : Sending(x, y, b) # Choosing(o, p)
  BY <1>1, ChoosingShape, SendingShape
<1>5. ASSUME NEW o, NEW p, NEW x, NEW y PROVE Picking(x, y) # Choosing(o, p)
  <2>1. SetOffer(x, {}) # Choose(o, p)
    BY <1>2
  <2>2. Head(Picking(x, y)) = SetOffer(x, {}) /\ Head(Choosing(o, p)) = Choose(o, p)
    BY ChoosingShape, PickingShape
  <2> QED
    BY <2>1, <2>2
<1>6. \A o, p, x, offer : Offering(x, offer) # Choosing(o, p)
  BY <1>2, ChoosingShape, OfferingShape
<1> QED
  BY <1>3, <1>4, <1>5, <1>6

(* A command with nothing left has nothing to back.                        *)
LEMMA EmptyBacked == BackedFlight(InFlight(<<>>, None))'
<1>1. PICK f : f = InFlight(<<>>, None)
  OBVIOUS
<1>2. f.todo = <<>> /\ f.copy = None
  BY <1>1, InFlightIs
<1>3. BackedFlight(f)'
  BY <1>2, NotChoosing DEF BackedFlight
<1> QED
  BY <1>1, <1>3

(* A command without news has nothing to back before it reads.             *)
LEMMA OtherBacked ==
    ASSUME NEW todo, todo \notin Seq(News),
           \A o \in Proposal, p \in Player : todo = Choosing(o, p) => Chooses(o, p)'
    PROVE  BackedFlight(InFlight(todo, None))'
<1>1. PICK f : f = InFlight(todo, None)
  OBVIOUS
<1>2. f.todo = todo /\ f.copy = None
  BY <1>1, InFlightIs
<1>3. BackedFlight(f)'
  BY <1>2 DEF BackedFlight
<1> QED
  BY <1>1, <1>3

(* A list of backed news is backed.                                        *)
LEMMA ListBacked ==
    ASSUME NEW todo \in Seq(News), \A i \in DOMAIN todo : NewsBacked(todo[i])'
    PROVE  BackedFlight(InFlight(todo, None))'
<1>1. PICK f : f = InFlight(todo, None)
  OBVIOUS
<1>2. f.todo = todo /\ f.copy = None
  BY <1>1, InFlightIs
<1>3. BackedFlight(f)'
  BY <1>2, NotChoosing DEF BackedFlight, NewsBacked
<1> QED
  BY <1>1, <1>3

(* So are the lists of one, two and three.                                 *)
LEMMA ListsBacked ==
    ASSUME NEW a \in News, NEW b \in News, NEW d \in News,
           NewsBacked(a)', NewsBacked(b)', NewsBacked(d)'
    PROVE  /\ BackedFlight(InFlight(<<a>>, None))' /\ BackedFlight(InFlight(<<a, b>>, None))'
           /\ BackedFlight(InFlight(<<a, b, d>>, None))'
<1>1. \A i \in DOMAIN <<a>> : NewsBacked(<<a>>[i])'
  <2> SUFFICES ASSUME NEW i \in DOMAIN <<a>> PROVE NewsBacked(<<a>>[i])'
    OBVIOUS
  <2>1. PICK x : x = <<a>>[i]
    OBVIOUS
  <2>2. x \in {a}
    BY <2>1
  <2> QED
    BY <2>1, <2>2
<1>2. \A i \in DOMAIN <<a, b>> : NewsBacked(<<a, b>>[i])'
  <2> SUFFICES ASSUME NEW i \in DOMAIN <<a, b>> PROVE NewsBacked(<<a, b>>[i])'
    OBVIOUS
  <2>1. PICK x : x = <<a, b>>[i]
    OBVIOUS
  <2>2. x \in {a, b}
    BY <2>1
  <2> QED
    BY <2>1, <2>2
<1>3. \A i \in DOMAIN <<a, b, d>> : NewsBacked(<<a, b, d>>[i])'
  <2> SUFFICES ASSUME NEW i \in DOMAIN <<a, b, d>> PROVE NewsBacked(<<a, b, d>>[i])'
    OBVIOUS
  <2>1. PICK x : x = <<a, b, d>>[i]
    OBVIOUS
  <2>2. x \in {a, b, d}
    BY <2>1
  <2> QED
    BY <2>1, <2>2
<1> QED
  BY <1>1, <1>2, <1>3, ListBacked, ListsOfNews

(* What is told has just happened, to the player who is told.              *)
LEMMA ToldBacked ==
    ASSUME NEW p \in Player, NEW c \in Challenge
    PROVE  /\ \A s \in FlowState, d \in {None, c}, m \in {None, c} :
                 SetState(p, s, d, m) \in News
           /\ NewsBacked(SetState(p, "idle", None, None))'
           /\ challenge'[c].status # "none" /\ Plays(p, c)'
                => NewsBacked(SetState(p, "idle", c, None))'
           /\ challenge'[c].status # "none" /\ Plays(p, c)' /\ challenge'[c].challenged = p
                => NewsBacked(SetState(p, "challenge_received", c, None))'
           /\ match'[c].status # "none" /\ Plays(p, c)'
                => NewsBacked(SetState(p, "awaiting_schedule", None, c))'
           /\ match'[c].status # "none" /\ Plays(p, c)'
              /\ (\E o \in Proposal : proposal'[o] = [status |-> "SELECTED", match |-> c])
                => NewsBacked(Played(p, c))'
           /\ dispute'[c] # "none" /\ Plays(p, c)'
                => NewsBacked(SetState(p, "disputed", None, None))'
<1>1. PICK x1, x2, x3, x4, x5, x6 :
        /\ x1 = SetState(p, "idle", None, None) /\ x2 = SetState(p, "idle", c, None)
        /\ x3 = SetState(p, "challenge_received", c, None)
        /\ x4 = SetState(p, "awaiting_schedule", None, c)
        /\ x5 = SetState(p, "awaiting_result_confirmation", None, c)
        /\ x6 = SetState(p, "disputed", None, None)
  OBVIOUS
<1>2. /\ x1.who = p /\ x1.row.state = "idle" /\ x1.row.challenge = None
      /\ x1.row.match = None
  BY <1>1 DEF SetState
<1>3. /\ x2.who = p /\ x2.row.state = "idle" /\ x2.row.challenge = c /\ x2.row.match = None
  BY <1>1 DEF SetState
<1>4. /\ x3.who = p /\ x3.row.state = "challenge_received" /\ x3.row.challenge = c
      /\ x3.row.match = None
  BY <1>1 DEF SetState
<1>5. /\ x4.who = p /\ x4.row.state = "awaiting_schedule" /\ x4.row.challenge = None
      /\ x4.row.match = c
  BY <1>1 DEF SetState
<1>6. /\ x5.who = p /\ x5.row.state = "awaiting_result_confirmation"
      /\ x5.row.challenge = None /\ x5.row.match = c
  BY <1>1 DEF SetState
<1>7. /\ x6.who = p /\ x6.row.state = "disputed" /\ x6.row.challenge = None
      /\ x6.row.match = None
  BY <1>1 DEF SetState
<1>8. c # None
  BY NoneAssumption
<1>9. NewsBacked(x1)'
  BY <1>2 DEF NewsBacked, Backed
<1>10. challenge'[c].status # "none" /\ Plays(p, c)' => NewsBacked(x2)'
  BY <1>3 DEF NewsBacked, Backed
<1>11. challenge'[c].status # "none" /\ Plays(p, c)' /\ challenge'[c].challenged = p
         => NewsBacked(x3)'
  BY <1>4, <1>8 DEF NewsBacked, Backed
<1>12. match'[c].status # "none" /\ Plays(p, c)' => NewsBacked(x4)'
  BY <1>5, <1>8 DEF NewsBacked, Backed
<1>13. match'[c].status # "none" /\ Plays(p, c)'
         /\ (\E o \in Proposal : proposal'[o] = [status |-> "SELECTED", match |-> c])
         => NewsBacked(x5)'
  BY <1>6, <1>8 DEF NewsBacked, Backed
<1>14. dispute'[c] # "none" /\ Plays(p, c)' => NewsBacked(x6)'
  BY <1>7 DEF NewsBacked, Backed
<1> QED
  BY <1>1, <1>9, <1>10, <1>11, <1>12, <1>13, <1>14, NewsTyped DEF Played

(* The news of a command are backed when it takes off.                     *)
LEMMA CommandBacked ==
    ASSUME TalkTyped, ChainOK, AllLasting, AllBacked,
           NEW r \in Route, NEW p \in Player, Command(r, p)
    PROVE  AllBacked'
<1>1. ASSUME NEW todo, Takeoff(r, todo), UNCHANGED talk,
             BackedFlight(InFlight(todo, None))'
      PROVE  AllBacked'
  BY <1>1, TakeoffMoves, BackedMove
<1>2. CASE Desafio(r, p) \/ SelectPlayer(r, p)
  <2>1. PICK todo : /\ Takeoff(r, todo) /\ UNCHANGED talk
                    /\ \/ \E q \in Player : todo = Sending(p, q, FALSE)
                       \/ \E offer : todo = Offering(p, offer)
                       \/ \E q \in Player : todo = Picking(p, q)
    BY <1>2, DesafioDoes, SelectPlayerDoes
  <2>2. todo \notin Seq(News) /\ \A o, x : todo # Choosing(o, x)
    <3>1. CASE \E q \in Player : todo = Sending(p, q, FALSE)
      BY <3>1, SendingShape, NotChoosing
    <3>2. CASE \E offer : todo = Offering(p, offer)
      BY <3>2, OfferingShape, NotChoosing
    <3>3. CASE \E q \in Player : todo = Picking(p, q)
      BY <3>3, PickingShape, NotChoosing
    <3> QED
      BY <2>1, <3>1, <3>2, <3>3
  <2> QED
    BY <1>1, <2>1, <2>2, OtherBacked
<1>3. ASSUME NEW c \in Challenge, Accept(r, c, p) PROVE AllBacked'
  <2>1. PICK q, todo :
          /\ q = challenge[c].challenger /\ q \in Player /\ Takeoff(r, todo)
          /\ todo = <<>> \/ todo = Accepted(p, q, c)
    BY <1>3, AcceptDoes
  <2>2. AcceptChallenge(c, p) /\ UNCHANGED talk /\ challenge[c].challenged = p
    BY <1>3, AcceptDoes
  <2>3. match'[c].status = "PENDING_SCHEDULE"
    BY <2>2 DEF AcceptChallenge, ChainOK, TypeOK, MatchRow
  <2>4. challenge'[c].challenger = q /\ challenge'[c].challenged = p
    BY <2>1, <2>2 DEF AcceptChallenge, ChainOK, TypeOK, ChallengeRow
  <2>5. Plays(p, c)' /\ Plays(q, c)'
    BY <2>4 DEF Plays
  <2>6. PICK a, b : /\ a = SetState(p, "awaiting_schedule", None, c)
                    /\ b = SetState(q, "awaiting_schedule", None, c)
    OBVIOUS
  <2>7. a \in News /\ b \in News /\ NewsBacked(a)' /\ NewsBacked(b)'
    BY <2>1, <2>3, <2>5, <2>6, ToldBacked DEF FlowState
  <2>8. BackedFlight(InFlight(<<a, b>>, None))'
    BY <2>7, ListsBacked
  <2>9. Accepted(p, q, c) = <<a, b>>
    BY <2>6 DEF Accepted
  <2>10. BackedFlight(InFlight(todo, None))'
    BY <2>1, <2>8, <2>9, EmptyBacked
  <2> QED
    BY <1>1, <2>1, <2>2, <2>10
<1>4. ASSUME NEW c \in Challenge, Verdict(r, c, p) PROVE AllBacked'
  <2>1. PICK todo, s : /\ todo = <<SetState(p, s, None, None)>> /\ Takeoff(r, todo)
                       /\ \/ s = "idle" /\ ConfirmResult(c, p)
                          \/ s = "disputed" /\ RejectResult(c, p)
    BY <1>4, VerdictDoes DEF Judged
  <2>2. report[c].status # "none" /\ Opponent(c, report[c].reporter) = p /\ UNCHANGED talk
    BY <1>4, VerdictDoes
  <2>3. Plays(p, c)'
    <3>1. challenge' = challenge
      BY <2>1 DEF ConfirmResult, RejectResult
    <3> QED
      BY <2>2, <3>1 DEF Opponent, Plays
  <2>4. s = "disputed" => dispute'[c] # "none"
    BY <2>1 DEF RejectResult, ChainOK, TypeOK
  <2>5. PICK a : a = SetState(p, s, None, None)
    OBVIOUS
  <2>6. a \in News /\ NewsBacked(a)'
    BY <2>1, <2>3, <2>4, <2>5, ToldBacked DEF FlowState
  <2>7. BackedFlight(InFlight(<<a>>, None))'
    BY <2>6, ListsBacked
  <2> QED
    BY <1>1, <2>1, <2>2, <2>5, <2>7
<1>5. ASSUME NEW o \in Proposal, Select(r, o, p) PROVE AllBacked'
  <2>1. UNCHANGED <<vars, talk>> /\ Chooses(o, p) /\ Takeoff(r, Choosing(o, p))
    BY <1>5, SelectDoes
  <2>2. Chooses(o, p)'
    BY <2>1 DEF Chooses, vars, rows
  <2>3. PICK todo : todo = Choosing(o, p)
    OBVIOUS
  <2>4. ASSUME NEW x \in Proposal, NEW y \in Player, todo = Choosing(x, y) PROVE x = o /\ y = p
    <3>1. Choose(o, p) = Choose(x, y)
      <4>1. Head(Choosing(o, p)) = Choose(o, p)
        BY ChoosingShape
      <4>2. Head(Choosing(x, y)) = Choose(x, y)
        BY ChoosingShape
      <4> QED
        BY <2>3, <2>4, <4>1, <4>2
    <3>2. /\ Choose(o, p).who = p /\ Choose(o, p).option = o
          /\ Choose(x, y).who = y /\ Choose(x, y).option = x
      BY ChoosingShape
    <3> QED
      BY <3>1, <3>2
  <2>5. todo \notin Seq(News)
    BY <2>3, ChoosingShape
  <2>6. \A x \in Proposal, y \in Player : todo = Choosing(x, y) => Chooses(x, y)'
    BY <2>2, <2>4
  <2> QED
    BY <1>1, <2>1, <2>3, <2>5, <2>6, OtherBacked
<1> QED
  BY <1>2, <1>3, <1>4, <1>5 DEF Command

(* The news of a challenge are backed when it is made.                     *)
LEMMA CreateForBacked ==
    ASSUME TalkTyped, ChainOK, AllLasting, AllBacked, NEW r \in Route, CreateChallengeFor(r)
    PROVE  AllBacked'
<1>1. PICK p \in Player, q \in Player, bool \in BOOLEAN : \E todo :
        /\ Then(r, todo) /\ UNCHANGED talk
        /\ todo = <<>> \/ \E c \in Challenge : /\ CreateChallenge(c, p, q)
                                               /\ todo = Challenged(p, q, c)
  BY CreateForDoes
<1>2. PICK todo :
        /\ Then(r, todo) /\ UNCHANGED talk
        /\ todo = <<>> \/ \E c \in Challenge : /\ CreateChallenge(c, p, q)
                                               /\ todo = Challenged(p, q, c)
  BY <1>1
<1>3. ASSUME NEW c \in Challenge, CreateChallenge(c, p, q)
      PROVE  BackedFlight(InFlight(Challenged(p, q, c), None))'
  <2>1. /\ challenge'[c].status = "PENDING"
        /\ challenge'[c].challenger = p /\ challenge'[c].challenged = q
    BY <1>3 DEF CreateChallenge, ChainOK, TypeOK, ChallengeRow
  <2>2. Plays(p, c)' /\ Plays(q, c)'
    BY <2>1 DEF Plays
  <2>3. PICK a, b : /\ a = SetState(p, "idle", c, None)
                    /\ b = SetState(q, "challenge_received", c, None)
    OBVIOUS
  <2>4. a \in News /\ b \in News /\ NewsBacked(a)' /\ NewsBacked(b)'
    BY <2>1, <2>2, <2>3, ToldBacked DEF FlowState
  <2>5. BackedFlight(InFlight(<<a, b>>, None))'
    BY <2>4, ListsBacked
  <2> QED
    BY <2>3, <2>5 DEF Challenged
<1>4. BackedFlight(InFlight(todo, None))'
  BY <1>2, <1>3, EmptyBacked
<1> QED
  BY <1>2, <1>4, ThenMoves, BackedMove

(* The news of a selection are backed when it is saved, also when the      *)
(* match it was made for is over by then.                                  *)
LEMMA SelectionBacked ==
    ASSUME TalkTyped, ChainOK, AllLasting, AllBacked, NEW r \in Route, SaveSelection(r)
    PROVE  AllBacked'
<1>1. PICK o \in Proposal, p \in Player, c \in Challenge, q \in Player : \E todo :
        /\ c = proposal[o].match /\ proposal[o].status # "none"
        /\ challenge[c].challenged = p /\ challenge[c].challenger = q
        /\ Selects(o, c) /\ UNCHANGED talk /\ Then(r, todo)
        /\ todo = Scheduled(p, q, c) \/ todo = <<>>
  BY SelectionDoes
<1>2. PICK todo :
        /\ c = proposal[o].match /\ proposal[o].status # "none"
        /\ challenge[c].challenged = p /\ challenge[c].challenger = q
        /\ Selects(o, c) /\ UNCHANGED talk /\ Then(r, todo)
        /\ todo = Scheduled(p, q, c) \/ todo = <<>>
  BY <1>1
<1>3. match'[c].status = "SCHEDULED" /\ challenge' = challenge
  BY <1>2 DEF Selects, ChainOK, TypeOK, MatchRow
<1>4. proposal'[o] = [status |-> "SELECTED", match |-> c]
  BY <1>2 DEF Selects, ChainOK, TypeOK, ProposalRow
<1>5. Plays(p, c)' /\ Plays(q, c)'
  BY <1>2, <1>3 DEF Plays
<1>6. PICK a, b : a = Played(p, c) /\ b = Played(q, c)
  OBVIOUS
<1>7. a \in News /\ b \in News /\ NewsBacked(a)' /\ NewsBacked(b)'
  <2>1. a \in News /\ b \in News
    BY <1>6, ToldBacked DEF FlowState, Played
  <2> QED
    BY <1>3, <1>4, <1>5, <1>6, <2>1, ToldBacked
<1>8. BackedFlight(InFlight(<<a, b, a>>, None))'
  BY <1>7, ListsBacked
<1>9. Scheduled(p, q, c) = <<a, b, a>>
  BY <1>6 DEF Scheduled
<1>10. BackedFlight(InFlight(todo, None))'
  BY <1>2, <1>8, <1>9, EmptyBacked
<1> QED
  BY <1>2, <1>10, ThenMoves, BackedMove

(* updateContext keeps what it found, however old that is by now; setState *)
(* saves the news.                                                         *)
LEMMA FindBacked ==
    ASSUME TalkTyped, ChainOK, AllLasting, AllBacked, NEW r \in Route, FindRow(r)
    PROVE  AllBacked'
<1>1. PICK step, copy :
        /\ flight[r].todo # <<>> /\ step = Head(flight[r].todo) /\ WritesRow(step)
        /\ step.who \in Player
        /\ copy = [row |-> NewRow(step, talk[step.who]),
                   insert |-> talk[step.who] = NoRow]
        /\ flight' = [flight EXCEPT ![r].copy = copy]
        /\ UNCHANGED <<vars, talk, history>>
  BY FindDoes
<1>2. PICK p, found, row : p = step.who /\ found = talk[p] /\ row = NewRow(step, found)
  OBVIOUS
<1>3. copy.row = row /\ found \in Row /\ Backed(p, found)
  BY <1>1, <1>2 DEF TalkTyped, RouterTypes, AllBacked
<1>4. /\ step.do = "setState" => step \in News /\ flight[r].todo \in Seq(News)
      /\ step.do = "updateContext" => step.offer \in SUBSET Player
  BY <1>1, WritingFits DEF TalkTyped
<1>5. Backed(p, row)
  <2>1. CASE step.do = "setState"
    <3>1. row = step.row /\ step \in News /\ flight[r].todo \in Seq(News)
      BY <1>1, <1>2, <1>3, <1>4, <2>1, NewRowIs
    <3>2. 1 \in DOMAIN flight[r].todo /\ flight[r].todo[1] = step
      BY <1>1, <3>1
    <3> QED
      BY <1>2, <3>1, <3>2 DEF AllBacked, BackedFlight
  <2>2. CASE step.do = "updateContext"
    <3>1. /\ row.challenge = found.challenge /\ row.match = found.match
          /\ row.state = IF found.state = "none" THEN "idle" ELSE found.state
      BY <1>1, <1>2, <1>3, <1>4, <2>2, NewRowIs
    <3> QED
      BY <1>3, <3>1 DEF Backed
  <2> QED
    BY <1>1, <2>1, <2>2 DEF WritesRow
<1>6. row \in Row
  BY <1>1, <1>2, <1>3, <1>4, NewRowIs DEF SavedRow
<1>7. Backed(p, row)'
  BY <1>1, <1>2, <1>5, <1>6, RowKept
<1>8. PICK f, g : f = flight[r] /\ g = InFlight(f.todo, copy)
  OBVIOUS
<1>9. BackedFlight(f)'
  BY <1>8, FlightKept DEF TalkTyped, AllBacked
<1>10. g.todo = f.todo /\ g.copy = copy /\ Head(g.todo) = step
  BY <1>1, <1>8, InFlightIs
<1>11. BackedFlight(g)'
  BY <1>2, <1>3, <1>7, <1>9, <1>10 DEF BackedFlight
<1> QED
  BY <1>1, <1>8, <1>11, FindMoves, BackedMove

(* A save writes a backed row.                                             *)
LEMMA SaveBacked ==
    ASSUME TalkTyped, ChainOK, AllLasting, AllBacked, NEW r \in Route, SaveRow(r)
    PROVE  AllBacked'
<1>1. PICK step, copy :
        /\ flight[r].todo # <<>> /\ step = Head(flight[r].todo) /\ WritesRow(step)
        /\ step.who \in Player /\ copy = flight[r].copy /\ copy # None
        /\ IsCopyFor(copy, step)
        /\ \/ Then(r, <<>>) /\ UNCHANGED talk
           \/ /\ Then(r, Tail(flight[r].todo))
              /\ talk' = [talk EXCEPT ![step.who] = copy.row]
  BY SaveDoes
<1>2. PICK f, p, row : f = flight[r] /\ p = step.who /\ row = copy.row
  OBVIOUS
<1>3. row \in Row /\ Backed(p, row) /\ p \in Player
  BY <1>1, <1>2 DEF IsCopyFor, SavedRow, AllBacked, BackedFlight
<1>4. Backed(p, row)' /\ BackedFlight(f)'
  BY <1>2, <1>3, RowKept, FlightKept DEF TalkTyped, AllBacked
<1>5. PICK todo : /\ Then(r, todo) /\ todo \in {<<>>, Tail(f.todo)}
                  /\ \A x \in Player : \/ talk'[x] = talk[x]
                                       \/ x = p /\ talk'[x] = row
  <2>1. talk \in [Player -> Row]
    BY DEF TalkTyped, RouterTypes
  <2> QED
    BY <1>1, <1>2, <2>1
<1>6. BackedFlight(InFlight(todo, None))'
  <2>1. CASE todo = <<>>
    BY <2>1, EmptyBacked
  <2>2. CASE todo = Tail(f.todo) /\ f.todo \in Seq(News)
    <3>1. \A i \in DOMAIN todo : i + 1 \in DOMAIN f.todo /\ todo[i] = f.todo[i + 1]
      BY <1>1, <1>2, <2>2, HeadTailProperties
    <3>2. \A i \in DOMAIN todo : NewsBacked(todo[i])'
      BY <1>4, <2>2, <3>1 DEF BackedFlight, NewsBacked
    <3>3. todo \in Seq(News)
      BY <1>1, <1>2, <2>2, HeadTailProperties
    <3> QED
      BY <2>2, <3>2, <3>3, ListBacked
  <2>3. CASE todo = Tail(f.todo) /\ f.todo \notin Seq(News)
    <3>1. todo = <<>> \/ \E a \in Player, b \in Player : todo = Sending(a, b, TRUE)
      BY <1>1, <1>2, <2>3, WritingCall DEF TalkTyped
    <3>2. ASSUME NEW a \in Player, NEW b \in Player, todo = Sending(a, b, TRUE)
          PROVE  BackedFlight(InFlight(todo, None))'
      <4>1. todo \notin Seq(News)
        BY <3>2, SendingShape
      <4>2. \A o, x : todo # Choosing(o, x)
        BY <3>2, NotChoosing
      <4> QED
        BY <4>1, <4>2, OtherBacked
    <3> QED
      BY <3>1, <3>2, EmptyBacked
  <2> QED
    BY <1>5, <2>1, <2>2, <2>3
<1>7. PICK g : g = InFlight(todo, None)
  OBVIOUS
<1>8. Moved(r, g) /\ BackedFlight(g)'
  BY <1>5, <1>6, <1>7, ThenMoves
<1>9. flight'[r] = g /\ \A s \in Route \ {r} : flight'[s] = flight[s]
  BY <1>8 DEF Moved
<1>10. BackedFlight(flight[r])'
  BY <1>8, <1>9 DEF BackedFlight
<1>11. \A x \in Player : talk'[x] = talk[x] \/ Backed(x, talk[x])'
  <2>1. talk'[p] = row => Backed(p, talk[p])'
    BY <1>4 DEF Backed
  <2> QED
    BY <1>5, <2>1
<1> QED
  BY <1>9, <1>10, <1>11, BackedAfter

(* Every step leaves all backed.                                           *)
LEMMA BackedStep ==
    TalkTyped /\ ChainOK /\ AllBacked /\ [TalkNext]_talkVars => AllBacked'
<1> SUFFICES ASSUME TalkTyped, ChainOK, AllBacked, [TalkNext]_talkVars PROVE AllBacked'
  OBVIOUS
<1>1. AllLasting
  BY ChainOKStep
<1>2. CASE UNCHANGED <<talk, flight>>
  BY <1>1, <1>2, BackedAfter
<1>3. ASSUME NEW failing, Fail(failing) PROVE AllBacked'
  <2>1. UNCHANGED talk
    BY <1>3, FailDoes
  <2>2. ASSUME NEW r \in Route PROVE flight'[r] = flight[r] \/ BackedFlight(flight[r])'
    <3>1. CASE flight'[r] = Landed
      <4>1. BackedFlight(Landed)'
        <5>1. Landed = InFlight(<<>>, None)
          BY DEF Landed, InFlight
        <5> QED
          BY <5>1, EmptyBacked
      <4> QED
        BY <3>1, <4>1 DEF BackedFlight, Landed
    <3> QED
      BY <1>3, <3>1, FailDoes
  <2> QED
    BY <1>1, <2>1, <2>2, BackedAfter
<1>4. CASE Die \/ \E r \in Route : Throw(r)
  BY <1>3, <1>4 DEF Die, Throw
<1>5. CASE Background \/ (\E c \in Challenge, p \in Player : Silent(c, p)) \/ UNCHANGED talkVars
  BY <1>2, <1>5 DEF Background, Silent, talkVars
<1>6. ASSUME NEW c \in Challenge, ReadCopy(c) \/ SaveChallengeCopy(c) \/ SaveMatchCopy(c)
      PROVE  AllBacked'
  BY <1>2, <1>6 DEF ReadCopy, SaveChallengeCopy, SaveMatchCopy
<1> QED
  BY <1>1, <1>4, <1>5, <1>6, CommandBacked, CreateForBacked, SelectionBacked, FindBacked,
     SaveBacked
  DEF TalkNext

(* Commands in flight, rows and copies, as every step leaves them.         *)
Ground == TalkTyped /\ ChainOK /\ AllBacked /\ TurnOK

(* They start so.                                                          *)
LEMMA GroundStarts == TalkInit => Ground
<1> SUFFICES ASSUME TalkInit PROVE Ground
  OBVIOUS
<1>1. \A p \in Player : Backed(p, talk[p])
  BY DEF TalkInit, NoRow, Backed
<1>2. \A r \in Route : BackedFlight(flight[r])
  BY NotChoosing DEF TalkInit, Landed, BackedFlight
<1>3. TurnOK
  BY TalkStarts DEF TalkInit, TurnOK
<1> QED
  BY <1>1, <1>2, <1>3, TalkStarts DEF AllBacked, Ground

(* Every step keeps them, and until one finds that a handler was           *)
(* interrupted it is a step of the ladder.                                 *)
LEMMA GroundStep == Ground /\ [TalkNext]_talkVars =>
                        /\ Ground'
                        /\ ~interleaved' => ~interleaved /\ [Next]_vars
BY TypedStep, ChainOKStep, BackedStep, TurnStep DEF Ground

(* Conversations and the histories about them keep their types, and a row  *)
(* a command is about to save has the columns of its entity.               *)
THEOREM ConversationsTyped == TalkSpec => []TalkTypeOK
<1>1. Ground => TalkTypeOK
  BY DEF Ground, TalkTyped, RouterTypes, ChainOK, CopiesOK, TalkTypeOK
<1> QED
  BY <1>1, GroundStarts, GroundStep, PTL DEF TalkSpec

(* The steps and the rows of the ladder until a handler is interrupted.    *)
LadderDriven == [][~interleaved' => Next]_vars
LadderKept == ~interleaved => RowsInOrder /\ DisputeTracksReport /\ SelectionSettled

(* The commands of the conversation router drive the ladder only through   *)
(* its handlers: as long as no handler is interrupted between its read and *)
(* its save, every step of theirs is a step of MatchLifecycle, and what    *)
(* its handlers promise of the order of the rows holds.                    *)
THEOREM RouterDrivesLadder == TalkSpec => Init /\ LadderDriven /\ []LadderKept
<1>1. TalkInit => Init
  BY DEF TalkInit
<1>2. Ground => LadderKept
  BY DEF Ground, TurnOK, LadderOK, LadderInv, LadderKept
<1>3. Ground /\ [TalkNext]_talkVars => [~interleaved' => Next]_vars
  BY GroundStep
<1>4. TalkSpec => []Ground
  BY GroundStarts, GroundStep, PTL DEF TalkSpec
<1>5. TalkSpec => LadderDriven
  BY <1>3, <1>4, PTL DEF TalkSpec, LadderDriven
<1> QED
  BY <1>1, <1>2, <1>4, <1>5, PTL DEF TalkSpec

(* What a player's conversation says he waits for has happened, in a       *)
(* challenge of his, whatever interleaves, fails or is saved back stale:   *)
(* conversations, selections, and the rows of jobs and admin commands.     *)
THEOREM StatesAreBacked == TalkSpec => []StateIsBacked
<1>1. Ground => StateIsBacked
  BY DEF Ground, AllBacked, Backed, StateIsBacked
<1> QED
  BY <1>1, GroundStarts, GroundStep, PTL DEF TalkSpec

-----------------------------------------------------------------------------
(* A list of candidates is good for one attempt                            *)

(* A program tells whose it is and which.                                  *)
LEMMA ProgramsDiffer ==
    ASSUME NEW p, NEW q, NEW b, NEW x, NEW y, NEW d, NEW offer
    PROVE  /\ Sending(p, q, b) = Sending(x, y, d) => p = x /\ b = d
           /\ Picking(p, q) = Picking(x, y) => p = x
           /\ Sending(p, q, b) # Picking(x, y) /\ Offering(p, offer) # Picking(x, y)
           /\ Offering(p, offer) # Sending(x, y, d)
           /\ <<>> # Picking(x, y) /\ <<>> # Sending(x, y, d)
<1>1. /\ CreateFor(p, q, b).who = p /\ CreateFor(p, q, b).fromList = b
      /\ CreateFor(x, y, d).who = x /\ CreateFor(x, y, d).fromList = d
      /\ CreateFor(p, q, b).do = "createChallengeFor"
      /\ CreateFor(x, y, d).do = "createChallengeFor"
  BY DEF CreateFor
<1>2. /\ SetOffer(p, {}).who = p /\ SetOffer(x, {}).who = x
      /\ SetOffer(x, {}).do = "updateContext" /\ SetOffer(p, offer).do = "updateContext"
  BY OfferFields
<1>3. /\ Head(Sending(p, q, b)) = CreateFor(p, q, b)
      /\ Head(Sending(x, y, d)) = CreateFor(x, y, d)
      /\ Sending(x, y, d) # <<>> /\ Sending(x, y, TRUE) # <<>>
  BY SendingShape
<1>4. /\ Head(Picking(p, q)) = SetOffer(p, {}) /\ Head(Picking(x, y)) = SetOffer(x, {})
      /\ Tail(Picking(x, y)) = Sending(x, y, TRUE) /\ Picking(x, y) # <<>>
  BY PickingShape
<1>5. Head(Offering(p, offer)) = SetOffer(p, offer) /\ Tail(Offering(p, offer)) = <<>>
  BY OfferingShape
<1>6. Sending(p, q, b) = Sending(x, y, d) => p = x /\ b = d
  BY <1>1, <1>3
<1>7. Picking(p, q) = Picking(x, y) => p = x
  BY <1>2, <1>4
<1>8. Sending(p, q, b) # Picking(x, y)
  BY <1>1, <1>2, <1>3, <1>4
<1>9. Offering(p, offer) # Picking(x, y)
  BY <1>3, <1>4, <1>5
<1>10. Offering(p, offer) # Sending(x, y, d)
  BY <1>1, <1>2, <1>3, <1>5
<1> QED
  BY <1>3, <1>4, <1>6, <1>7, <1>8, <1>9, <1>10

(* News are neither a pick nor a challenge still to be sent.               *)
LEMMA NewsDiffers ==
    ASSUME NEW todo \in Seq(News), NEW p, NEW q, NEW b
    PROVE  todo # Picking(p, q) /\ todo # Sending(p, q, b)
BY PickingShape, SendingShape

(* The same as rules, for whatever players.                                *)
LEMMA CallsDiffer ==
    /\ \A p, q, b, x, y, d : /\ Sending(p, q, b) = Sending(x, y, d) => p = x /\ b = d
                             /\ Sending(p, q, b) # Picking(x, y)
    /\ \A p, offer, x, y, d : /\ Offering(p, offer) # Picking(x, y)
                              /\ Offering(p, offer) # Sending(x, y, d)
BY ProgramsDiffer

(* A step of a command in flight, or a takeoff, leaves at most one command *)
(* in flight if there never was more than one.                             *)
LEMMA AloneMoved ==
    ASSUME TalkTyped, Alone, NEW r \in Route, NEW f, Moved(r, f),
           \/ overlapped' = overlapped /\ flight[r] # Landed
           \/ overlapped' = (overlapped \/ Busy # {})
    PROVE  /\ Alone'
           /\ ~overlapped' => /\ ~overlapped
                              /\ \A s \in Route \ {r} : flight[s] = Landed
<1>1. flight'[r] = f /\ \A s \in Route \ {r} : flight'[s] = flight[s]
  BY DEF Moved
<1>2. ~overlapped' => ~overlapped /\ \A s \in Route \ {r} : flight[s] = Landed
  BY DEF Alone, Busy
<1>3. ~overlapped' => \A s \in Route \ {r} : flight'[s] = Landed
  BY <1>1, <1>2
<1> QED
  BY <1>2, <1>3 DEF Alone, Busy

(* Commands that land leave at most one in flight.                         *)
LEMMA AloneFewer ==
    ASSUME Alone, overlapped' = overlapped,
           \A r \in Route : flight'[r] \in {flight[r], Landed}
    PROVE  Alone'
BY DEF Alone, Busy

ListInv == Alone /\ ListUnused

(* A move of one command keeps lists unused, if its own part is right.     *)
LEMMA ListMove ==
    ASSUME TalkTyped, Alone, NEW r \in Route, NEW f, Moved(r, f),
           \/ overlapped' = overlapped /\ flight[r] # Landed
           \/ overlapped' = (overlapped \/ Busy # {}),
           ~overlapped' =>
             /\ \A p \in Player : /\ picked'[p] <= offered'[p]
                                  /\ talk'[p].offer # {} => Unused(p)'
             /\ \A p \in Player, q \in Player :
                  /\ f.todo = Picking(p, q) => Unused(p)'
                  /\ f.todo = Sending(p, q, TRUE) => Unused(p)' /\ talk'[p].offer = {}
    PROVE  ListInv'
<1>1. Alone'
  BY AloneMoved
<1>2. ~overlapped' => \A s \in Route \ {r} : flight[s] = Landed
  BY AloneMoved
<1>3. flight'[r] = f /\ \A s \in Route \ {r} : flight'[s] = flight[s]
  BY DEF Moved
<1>4. \A p, q : Landed.todo # Picking(p, q) /\ Landed.todo # Sending(p, q, TRUE)
  BY ProgramsDiffer DEF Landed
<1>5. ListUnused'
  BY <1>2, <1>3, <1>4 DEF ListUnused
<1> QED
  BY <1>1, <1>5 DEF ListInv

(* The takeoff of a command keeps lists unused.                            *)
LEMMA CommandListed ==
    ASSUME TalkTyped, ChainOK, ListInv, NEW r \in Route, NEW p \in Player, Command(r, p)
    PROVE  ListInv'
<1>1. \E todo : /\ Takeoff(r, todo) /\ UNCHANGED talk
                /\ \/ todo \in Seq(News)
                   \/ \E q : todo = Sending(p, q, FALSE)
                   \/ \E offer : todo = Offering(p, offer)
                   \/ \E q : todo = Picking(p, q) /\ talk[p].offer # {}
                   \/ \E o : todo = Choosing(o, p)
  <2>1. CASE Desafio(r, p)
    BY <2>1, DesafioDoes
  <2>2. CASE SelectPlayer(r, p)
    BY <2>2, SelectPlayerDoes
  <2>3. ASSUME NEW c \in Challenge, Accept(r, c, p)
        PROVE  \E todo : Takeoff(r, todo) /\ UNCHANGED talk /\ todo \in Seq(News)
    <3>1. PICK q, todo : /\ q \in Player /\ Takeoff(r, todo) /\ UNCHANGED talk
                         /\ todo = <<>> \/ todo = Accepted(p, q, c)
      BY <2>3, AcceptDoes
    <3>2. todo \in Seq(News)
      BY <3>1, NewsLists, EmptySeq
    <3> QED
      BY <3>1, <3>2
  <2>4. ASSUME NEW c \in Challenge, Verdict(r, c, p)
        PROVE  \E todo : Takeoff(r, todo) /\ UNCHANGED talk /\ todo \in Seq(News)
    BY <2>4, VerdictDoes, NewsLists
  <2>5. ASSUME NEW o \in Proposal, Select(r, o, p)
        PROVE  \E todo : Takeoff(r, todo) /\ UNCHANGED talk /\ todo = Choosing(o, p)
    BY <2>5, SelectDoes
  <2> QED
    BY <2>1, <2>2, <2>3, <2>4, <2>5 DEF Command
<1>2. PICK todo : /\ Takeoff(r, todo) /\ UNCHANGED talk
                  /\ \/ todo \in Seq(News)
                     \/ \E q : todo = Sending(p, q, FALSE)
                     \/ \E offer : todo = Offering(p, offer)
                     \/ \E q : todo = Picking(p, q) /\ talk[p].offer # {}
                     \/ \E o : todo = Choosing(o, p)
  BY <1>1
<1>3. PICK f : f = InFlight(todo, None)
  OBVIOUS
<1>4. f.todo = todo /\ Moved(r, f)
  BY <1>2, <1>3, InFlightIs, TakeoffMoves
<1>5. UNCHANGED <<offered, picked>> /\ overlapped' = (overlapped \/ Busy # {})
  BY <1>2, TakeoffMoves
<1>6. ASSUME NEW x, NEW y
      PROVE  /\ todo # Sending(x, y, TRUE)
             /\ todo = Picking(x, y) => x = p /\ talk[p].offer # {}
  <2>1. CASE todo \in Seq(News)
    BY <2>1, NewsDiffers
  <2>2. ASSUME NEW q, todo = Sending(p, q, FALSE)
        PROVE  todo # Sending(x, y, TRUE) /\ todo # Picking(x, y)
    BY <2>2, CallsDiffer
  <2>3. ASSUME NEW offer, todo = Offering(p, offer)
        PROVE  todo # Sending(x, y, TRUE) /\ todo # Picking(x, y)
    BY <2>3, CallsDiffer
  <2>4. ASSUME NEW q, todo = Picking(p, q)
        PROVE  todo # Sending(x, y, TRUE) /\ (todo = Picking(x, y) => x = p)
    BY <2>4, ProgramsDiffer
  <2>5. ASSUME NEW o, todo = Choosing(o, p)
        PROVE  todo # Sending(x, y, TRUE) /\ todo # Picking(x, y)
    BY <2>5, NotChoosing
  <2> QED
    BY <1>2, <2>1, <2>2, <2>3, <2>4, <2>5
<1>8. ~overlapped' => \A x \in Player : /\ picked[x] <= offered[x]
                                        /\ talk[x].offer # {} => Unused(x)
  BY <1>5 DEF ListInv, ListUnused
<1>9. Alone
  BY DEF ListInv
<1> QED
  BY <1>2, <1>4, <1>5, <1>6, <1>8, <1>9, ListMove DEF Unused

(* An attempt uses up a list that is cleared already.                      *)
LEMMA CreateForListed ==
    ASSUME TalkTyped, ListInv, NEW r \in Route, CreateChallengeFor(r)
    PROVE  ListInv'
<1>1. PICK p \in Player, q \in Player, b \in BOOLEAN : \E todo :
        /\ flight[r].todo = Sending(p, q, b)
        /\ Then(r, todo) /\ UNCHANGED <<talk, offered, overlapped>>
        /\ picked' = IF b THEN [picked EXCEPT ![p] = @ + 1] ELSE picked
        /\ todo = <<>> \/ \E c \in Challenge : todo = Challenged(p, q, c)
  BY CreateForDoes
<1>2. PICK todo :
        /\ flight[r].todo = Sending(p, q, b)
        /\ Then(r, todo) /\ UNCHANGED <<talk, offered, overlapped>>
        /\ picked' = IF b THEN [picked EXCEPT ![p] = @ + 1] ELSE picked
        /\ todo = <<>> \/ \E c \in Challenge : todo = Challenged(p, q, c)
  BY <1>1
<1>3. PICK f : f = InFlight(todo, None)
  OBVIOUS
<1>4. f.todo = todo /\ Moved(r, f)
  BY <1>2, <1>3, InFlightIs, ThenMoves
<1>5. todo \in Seq(News)
  BY <1>2, NewsLists, EmptySeq
<1>6. \A x, y : todo # Picking(x, y) /\ todo # Sending(x, y, TRUE)
  BY <1>5, NewsDiffers
<1>7. flight[r] # Landed
  BY <1>2, SendingShape DEF Landed
<1>8. ASSUME ~overlapped, NEW x \in Player
      PROVE  picked'[x] <= offered[x] /\ (talk[x].offer # {} => picked'[x] < offered[x])
  <2>1. /\ picked[x] \in Nat /\ offered[x] \in Nat /\ picked[x] <= offered[x]
        /\ talk[x].offer # {} => picked[x] < offered[x]
    BY <1>8 DEF ListInv, ListUnused, Unused, TalkTyped, RouterTypes
  <2>2. CASE b /\ x = p
    <3>1. flight[r].todo = Sending(p, q, TRUE)
      BY <1>2, <2>2
    <3>2. picked[x] < offered[x] /\ talk[x].offer = {}
      BY <1>8, <2>2, <3>1 DEF ListInv, ListUnused, Unused
    <3>3. picked'[x] = picked[x] + 1
      BY <1>2, <2>2 DEF TalkTyped, RouterTypes
    <3> QED
      BY <2>1, <3>2, <3>3
  <2>3. CASE ~(b /\ x = p)
    <3>1. picked'[x] = picked[x]
      BY <1>2, <2>3 DEF TalkTyped, RouterTypes
    <3> QED
      BY <2>1, <3>1
  <2> QED
    BY <2>2, <2>3
<1>9. Alone
  BY DEF ListInv
<1> QED
  BY <1>2, <1>4, <1>6, <1>7, <1>8, <1>9, ListMove DEF Unused

(* A selection shows no list and sends no challenge.                       *)
LEMMA SelectionListed ==
    ASSUME TalkTyped, ChainOK, AllBacked, ListInv, NEW r \in Route, SaveSelection(r)
    PROVE  ListInv'
<1>1. PICK o \in Proposal, p \in Player, c \in Challenge, q \in Player : \E todo :
        /\ flight[r].todo = Choosing(o, p) /\ UNCHANGED <<talk, history>>
        /\ Then(r, todo) /\ (todo = Scheduled(p, q, c) \/ todo = <<>>)
  BY SelectionDoes
<1>2. PICK todo :
        /\ flight[r].todo = Choosing(o, p) /\ UNCHANGED <<talk, history>>
        /\ Then(r, todo) /\ (todo = Scheduled(p, q, c) \/ todo = <<>>)
  BY <1>1
<1>3. PICK f : f = InFlight(todo, None)
  OBVIOUS
<1>4. f.todo = todo /\ Moved(r, f)
  BY <1>2, <1>3, InFlightIs, ThenMoves
<1>5. todo \in Seq(News)
  BY <1>2, NewsLists, EmptySeq
<1>6. \A x, y : todo # Picking(x, y) /\ todo # Sending(x, y, TRUE)
  BY <1>5, NewsDiffers
<1>7. flight[r] # Landed
  BY <1>2, ChoosingShape DEF Landed
<1>8. Alone /\ UNCHANGED <<offered, picked, overlapped, talk>>
  BY <1>2 DEF ListInv, history
<1>9. ASSUME ~overlapped', NEW x \in Player
      PROVE  picked'[x] <= offered'[x] /\ (talk'[x].offer # {} => Unused(x)')
  <2>1. picked[x] <= offered[x] /\ (talk[x].offer # {} => picked[x] < offered[x])
    BY <1>8, <1>9 DEF ListInv, ListUnused, Unused
  <2> QED
    BY <1>8, <2>1 DEF Unused
<1> QED
  BY <1>4, <1>6, <1>7, <1>8, <1>9, ListMove

(* A read keeps lists unused.                                              *)
LEMMA FindListed ==
    ASSUME TalkTyped, ListInv, NEW r \in Route, FindRow(r)
    PROVE  ListInv'
<1>1. PICK copy : /\ flight[r].todo # <<>> /\ flight' = [flight EXCEPT ![r].copy = copy]
                  /\ UNCHANGED <<vars, talk, history>>
  BY FindDoes
<1>2. PICK todo, f : todo = flight[r].todo /\ f = InFlight(todo, copy)
  OBVIOUS
<1>3. f.todo = todo /\ Moved(r, f)
  BY <1>1, <1>2, InFlightIs, FindMoves
<1>4. flight[r] # Landed /\ UNCHANGED <<offered, picked, overlapped, talk>>
  BY <1>1 DEF Landed, history
<1>5. Alone
  BY DEF ListInv
<1>6. ~overlapped =>
        /\ \A p \in Player : picked[p] <= offered[p] /\ (talk[p].offer # {} => Unused(p))
        /\ \A p \in Player, q \in Player :
             /\ todo = Picking(p, q) => Unused(p)
             /\ todo = Sending(p, q, TRUE) => Unused(p) /\ talk[p].offer = {}
  BY <1>2 DEF ListInv, ListUnused
<1> QED
  BY <1>3, <1>4, <1>5, <1>6, ListMove DEF Unused

(* What a save leaves of the lists: the clearing of a picked list comes    *)
(* before its challenge, and a list that is shown is counted with its save.*)
LEMMA SaveListed ==
    ASSUME TalkTyped, ListInv, NEW r \in Route, SaveRow(r)
    PROVE  ListInv'
<1>1. PICK step, copy :
        /\ flight[r].todo # <<>> /\ step = Head(flight[r].todo) /\ WritesRow(step)
        /\ step.who \in Player /\ copy # None /\ IsCopyFor(copy, step)
        /\ UNCHANGED <<picked, overlapped>>
        /\ \/ Then(r, <<>>) /\ UNCHANGED <<talk, offered>>
           \/ /\ Then(r, Tail(flight[r].todo))
              /\ talk' = [talk EXCEPT ![step.who] = copy.row]
              /\ offered' = IF step.do = "updateContext" /\ step.offer # {}
                            THEN [offered EXCEPT ![step.who] = @ + 1] ELSE offered
  BY SaveDoes
<1>2. flight[r] # Landed /\ Alone
  BY <1>1 DEF Landed, ListInv
<1>3. ASSUME ~overlapped
      PROVE  /\ \A p \in Player : /\ picked[p] \in Nat /\ offered[p] \in Nat
                                  /\ picked[p] <= offered[p]
                                  /\ talk[p].offer # {} => picked[p] < offered[p]
             /\ \A p \in Player, q \in Player :
                  flight[r].todo = Picking(p, q) => picked[p] < offered[p]
  BY <1>3 DEF ListInv, ListUnused, Unused, TalkTyped, RouterTypes
<1>4. CASE Then(r, <<>>) /\ UNCHANGED <<talk, offered>>
  <2>1. PICK f : f = InFlight(<<>>, None)
    OBVIOUS
  <2>2. f.todo = <<>> /\ Moved(r, f)
    BY <1>4, <2>1, InFlightIs, ThenMoves
  <2>3. \A p, q : f.todo # Picking(p, q) /\ f.todo # Sending(p, q, TRUE)
    BY <2>2, ProgramsDiffer
  <2> QED
    BY <1>1, <1>2, <1>3, <1>4, <2>2, <2>3, ListMove DEF Unused
<1>5. ASSUME Then(r, Tail(flight[r].todo)), talk' = [talk EXCEPT ![step.who] = copy.row],
             offered' = IF step.do = "updateContext" /\ step.offer # {}
                        THEN [offered EXCEPT ![step.who] = @ + 1] ELSE offered
      PROVE  ListInv'
  <2>1. PICK who, todo, f : /\ who = step.who /\ todo = Tail(flight[r].todo)
                            /\ f = InFlight(todo, None)
    OBVIOUS
  <2>2. f.todo = todo /\ Moved(r, f)
    BY <1>5, <2>1, InFlightIs, ThenMoves
  <2>3. \A p \in Player : talk'[p] = IF p = who THEN copy.row ELSE talk[p]
    BY <1>5, <2>1 DEF TalkTyped, RouterTypes
  <2>4. ASSUME flight[r].todo \in Seq(News), step \in News, todo \in Seq(News) PROVE ListInv'
    <3>1. step.do = "setState" /\ copy.row.offer = {}
      BY <1>1, <2>4, NewsFields DEF IsCopyFor
    <3>2. offered' = offered
      BY <1>5, <3>1
    <3>3. \A p, q : todo # Picking(p, q) /\ todo # Sending(p, q, TRUE)
      BY <2>4, NewsDiffers
    <3>4. ~overlapped => \A x \in Player : /\ picked[x] <= offered'[x]
                                           /\ talk'[x].offer # {} => picked[x] < offered'[x]
      BY <1>3, <2>3, <3>1, <3>2
    <3> QED
      BY <1>1, <1>2, <2>2, <3>3, <3>4, ListMove DEF Unused
  <2>5. ASSUME NEW p \in Player, NEW offer \in (SUBSET Player) \ {{}},
               step = SetOffer(p, offer), todo = <<>>
        PROVE  ListInv'
    <3>1. step.do = "updateContext" /\ step.who = p /\ step.offer = offer /\ offer # {}
      BY <2>5, OfferFields
    <3>2. \A x \in Player : offered'[x] = IF x = p THEN offered[x] + 1 ELSE offered[x]
      BY <1>5, <3>1 DEF TalkTyped, RouterTypes
    <3>3. \A x, y : todo # Picking(x, y) /\ todo # Sending(x, y, TRUE)
      BY <2>5, ProgramsDiffer
    <3>4. ~overlapped => \A x \in Player : /\ picked[x] <= offered'[x]
                                           /\ talk'[x].offer # {} => picked[x] < offered'[x]
      BY <1>3, <2>1, <2>3, <3>1, <3>2
    <3> QED
      BY <1>1, <1>2, <2>2, <3>3, <3>4, ListMove DEF Unused
  <2>6. ASSUME NEW p \in Player, NEW q \in Player, flight[r].todo = Picking(p, q),
               step = SetOffer(p, {}), todo = Sending(p, q, TRUE)
        PROVE  ListInv'
    <3>1. step.do = "updateContext" /\ step.who = p /\ step.offer = {}
      BY <2>6, OfferFields
    <3>2. copy.row.offer = {} /\ offered' = offered /\ who = p
      BY <1>1, <1>5, <2>1, <3>1 DEF IsCopyFor
    <3>3. ASSUME NEW x, NEW y
          PROVE  todo # Picking(x, y) /\ (todo = Sending(x, y, TRUE) => x = p)
      <4>1. Sending(p, q, TRUE) # Picking(x, y)
        BY CallsDiffer
      <4>2. /\ Head(Sending(p, q, TRUE)) = CreateFor(p, q, TRUE)
            /\ Head(Sending(x, y, TRUE)) = CreateFor(x, y, TRUE)
        BY SendingShape
      <4>3. CreateFor(p, q, TRUE).who = p /\ CreateFor(x, y, TRUE).who = x
        BY DEF CreateFor
      <4>4. Sending(p, q, TRUE) = Sending(x, y, TRUE) => p = x
        BY <4>2, <4>3
      <4> QED
        BY <2>6, <4>1, <4>4
    <3>4. ~overlapped => /\ picked[p] < offered[p]
                         /\ \A x \in Player : talk'[x].offer # {} => picked[x] < offered[x]
      BY <1>3, <2>3, <2>6, <3>2
    <3>5. talk'[p].offer = {}
      BY <2>3, <3>2
    <3> QED
      BY <1>1, <1>2, <1>3, <2>2, <3>2, <3>3, <3>4, <3>5, ListMove DEF Unused
  <2>7. IsFlight(flight[r])
    BY DEF TalkTyped
  <2> QED
    BY <1>1, <2>1, <2>4, <2>5, <2>6, <2>7, WritingCall
<1> QED
  BY <1>1, <1>4, <1>5

(* Every step keeps lists unused.                                          *)
LEMMA ListStep ==
    Ground /\ ListInv /\ [TalkNext]_talkVars => ListInv'
<1> SUFFICES ASSUME TalkTyped, ChainOK, AllBacked, ListInv, [TalkNext]_talkVars PROVE ListInv'
  BY DEF Ground
<1>1. CASE UNCHANGED <<talk, flight, history>>
  BY <1>1 DEF ListInv, Alone, Busy, ListUnused, Unused, history
<1>2. ASSUME NEW failing, Fail(failing) PROVE ListInv'
  <2>1. /\ \A r \in Route : flight'[r] \in {flight[r], Landed}
        /\ UNCHANGED <<talk, offered, picked, overlapped>> /\ Landed.todo = <<>>
    BY <1>2, FailDoes
  <2>2. Alone'
    BY <2>1, AloneFewer DEF ListInv
  <2>3. \A p, q : <<>> # Picking(p, q) /\ <<>> # Sending(p, q, TRUE)
    BY ProgramsDiffer
  <2>4. ListUnused'
    BY <2>1, <2>3 DEF ListInv, ListUnused, Unused
  <2> QED
    BY <2>2, <2>4 DEF ListInv
<1>3. CASE Die \/ \E r \in Route : Throw(r)
  BY <1>2, <1>3 DEF Die, Throw
<1>4. CASE Background \/ (\E c \in Challenge, p \in Player : Silent(c, p)) \/ UNCHANGED talkVars
  BY <1>1, <1>4 DEF Background, Silent, talkVars
<1>5. ASSUME NEW c \in Challenge, ReadCopy(c) \/ SaveChallengeCopy(c) \/ SaveMatchCopy(c)
      PROVE  ListInv'
  BY <1>1, <1>5 DEF ReadCopy, SaveChallengeCopy, SaveMatchCopy
<1> QED
  BY <1>3, <1>4, <1>5, CommandListed, CreateForListed, SelectionListed, FindListed, SaveListed
  DEF TalkNext

(* The first state has no list.                                            *)
LEMMA ListStarts == TalkInit => ListInv
<1> SUFFICES ASSUME TalkInit PROVE ListInv
  OBVIOUS
<1>1. /\ \A r \in Route : flight[r] = Landed
      /\ \A p \in Player : /\ talk[p].offer = {} /\ picked[p] = 0 /\ offered[p] = 0
  BY DEF TalkInit, NoRow
<1>2. \A p, q : Landed.todo # Picking(p, q) /\ Landed.todo # Sending(p, q, TRUE)
  BY ProgramsDiffer DEF Landed
<1>3. Alone
  BY <1>1 DEF Alone, Busy
<1>4. \A p \in Player : talk[p].offer = {} /\ picked[p] <= offered[p]
  BY <1>1
<1>5. ListUnused
  BY <1>1, <1>2, <1>4 DEF ListUnused
<1> QED
  BY <1>3, <1>5 DEF ListInv

(* A player sends no more challenges from lists than lists he was shown,   *)
(* crashes and refusals included, as long as one command runs at a time.   *)
THEOREM ListsAreGoodForOne == TalkSpec => []ListGoodForOne
<1>1. ListInv => ListGoodForOne
  BY DEF ListInv, ListUnused, ListGoodForOne
<1> QED
  BY <1>1, ListStarts, GroundStarts, GroundStep, ListStep, PTL DEF TalkSpec

-----------------------------------------------------------------------------
(* With one command at a time the conversations follow the ladder          *)

(* In turn a copy stays the row it replaces: nobody writes in between.     *)
LEMMA CopyStep ==
    Ground /\ Alone /\ CopyCurrent /\ [TalkNext]_talkVars => CopyCurrent'
<1> SUFFICES ASSUME TalkTyped, ChainOK, AllBacked, Alone, CopyCurrent, [TalkNext]_talkVars
             PROVE  CopyCurrent'
  BY DEF Ground
<1>1. ASSUME NEW r \in Route, NEW f, Moved(r, f), f.copy = None,
             \/ overlapped' = overlapped /\ flight[r] # Landed
             \/ overlapped' = (overlapped \/ Busy # {})
      PROVE  CopyCurrent'
  <2>1. ~overlapped' => \A s \in Route \ {r} : flight[s] = Landed
    BY <1>1, AloneMoved
  <2>2. flight'[r] = f /\ \A s \in Route \ {r} : flight'[s] = flight[s]
    BY <1>1 DEF Moved
  <2>3. ~overlapped' => \A s \in Route : flight'[s].copy = None
    BY <1>1, <2>1, <2>2 DEF Landed
  <2> QED
    BY <2>3 DEF CopyCurrent
<1>2. ASSUME NEW r \in Route, NEW p \in Player, Command(r, p) PROVE CopyCurrent'
  <2>1. PICK todo : Takeoff(r, todo)
    <3>1. CASE Desafio(r, p) \/ SelectPlayer(r, p)
      BY <3>1, DesafioDoes, SelectPlayerDoes
    <3>2. CASE \E c \in Challenge : Accept(r, c, p)
      BY <3>2, AcceptDoes
    <3>3. CASE \E c \in Challenge : Verdict(r, c, p)
      BY <3>3, VerdictDoes
    <3>4. CASE \E o \in Proposal : Select(r, o, p)
      BY <3>4, SelectDoes
    <3> QED
      BY <1>2, <3>1, <3>2, <3>3, <3>4 DEF Command
  <2> QED
    BY <1>1, <2>1, InFlightIs, TakeoffMoves
<1>3. ASSUME NEW r \in Route, CreateChallengeFor(r) PROVE CopyCurrent'
  <2>1. PICK todo, p, q, b : /\ flight[r].todo = Sending(p, q, b) /\ Then(r, todo)
                             /\ overlapped' = overlapped
    BY <1>3, CreateForDoes
  <2>2. flight[r] # Landed
    BY <2>1, SendingShape DEF Landed
  <2> QED
    BY <1>1, <2>1, <2>2, InFlightIs, ThenMoves
<1>4. ASSUME NEW r \in Route, SaveRow(r) PROVE CopyCurrent'
  <2>1. PICK todo : flight[r].todo # <<>> /\ Then(r, todo) /\ overlapped' = overlapped
    BY <1>4, SaveDoes
  <2>2. flight[r] # Landed
    BY <2>1 DEF Landed
  <2> QED
    BY <1>1, <2>1, <2>2, InFlightIs, ThenMoves
<1>5. ASSUME NEW r \in Route, FindRow(r) PROVE CopyCurrent'
  <2>1. PICK step, copy :
          /\ flight[r].todo # <<>> /\ step = Head(flight[r].todo)
          /\ copy = [row |-> NewRow(step, talk[step.who]),
                     insert |-> talk[step.who] = NoRow]
          /\ flight' = [flight EXCEPT ![r].copy = copy]
          /\ UNCHANGED <<vars, talk, history>>
    BY <1>5, FindDoes
  <2>2. PICK todo, f : todo = flight[r].todo /\ f = InFlight(todo, copy)
    OBVIOUS
  <2>3. Moved(r, f) /\ f.todo = todo /\ f.copy = copy
    <3>1. f.todo = todo /\ f.copy = copy
      BY <2>2, InFlightIs
    <3> QED
      BY <2>1, <2>2, <3>1, FindMoves
  <2>4. overlapped' = overlapped /\ flight[r] # Landed /\ talk' = talk
    BY <2>1 DEF Landed, history
  <2>5. ~overlapped' => \A s \in Route \ {r} : flight[s] = Landed
    BY <2>3, <2>4, AloneMoved
  <2>6. flight'[r] = f /\ \A s \in Route \ {r} : flight'[s] = flight[s]
    BY <2>3 DEF Moved
  <2>7. ~overlapped' => \A s \in Route \ {r} : flight'[s].copy = None
    BY <2>5, <2>6 DEF Landed
  <2>8. flight'[r].copy = [row |-> NewRow(step, talk'[step.who]),
                           insert |-> talk'[step.who] = NoRow]
        /\ step = Head(flight'[r].todo)
    BY <2>1, <2>2, <2>3, <2>4, <2>6
  <2> QED
    BY <2>7, <2>8 DEF CopyCurrent
<1>6. ASSUME UNCHANGED <<talk, overlapped>>,
             \A r \in Route : flight'[r] = flight[r] \/ flight'[r].copy = None
      PROVE  CopyCurrent'
  BY <1>6 DEF CopyCurrent
<1>7. CASE Die \/ \E r \in Route : Throw(r)
  BY <1>6, <1>7, FailDoes DEF Die, Throw
<1>8. CASE Background \/ (\E c \in Challenge, p \in Player : Silent(c, p)) \/ UNCHANGED talkVars
  BY <1>6, <1>8 DEF Background, Silent, talkVars, history
<1>9. ASSUME NEW r \in Route, SaveSelection(r) PROVE CopyCurrent'
  <2>1. PICK todo, o, p : /\ flight[r].todo = Choosing(o, p) /\ Then(r, todo)
                          /\ overlapped' = overlapped
    BY <1>9, SelectionDoes DEF history
  <2>2. flight[r] # Landed
    BY <2>1, ChoosingShape DEF Landed
  <2> QED
    BY <1>1, <2>1, <2>2, InFlightIs, ThenMoves
<1>10. ASSUME NEW c \in Challenge, ReadCopy(c) \/ SaveChallengeCopy(c) \/ SaveMatchCopy(c)
       PROVE  CopyCurrent'
  BY <1>6, <1>10 DEF ReadCopy, SaveChallengeCopy, SaveMatchCopy, history
<1> QED
  BY <1>2, <1>3, <1>4, <1>5, <1>7, <1>8, <1>9, <1>10 DEF TalkNext

(* A command without news says nothing of any conversation.                *)
LEMMA NoLastWord ==
    ASSUME NEW todo, todo \notin Seq(News) \/ todo = <<>>, NEW p, NEW row
    PROVE  Mute(todo, p) /\ ~LastWord(todo, p, row)
BY DEF Mute, LastWord

(* What the ladder asks of a row is a matter of the ladder.                *)
LEMMA FollowsSame ==
    ASSUME UNCHANGED vars, NEW p, NEW c, NEW row, Follows(p, c, row)
    PROVE  Follows(p, c, row)'
BY DEF Follows, vars, rows

(* Who plays what is a matter of the challenges.                           *)
LEMMA OnlySame ==
    ASSUME challenge' = challenge, NEW p, NEW c, OnlyIn(p, c)'
    PROVE  OnlyIn(p, c)
BY DEF OnlyIn, Plays

(* The last word a list of news has for a player.                          *)
LEMMA WordOfTwo ==
    ASSUME NEW a \in News, NEW b \in News, NEW p, NEW row
    PROVE  /\ Mute(<<a, b>>, p) => p # a.who /\ p # b.who
           /\ LastWord(<<a, b>>, p, row) => \/ p = b.who /\ row = b.row
                                            \/ p = a.who /\ p # b.who /\ row = a.row
<1>1. PICK todo : todo = <<a, b>>
  OBVIOUS
<1>2. todo \in Seq(News) /\ DOMAIN todo = 1..2 /\ todo[1] = a /\ todo[2] = b
  BY <1>1, ListsOfNews
<1>3. Mute(todo, p) => p # a.who /\ p # b.who
  BY <1>2 DEF Mute
<1>4. LastWord(todo, p, row) => \/ p = b.who /\ row = b.row
                                \/ p = a.who /\ p # b.who /\ row = a.row
  BY <1>2 DEF LastWord
<1> QED
  BY <1>1, <1>3, <1>4

(* The same for one news.                                                  *)
LEMMA WordOfOne ==
    ASSUME NEW a \in News, NEW p, NEW row
    PROVE  /\ Mute(<<a>>, p) => p # a.who
           /\ LastWord(<<a>>, p, row) => p = a.who /\ row = a.row
<1>1. PICK todo : todo = <<a>>
  OBVIOUS
<1>2. todo \in Seq(News) /\ DOMAIN todo = 1..1 /\ todo[1] = a
  BY <1>1, ListsOfNews
<1> QED
  BY <1>1, <1>2 DEF Mute, LastWord

(* The same for three news.                                                *)
LEMMA WordOfThree ==
    ASSUME NEW a \in News, NEW b \in News, NEW d \in News, NEW p, NEW row
    PROVE  /\ Mute(<<a, b, d>>, p) => p # a.who /\ p # b.who /\ p # d.who
           /\ LastWord(<<a, b, d>>, p, row) => row \in {a.row, b.row, d.row}
<1>1. PICK todo : todo = <<a, b, d>>
  OBVIOUS
<1>2. /\ todo \in Seq(News) /\ DOMAIN todo = 1..3
      /\ todo[1] = a /\ todo[2] = b /\ todo[3] = d
  BY <1>1, ListsOfNews
<1> QED
  BY <1>1, <1>2 DEF Mute, LastWord

(* While the others have landed and r has no news, every player's          *)
(* conversation is final; afterwards only r's news can change it.          *)
Silence(r) ==
    /\ \A s \in Route \ {r} : flight[s] = Landed
    /\ flight[r].todo \notin Seq(News) \/ flight[r].todo = <<>>

(* Without news on the way a conversation is final.                        *)
LEMMA FinalNow ==
    ASSUME NEW r \in Route, Silence(r), NEW p
    PROVE  Final(p, talk[p])
<1>1. Landed.todo = <<>>
  BY DEF Landed
<1>2. \A s \in Route : Mute(flight[s].todo, p)
  BY <1>1 DEF Silence, Mute
<1> QED
  BY <1>2 DEF Final

(* After a move the last word is of the news, or nothing is told.          *)
LEMMA FinalAfter ==
    ASSUME NEW r \in Route, \A s \in Route \ {r} : flight[s] = Landed,
           NEW todo, Moved(r, InFlight(todo, None)), NEW p, NEW row, Final(p, row)'
    PROVE  LastWord(todo, p, row) \/ (row = talk'[p] /\ Mute(todo, p))
<1>1. PICK f : f = InFlight(todo, None)
  OBVIOUS
<1>2. /\ f.todo = todo /\ flight'[r] = f
      /\ \A s \in Route \ {r} : flight'[s].todo = <<>>
  BY <1>1, InFlightIs DEF Moved, Landed
<1>3. \A s \in Route : LastWord(flight'[s].todo, p, row) => LastWord(todo, p, row)
  BY <1>2 DEF LastWord
<1> QED
  BY <1>2, <1>3 DEF Final, LastWord, Mute

(* A command, or a call of one, that changes neither the ladder nor a      *)
(* conversation and has no news.                                           *)
LEMMA SilentFollows ==
    ASSUME WillFollow, UNCHANGED <<vars, talk>>, InTurn' => InTurn,
           NEW r \in Route, Silence(r), NEW todo, todo \notin Seq(News) \/ todo = <<>>,
           Moved(r, InFlight(todo, None)), talk \in [Player -> Row]
    PROVE  WillFollow'
<1> SUFFICES ASSUME InTurn', NEW c \in Challenge, NEW p \in Player, NEW row \in Row,
                    OnlyIn(p, c)', Final(p, row)'
             PROVE  Follows(p, c, row)'
  BY DEF WillFollow
<1>1. row = talk[p]
  BY FinalAfter, NoLastWord DEF Silence
<1>2. Final(p, row)
  BY <1>1, FinalNow
<1>3. OnlyIn(p, c)
  BY OnlySame DEF vars, rows
<1>4. Follows(p, c, row)
  BY <1>2, <1>3 DEF WillFollow
<1> QED
  BY <1>4, FollowsSame

(* A step that changes the rows of one challenge and tells its players.    *)
SameRows(c) == /\ challenge'[c] = challenge[c] /\ match'[c] = match[c]
               /\ report'[c] = report[c] /\ dispute'[c] = dispute[c]

(* A conversation follows a challenge whose rows stay.                     *)
LEMMA RowsFollow ==
    ASSUME NEW c, SameRows(c), NEW p, NEW row, Follows(p, c, row)
    PROVE  Follows(p, c, row)'
BY DEF SameRows, Follows

(* It is enough to look at the players of that challenge.                  *)
LEMMA ToldFollows ==
    ASSUME WillFollow, UNCHANGED talk, InTurn' => InTurn, talk \in [Player -> Row],
           NEW r \in Route, Silence(r), NEW todo, Moved(r, InFlight(todo, None)),
           NEW c \in Challenge,
           \A d \in Challenge \ {c} : SameRows(d),
           \A p \in Player : Plays(p, c) => Plays(p, c)',
           \A p \in Player : ~Plays(p, c)' => Mute(todo, p) /\ todo \in Seq(News),
           \A p \in Player, row \in Row :
               /\ Plays(p, c)'
               /\ LastWord(todo, p, row) \/ (Mute(todo, p) /\ row = talk[p])
               => Follows(p, c, row)'
    PROVE  WillFollow'
<1> SUFFICES ASSUME InTurn', NEW d \in Challenge, NEW p \in Player, NEW row \in Row,
                    OnlyIn(p, d)', Final(p, row)'
             PROVE  Follows(p, d, row)'
  BY DEF WillFollow
<1>1. LastWord(todo, p, row) \/ (row = talk[p] /\ Mute(todo, p))
  BY FinalAfter DEF Silence
<1>2. CASE d = c
  BY <1>1, <1>2 DEF OnlyIn
<1>3. CASE d # c
  <2>1. ~Plays(p, c)'
    BY <1>3 DEF OnlyIn
  <2>2. row = talk[p]
    BY <1>1, <2>1 DEF LastWord, Mute
  <2>3. Final(p, row)
    BY <2>2, FinalNow
  <2>4. OnlyIn(p, d)
    <3>1. \A e \in Challenge \ {c} : Plays(p, e) <=> Plays(p, e)'
      BY DEF SameRows, Plays
    <3> QED
      BY <1>3, <2>1, <3>1 DEF OnlyIn
  <2>5. Follows(p, d, row)
    BY <2>3, <2>4 DEF WillFollow
  <2> QED
    BY <1>3, <2>5, RowsFollow
<1> QED
  BY <1>2, <1>3

(* What the rows of a challenge say before it, or its match, is decided.   *)
LEMMA RowsSay ==
    ASSUME LadderOK, NEW c \in Challenge
    PROVE  /\ challenge[c].status # "ACCEPTED" => /\ match[c].status = "none"
                                                  /\ match[c].selected = None
                                                  /\ report[c].status = "none"
                                                  /\ dispute[c] = "none"
           /\ match[c].status = "PENDING_SCHEDULE" => /\ match[c].selected = None
                                                      /\ report[c].status = "none"
                                                      /\ dispute[c] = "none"
           /\ match[c].status # "none" => challenge[c].status = "ACCEPTED"
           /\ report[c].status # "none" => match[c].status # "none"
           /\ report[c].status # "none" => Plays(report[c].reporter, c)
           /\ dispute[c] = "OPEN" => report[c].status = "REJECTED"
           /\ challenge[c].status # "none" => /\ challenge[c].challenger \in Player
                                              /\ challenge[c].challenged \in Player
           /\ challenge[c].status = "none" => /\ challenge[c].challenger = None
                                              /\ challenge[c].challenged = None
<1>1. /\ RowsInOrder /\ DisputeTracksReport /\ SelectionSettled /\ RowsMakeSense
  BY DEF LadderOK, LadderInv
<1>2. match[c].selected # None => match[c].status \notin {"none", "PENDING_SCHEDULE"}
  BY <1>1 DEF SelectionSettled
<1>3. /\ match[c].status # "none" <=> challenge[c].status = "ACCEPTED"
      /\ report[c].status # "none" => match[c].status # "none"
      /\ dispute[c] # "none" => report[c].status # "none"
  BY <1>1 DEF RowsInOrder
<1>4. dispute[c] = "OPEN" => report[c].status = "REJECTED"
  BY <1>1 DEF DisputeTracksReport
<1>5. /\ match[c].status = "PENDING_SCHEDULE" => report[c].status = "none"
      /\ report[c].status # "none" => Plays(report[c].reporter, c)
      /\ challenge[c].status # "none" => /\ challenge[c].challenger \in Player
                                         /\ challenge[c].challenged \in Player
      /\ challenge[c].status = "none" => /\ challenge[c].challenger = None
                                         /\ challenge[c].challenged = None
  BY <1>1 DEF RowsMakeSense
<1> QED
  BY <1>2, <1>3, <1>4, <1>5

(* A new challenge is told to its two players.                             *)
LEMMA CreateFollows ==
    ASSUME LadderOK, WillFollow, UNCHANGED talk, InTurn' => InTurn, talk \in [Player -> Row],
           NEW r \in Route, Silence(r), NEW c \in Challenge, NEW p \in Player, NEW q \in Player,
           CreateChallenge(c, p, q), Moved(r, InFlight(Challenged(p, q, c), None))
    PROVE  WillFollow'
<1>1. PICK a, b, todo :
        /\ a \in News /\ b \in News
        /\ a = SetState(p, "idle", c, None) /\ b = SetState(q, "challenge_received", c, None)
        /\ todo = <<a, b>> /\ todo = Challenged(p, q, c)
  BY NewsTyped DEF FlowState, Challenged
<1>2. /\ a.who = p /\ a.row.challenge = c
      /\ b.who = q /\ b.row.challenge = c /\ b.row.state = "challenge_received"
  BY <1>1 DEF SetState
<1>3. /\ p # q /\ challenge[c].status = "none"
      /\ challenge'[c].challenger = p /\ challenge'[c].challenged = q
      /\ \A d \in Challenge \ {c} : SameRows(d)
      /\ match' = match /\ report' = report /\ dispute' = dispute
  BY DEF CreateChallenge, SameRows, LadderOK, LadderInv, TypeOK
<1>4. \A x \in Player : ~Plays(x, c) /\ (Plays(x, c)' <=> x \in {p, q})
  BY <1>3, RowsSay, NoneAssumption DEF Plays
<1>5. todo \in Seq(News)
  BY <1>1, ListsOfNews
<1>6. ASSUME NEW x \in Player, x \notin {p, q} PROVE Mute(todo, x)
  BY <1>1, <1>2, <1>6 DEF Mute
<1>7. ASSUME NEW x \in Player, NEW row \in Row, x \in {p, q},
             LastWord(todo, x, row) \/ (Mute(todo, x) /\ row = talk[x])
      PROVE  Follows(x, c, row)'
  <2>1. row.challenge = c /\ (x = q => row.state = "challenge_received")
    BY <1>1, <1>2, <1>3, <1>5, <1>7, WordOfTwo
  <2>2. match[c].status = "none" /\ match[c].selected = None /\ dispute[c] = "none"
    BY <1>3, RowsSay
  <2> QED
    BY <1>3, <2>1, <2>2 DEF Follows
<1> QED
  BY <1>1, <1>3, <1>4, <1>5, <1>6, <1>7, ToldFollows

(* Both players are told to schedule the match.                            *)
LEMMA AcceptFollows ==
    ASSUME LadderOK, WillFollow, UNCHANGED talk, InTurn' => InTurn, talk \in [Player -> Row],
           NEW r \in Route, Silence(r), NEW c \in Challenge, NEW p \in Player, NEW q \in Player,
           AcceptChallenge(c, p), challenge[c].challenger = q,
           Moved(r, InFlight(Accepted(p, q, c), None))
    PROVE  WillFollow'
<1>1. PICK a, b, todo :
        /\ a \in News /\ b \in News
        /\ a = SetState(p, "awaiting_schedule", None, c)
        /\ b = SetState(q, "awaiting_schedule", None, c)
        /\ todo = <<a, b>> /\ todo = Accepted(p, q, c)
  BY NewsTyped DEF FlowState, Accepted
<1>2. /\ a.who = p /\ a.row.match = c /\ a.row.state = "awaiting_schedule"
      /\ b.who = q /\ b.row.match = c /\ b.row.state = "awaiting_schedule"
  BY <1>1 DEF SetState
<1>3. /\ challenge[c].status = "PENDING" /\ challenge[c].challenged = p
      /\ challenge'[c].status = "ACCEPTED"
      /\ challenge'[c].challenger = q /\ challenge'[c].challenged = p
      /\ match'[c].selected = match[c].selected
      /\ \A d \in Challenge \ {c} : SameRows(d)
      /\ report' = report /\ dispute' = dispute
  BY DEF AcceptChallenge, SameRows, LadderOK, LadderInv, TypeOK, ChallengeRow, MatchRow
<1>4. \A x \in Player : (Plays(x, c) <=> x \in {p, q}) /\ (Plays(x, c)' <=> x \in {p, q})
  BY <1>3 DEF Plays
<1>5. todo \in Seq(News)
  BY <1>1, ListsOfNews
<1>6. ASSUME NEW x \in Player, x \notin {p, q} PROVE Mute(todo, x)
  BY <1>1, <1>2, <1>6 DEF Mute
<1>7. ASSUME NEW x \in Player, NEW row \in Row, x \in {p, q},
             LastWord(todo, x, row) \/ (Mute(todo, x) /\ row = talk[x])
      PROVE  Follows(x, c, row)'
  <2>1. row.match = c /\ row.state = "awaiting_schedule"
    BY <1>1, <1>2, <1>5, <1>7, WordOfTwo
  <2>2. match[c].selected = None /\ dispute[c] = "none"
    BY <1>3, RowsSay
  <2> QED
    BY <1>3, <2>1, <2>2 DEF Follows
<1> QED
  BY <1>1, <1>3, <1>4, <1>5, <1>6, <1>7, ToldFollows

(* Both players are told to report the result.                             *)
LEMMA SelectFollows ==
    ASSUME LadderOK, WillFollow, UNCHANGED talk, InTurn' => InTurn, talk \in [Player -> Row],
           NEW r \in Route, Silence(r), NEW c \in Challenge, NEW p \in Player, NEW q \in Player,
           NEW o \in Proposal, SelectOption(o, p), c = proposal[o].match,
           challenge[c].challenged = p, challenge[c].challenger = q,
           Moved(r, InFlight(Scheduled(p, q, c), None))
    PROVE  WillFollow'
<1>1. PICK a, b, todo :
        /\ a \in News /\ b \in News
        /\ a = Played(p, c) /\ b = Played(q, c)
        /\ todo = <<a, b, a>> /\ todo = Scheduled(p, q, c)
  <2>1. Played(p, c) \in News /\ Played(q, c) \in News
    BY NewsTyped DEF FlowState, Played
  <2> QED
    BY <2>1 DEF Scheduled
<1>2. /\ a.who = p /\ a.row.match = c /\ a.row.state = "awaiting_result_confirmation"
      /\ b.who = q /\ b.row.match = c /\ b.row.state = "awaiting_result_confirmation"
  BY <1>1 DEF SetState, Played
<1>3. /\ match[c].status = "PENDING_SCHEDULE" /\ match'[c].status = "SCHEDULED"
      /\ \A d \in Challenge \ {c} : SameRows(d)
      /\ challenge' = challenge /\ report' = report /\ dispute' = dispute
  BY DEF SelectOption, SameRows, LadderOK, LadderInv, TypeOK
<1>4. \A x \in Player : (Plays(x, c) <=> x \in {p, q}) /\ (Plays(x, c)' <=> x \in {p, q})
  BY <1>3 DEF Plays
<1>5. todo \in Seq(News)
  BY <1>1, ListsOfNews
<1>6. ASSUME NEW x \in Player, x \notin {p, q} PROVE Mute(todo, x)
  BY <1>1, <1>2, <1>6 DEF Mute
<1>7. ASSUME NEW x \in Player, NEW row \in Row, x \in {p, q},
             LastWord(todo, x, row) \/ (Mute(todo, x) /\ row = talk[x])
      PROVE  Follows(x, c, row)'
  <2>1. row.match = c /\ row.state = "awaiting_result_confirmation"
    BY <1>1, <1>2, <1>5, <1>7, WordOfThree
  <2>2. challenge[c].status = "ACCEPTED" /\ dispute[c] = "none"
    BY <1>3, RowsSay
  <2> QED
    BY <1>3, <2>1, <2>2 DEF Follows
<1> QED
  BY <1>1, <1>3, <1>4, <1>5, <1>6, <1>7, ToldFollows

(* A verdict ends the match or opens its dispute: whoever reported waits   *)
(* for nothing the documents name, and a rejection is told to its author.  *)
LEMMA VerdictFollows ==
    ASSUME LadderOK, WillFollow, UNCHANGED talk, InTurn' => InTurn, talk \in [Player -> Row],
           NEW r \in Route, Silence(r), NEW c \in Challenge, NEW p \in Player, NEW state,
           state \in FlowState, report[c].status # "none",
           Opponent(c, report[c].reporter) = p,
           ConfirmResult(c, p) \/ (RejectResult(c, p) /\ state = "disputed"),
           Moved(r, InFlight(Judged(p, state), None))
    PROVE  WillFollow'
<1>1. PICK a, todo :
        /\ a \in News
        /\ a = SetState(p, state, None, None) /\ todo = <<a>> /\ todo = Judged(p, state)
  BY NewsTyped DEF Judged
<1>2. a.who = p /\ a.row.state = state
  BY <1>1 DEF SetState
<1>3. /\ report[c].status = "PENDING_CONFIRMATION"
      /\ challenge' = challenge /\ report'[c].reporter = report[c].reporter
      /\ report'[c].status # "none" /\ match'[c].status \in {"CLOSED", "DISPUTED"}
      /\ \A d \in Challenge \ {c} : SameRows(d)
      /\ dispute' = dispute \/ state = "disputed"
  BY DEF ConfirmResult, RejectResult, SameRows, LadderOK, LadderInv, TypeOK, MatchRow,
         ReportRow, AwardPoints
<1>4. \A x \in Player : Plays(x, c) <=> Plays(x, c)'
  BY <1>3 DEF Plays
<1>5. todo \in Seq(News)
  BY <1>1, ListsOfNews
<1>6. Plays(p, c) /\ \A x \in Player : Plays(x, c) => x \in {p, report[c].reporter}
  BY RowsSay DEF Plays, Opponent
<1>7. ASSUME NEW x \in Player, x # p PROVE Mute(todo, x)
  BY <1>1, <1>2, <1>7 DEF Mute
<1>8. ASSUME NEW x \in Player, NEW row \in Row, Plays(x, c),
             LastWord(todo, x, row) \/ (Mute(todo, x) /\ row = talk[x])
      PROVE  Follows(x, c, row)'
  <2>1. x = p => row.state = state
    BY <1>1, <1>2, <1>5, <1>8, WordOfOne
  <2>2. challenge[c].status # "PENDING" /\ dispute[c] # "OPEN"
    BY <1>3, RowsSay
  <2>3. dispute'[c] = "OPEN" /\ report'[c].reporter # x => row.state = "disputed"
    BY <1>3, <1>6, <1>8, <2>1, <2>2
  <2> QED
    BY <1>3, <2>2, <2>3 DEF Follows
<1> QED
  BY <1>1, <1>3, <1>4, <1>5, <1>6, <1>7, <1>8, ToldFollows

(* A player's command, once it has taken off in turn.                      *)
LEMMA CommandFollows ==
    ASSUME TalkTyped, ChainOK, LadderOK, ~interleaved, Alone, WillFollow,
           NEW r \in Route, NEW p \in Player, Command(r, p)
    PROVE  WillFollow'
<1> SUFFICES ASSUME InTurn' PROVE WillFollow'
  BY DEF WillFollow
<1>1. ASSUME NEW todo, Takeoff(r, todo)
      PROVE  /\ InTurn /\ Silence(r) /\ talk \in [Player -> Row] /\ Queue # "flaky"
             /\ Moved(r, InFlight(todo, None))
  <2>1. PICK f : f = InFlight(todo, None)
    OBVIOUS
  <2>2. Moved(r, f) /\ flight[r].todo = <<>> /\ UNCHANGED failures
        /\ overlapped' = (overlapped \/ Busy # {})
    BY <1>1, <2>1, TakeoffMoves
  <2>3. ~overlapped /\ \A s \in Route \ {r} : flight[s] = Landed
    BY <2>2, AloneMoved DEF InTurn
  <2> QED
    BY <2>1, <2>2, <2>3 DEF InTurn, Silence, TalkTyped, RouterTypes
<1>2. CASE Desafio(r, p) \/ SelectPlayer(r, p) \/ \E o \in Proposal : Select(r, o, p)
  <2>1. PICK todo : /\ Takeoff(r, todo) /\ UNCHANGED <<vars, talk>>
                    /\ \/ \E q \in Player : todo = Sending(p, q, FALSE)
                       \/ \E offer \in (SUBSET Player) \ {{}} : todo = Offering(p, offer)
                       \/ \E q \in Player : todo = Picking(p, q)
                       \/ \E o \in Proposal : todo = Choosing(o, p)
    BY <1>2, DesafioDoes, SelectPlayerDoes, SelectDoes
  <2>2. todo \notin Seq(News)
    BY <2>1, SendingShape, OfferingShape, PickingShape, ChoosingShape
  <2> QED
    BY <1>1, <2>1, <2>2, SilentFollows
<1>3. ASSUME NEW c \in Challenge, Accept(r, c, p) PROVE WillFollow'
  <2>1. PICK q, todo : /\ AcceptChallenge(c, p) /\ UNCHANGED talk
                       /\ challenge[c].challenger = q /\ q \in Player
                       /\ Takeoff(r, todo)
                       /\ (todo = <<>> /\ Queue = "flaky") \/ todo = Accepted(p, q, c)
    BY <1>3, AcceptDoes
  <2> QED
    BY <1>1, <2>1, AcceptFollows
<1>4. ASSUME NEW c \in Challenge, Verdict(r, c, p) PROVE WillFollow'
  <2>1. PICK state : /\ state \in FlowState
                     /\ ConfirmResult(c, p) \/ (RejectResult(c, p) /\ state = "disputed")
                     /\ Takeoff(r, Judged(p, state)) /\ UNCHANGED talk
                     /\ report[c].status # "none" /\ Opponent(c, report[c].reporter) = p
    BY <1>4, VerdictDoes DEF FlowState
  <2> QED
    BY <1>1, <2>1, VerdictFollows
<1> QED
  BY <1>2, <1>3, <1>4 DEF Command

(* createChallengeFor, with a challenge or a refusal.                      *)
LEMMA CreateForFollows ==
    ASSUME TalkTyped, LadderOK, ~interleaved, Alone, WillFollow,
           NEW r \in Route, CreateChallengeFor(r)
    PROVE  WillFollow'
<1> SUFFICES ASSUME InTurn' PROVE WillFollow'
  BY DEF WillFollow
<1>1. PICK p \in Player, q \in Player, b \in BOOLEAN : \E todo :
        /\ flight[r].todo = Sending(p, q, b) /\ Then(r, todo)
        /\ UNCHANGED <<talk, overlapped, failures>>
        /\ \/ UNCHANGED vars /\ todo = <<>>
           \/ \E c \in Challenge : /\ CreateChallenge(c, p, q)
                                   /\ \/ todo = <<>> /\ Queue = "flaky"
                                      \/ todo = Challenged(p, q, c)
  BY CreateForDoes
<1>2. PICK todo :
        /\ flight[r].todo = Sending(p, q, b) /\ Then(r, todo)
        /\ UNCHANGED <<talk, overlapped, failures>>
        /\ \/ UNCHANGED vars /\ todo = <<>>
           \/ \E c \in Challenge : /\ CreateChallenge(c, p, q)
                                   /\ \/ todo = <<>> /\ Queue = "flaky"
                                      \/ todo = Challenged(p, q, c)
  BY <1>1
<1>3. PICK f : f = InFlight(todo, None)
  OBVIOUS
<1>4. Moved(r, f)
  BY <1>2, <1>3, ThenMoves
<1>5. flight[r] # Landed /\ flight[r].todo \notin Seq(News)
  BY <1>2, SendingShape DEF Landed
<1>6. InTurn /\ Queue # "flaky"
  BY <1>2 DEF InTurn
<1>7. Silence(r)
  BY <1>2, <1>4, <1>5, <1>6, AloneMoved DEF InTurn, Silence
<1>8. talk \in [Player -> Row]
  BY DEF TalkTyped, RouterTypes
<1>9. CASE UNCHANGED vars /\ todo = <<>>
  BY <1>2, <1>3, <1>4, <1>6, <1>7, <1>8, <1>9, SilentFollows
<1>10. ASSUME NEW c \in Challenge, CreateChallenge(c, p, q), todo = Challenged(p, q, c)
       PROVE  WillFollow'
  BY <1>2, <1>3, <1>4, <1>6, <1>7, <1>8, <1>10, CreateFollows
<1> QED
  BY <1>2, <1>6, <1>9, <1>10

(* The rest of selectOption, on a match that still waits for it.           *)
LEMMA SelectionFollows ==
    ASSUME TalkTyped, ChainOK, AllBacked, LadderOK, ~interleaved,
           \A c \in Challenge : held[c] = NoCopy,
           Alone, WillFollow, NEW r \in Route, SaveSelection(r)
    PROVE  WillFollow'
<1> SUFFICES ASSUME InTurn' PROVE WillFollow'
  BY DEF WillFollow
<1>1. PICK o \in Proposal, p \in Player, c \in Challenge, q \in Player :
        /\ flight[r].todo = Choosing(o, p) /\ c = proposal[o].match /\ p # q
        /\ challenge[c].challenged = p /\ challenge[c].challenger = q
        /\ proposal[o].status # "none"
        /\ Selects(o, c) /\ UNCHANGED <<talk, held, history>>
        /\ interleaved' = (interleaved \/ match[c].status # "PENDING_SCHEDULE")
        /\ Then(r, Scheduled(p, q, c))
  BY SelectionDoes
<1>2. match[c].status = "PENDING_SCHEDULE"
  BY <1>1 DEF InTurn
<1>3. SelectOption(o, p)
  BY <1>1, <1>2 DEF SelectOption, Selects
<1>4. Moved(r, InFlight(Scheduled(p, q, c), None))
  BY <1>1, ThenMoves
<1>5. PICK f : f = InFlight(Scheduled(p, q, c), None)
  OBVIOUS
<1>6. flight[r] # Landed /\ flight[r].todo \notin Seq(News)
  BY <1>1, ChoosingShape DEF Landed
<1>7. InTurn
  BY <1>1 DEF InTurn, history
<1>8. UNCHANGED <<talk, overlapped>>
  BY <1>1 DEF history
<1>9. Silence(r)
  BY <1>4, <1>5, <1>6, <1>7, <1>8, AloneMoved DEF InTurn, Silence
<1>10. talk \in [Player -> Row]
  BY DEF TalkTyped, RouterTypes
<1> QED
  BY <1>1, <1>3, <1>4, <1>7, <1>8, <1>9, <1>10, SelectFollows

(* A read keeps what is final; a save makes a row of the list final, or an *)
(* updateContext that keeps the state and the ids of the row it found.     *)
LEMMA FindFollows ==
    ASSUME TalkTyped, ~interleaved, WillFollow, NEW r \in Route, FindRow(r)
    PROVE  WillFollow'
<1>1. PICK copy : /\ flight' = [flight EXCEPT ![r].copy = copy]
                  /\ UNCHANGED <<vars, talk, history>>
  BY FindDoes
<1>2. PICK todo, f : todo = flight[r].todo /\ f = InFlight(todo, copy)
  OBVIOUS
<1>3. f.todo = todo
  BY <1>2, InFlightIs
<1>4. Moved(r, f)
  BY <1>1, <1>2, FindMoves
<1>5. \A s \in Route : flight'[s].todo = flight[s].todo
  BY <1>2, <1>3, <1>4 DEF Moved
<1>6. ASSUME NEW p \in Player, NEW row \in Row, Final(p, row)' PROVE Final(p, row)
  BY <1>1, <1>5, <1>6 DEF Final
<1>7. InTurn' => InTurn
  BY <1>1 DEF InTurn, history
<1>8. challenge' = challenge
  BY <1>1 DEF vars, rows
<1> SUFFICES ASSUME InTurn', NEW c \in Challenge, NEW p \in Player, NEW row \in Row,
                    OnlyIn(p, c)', Final(p, row)'
             PROVE  Follows(p, c, row)'
  BY DEF WillFollow
<1>9. Follows(p, c, row)
  BY <1>6, <1>7, <1>8, OnlySame DEF WillFollow
<1> QED
  BY <1>1, <1>9, FollowsSame

(* What a save writes is what was to come.                                 *)
LEMMA SaveFollows ==
    ASSUME TalkTyped, ~interleaved, Alone, CopyCurrent, WillFollow,
           NEW r \in Route, SaveRow(r)
    PROVE  WillFollow'
<1> SUFFICES ASSUME InTurn' PROVE WillFollow'
  BY DEF WillFollow
<1>1. PICK step, copy :
        /\ flight[r].todo # <<>> /\ step = Head(flight[r].todo) /\ WritesRow(step)
        /\ step.who \in Player /\ copy = flight[r].copy /\ copy # None
        /\ UNCHANGED <<vars, overlapped, failures>>
        /\ \/ copy.insert /\ talk[step.who] # NoRow /\ \E todo : Then(r, todo)
           \/ /\ Then(r, Tail(flight[r].todo))
              /\ talk' = [talk EXCEPT ![step.who] = copy.row]
  BY SaveDoes
<1>2. PICK who, todo, rest : /\ who = step.who /\ todo = flight[r].todo
                             /\ rest = Tail(todo)
  OBVIOUS
<1>3. InTurn
  BY <1>1 DEF InTurn
<1>4. talk \in [Player -> Row] /\ IsFlight(flight[r])
  BY DEF TalkTyped, RouterTypes
<1>5. copy = [row |-> NewRow(step, talk[who]), insert |-> talk[who] = NoRow]
  BY <1>1, <1>2, <1>3 DEF CopyCurrent, InTurn
<1>6. copy.row = NewRow(step, talk[who]) /\ (copy.insert <=> talk[who] = NoRow)
  BY <1>5
<1>7. Then(r, rest) /\ \A x \in Player : talk'[x] = IF x = who THEN copy.row ELSE talk[x]
  BY <1>1, <1>2, <1>4, <1>6
<1>8. PICK f : f = InFlight(rest, None)
  OBVIOUS
<1>9. Moved(r, f)
  BY <1>7, <1>8, ThenMoves
<1>10. \A s \in Route \ {r} : flight[s] = Landed
  <2>1. flight[r] # Landed
    BY <1>1 DEF Landed
  <2> QED
    BY <1>1, <1>3, <1>9, <2>1, AloneMoved DEF InTurn
<1> SUFFICES ASSUME NEW c \in Challenge, NEW p \in Player, NEW row \in Row,
                    OnlyIn(p, c)', Final(p, row)'
             PROVE  Follows(p, c, row)'
  BY DEF WillFollow
<1>11. LastWord(rest, p, row) \/ (row = talk'[p] /\ Mute(rest, p))
  BY <1>8, <1>9, <1>10, FinalAfter
<1>12. OnlyIn(p, c)
  BY <1>1, OnlySame DEF vars, rows
<1>13. CASE todo \in Seq(News) /\ step \in News /\ rest \in Seq(News)
  <2>1. /\ \A i \in DOMAIN rest : i + 1 \in DOMAIN todo /\ rest[i] = todo[i + 1]
        /\ \A i \in DOMAIN todo : i = 1 \/ (i - 1 \in DOMAIN rest /\ todo[i] = rest[i - 1])
        /\ 1 \in DOMAIN todo /\ todo[1] = step
        /\ DOMAIN todo \subseteq Nat \ {0} /\ DOMAIN rest \subseteq Nat \ {0}
    BY <1>1, <1>2, <1>13, HeadTailProperties
  <2>2. ASSUME LastWord(rest, p, row) PROVE Final(p, row)
    <3>1. PICK i \in DOMAIN rest : /\ rest[i].who = p /\ rest[i].row = row
                                   /\ \A j \in DOMAIN rest : j > i => rest[j].who # p
      BY <2>2 DEF LastWord
    <3>2. PICK k : k = i + 1
      OBVIOUS
    <3>3. k \in DOMAIN todo /\ todo[k].who = p /\ todo[k].row = row
      BY <2>1, <3>1, <3>2
    <3>4. ASSUME NEW j \in DOMAIN todo, j > k PROVE todo[j].who # p
      <4>1. PICK d : d = j - 1
        OBVIOUS
      <4>2. i \in Nat \ {0} /\ j \in Nat /\ d > i /\ j # 1
        BY <2>1, <3>2, <3>4, <4>1
      <4>3. d \in DOMAIN rest /\ todo[j] = rest[d]
        BY <2>1, <4>1, <4>2
      <4> QED
        BY <3>1, <4>2, <4>3
    <3>5. LastWord(todo, p, row)
      BY <1>13, <3>3, <3>4 DEF LastWord
    <3> QED
      BY <1>2, <3>5 DEF Final
  <2>3. ASSUME row = talk'[p], Mute(rest, p), p = who PROVE Final(p, row)
    <3>1. row = step.row
      BY <1>6, <1>7, <1>13, <2>3, NewsFields DEF NewRow
    <3>2. ASSUME NEW j \in DOMAIN todo, j > 1 PROVE todo[j].who # p
      <4>1. PICK d : d = j - 1
        OBVIOUS
      <4>2. d \in DOMAIN rest /\ todo[j] = rest[d]
        BY <2>1, <3>2, <4>1
      <4> QED
        BY <1>13, <2>3, <4>2 DEF Mute
    <3>3. LastWord(todo, p, row)
      BY <1>2, <1>13, <2>1, <2>3, <3>1, <3>2 DEF LastWord
    <3> QED
      BY <1>2, <3>3 DEF Final
  <2>4. ASSUME row = talk'[p], Mute(rest, p), p # who PROVE Final(p, row)
    <3>1. row = talk[p]
      BY <1>7, <2>4
    <3>2. step.who # p
      BY <1>2, <2>4
    <3>3. ASSUME NEW i \in DOMAIN todo PROVE todo[i].who # p
      <4>1. i = 1 \/ (i - 1 \in DOMAIN rest /\ todo[i] = rest[i - 1])
        BY <2>1
      <4> QED
        BY <1>13, <2>1, <2>4, <3>2, <4>1 DEF Mute
    <3>4. Mute(todo, p)
      BY <3>3 DEF Mute
    <3>5. Mute(Landed.todo, p)
      BY DEF Mute, Landed
    <3> QED
      BY <1>2, <1>10, <3>1, <3>4, <3>5 DEF Final
  <2>5. Final(p, row)
    BY <1>11, <2>2, <2>3, <2>4
  <2>6. Follows(p, c, row)
    BY <1>3, <1>12, <2>5 DEF WillFollow
  <2> QED
    BY <1>1, <2>6, FollowsSame
<1>14. CASE /\ todo \notin Seq(News) /\ step.do = "updateContext" /\ step.offer \in SUBSET Player
            /\ rest \notin Seq(News) \/ rest = <<>>
  <2>1. row = talk'[p]
    BY <1>11, <1>14, NoLastWord
  <2>2. Silence(r)
    BY <1>2, <1>10, <1>14 DEF Silence
  <2>3. Follows(p, c, talk[p])
    BY <1>3, <1>4, <1>12, <2>2, FinalNow DEF WillFollow
  <2>4. CASE p # who
    BY <1>1, <1>7, <2>1, <2>3, <2>4, FollowsSame
  <2>5. CASE p = who
    <3>1. row = NewRow(step, talk[p]) /\ talk[p] \in Row
      BY <1>4, <1>6, <1>7, <2>1, <2>5
    <3>2. /\ row.challenge = talk[p].challenge /\ row.match = talk[p].match
          /\ row.state = IF talk[p].state = "none" THEN "idle" ELSE talk[p].state
      BY <1>14, <3>1, NewRowIs DEF WritesRow
    <3>3. Follows(p, c, row)
      BY <2>3, <3>2 DEF Follows
    <3> QED
      BY <1>1, <3>3, FollowsSame
  <2> QED
    BY <2>4, <2>5
<1> QED
  <2>1. CASE todo \in Seq(News)
    BY <1>1, <1>2, <1>4, <1>13, <2>1, HeadTailProperties
  <2>2. ASSUME NEW x \in Player, NEW offer \in (SUBSET Player) \ {{}},
               todo = Offering(x, offer), step = SetOffer(x, offer), rest = <<>>
        PROVE  Follows(p, c, row)'
    BY <1>14, <2>2, OfferingShape, OfferFields
  <2>3. ASSUME NEW x \in Player, NEW q \in Player, todo = Picking(x, q),
               step = SetOffer(x, {}), rest = Sending(x, q, TRUE)
        PROVE  Follows(p, c, row)'
    <3>1. todo \notin Seq(News) /\ rest \notin Seq(News)
      BY <2>3, PickingShape, SendingShape
    <3>2. step.do = "updateContext" /\ step.offer = {}
      BY <2>3, OfferFields
    <3> QED
      BY <1>14, <3>1, <3>2
  <2> QED
    BY <1>1, <1>2, <1>4, <2>1, <2>2, <2>3, WritingCall

(* A step that tells nobody only takes from what a challenge, a match or a *)
(* dispute asks for.                                                       *)
AsksLess ==
    \A c \in Challenge :
        /\ challenge'[c].challenger = challenge[c].challenger
        /\ challenge'[c].challenged = challenge[c].challenged
        /\ challenge'[c].status = "PENDING" => challenge[c].status = "PENDING"
        /\ match'[c].status = "PENDING_SCHEDULE" => match[c].status = "PENDING_SCHEDULE"
        /\ match'[c].selected # None /\ report'[c].status = "none" =>
              match[c].selected # None /\ report[c].status = "none"
        /\ dispute'[c] = "OPEN" => /\ dispute[c] = "OPEN"
                                   /\ report'[c].reporter = report[c].reporter

(* What jobs, admins and the untold commands do.                           *)
LEMMA QuietAsksLess ==
    ASSUME LadderOK,
           Background \/ (\E c \in Challenge, p \in Player : Silent(c, p)) \/ UNCHANGED talkVars
    PROVE  AsksLess
<1> USE DEF AsksLess, LadderOK, LadderInv, TypeOK, ChallengeRow, MatchRow, ReportRow, RowsInOrder,
            rows, limits, jobs, score
<1>1. ASSUME NEW c \in Challenge, NEW p \in Player, RejectChallenge(c, p) PROVE AsksLess
  BY <1>1 DEF RejectChallenge
<1>2. ASSUME NEW c \in Challenge, NEW p \in Player, NEW o \in Proposal, ProposeSchedule(c, p,
         o) PROVE AsksLess
  BY <1>2 DEF ProposeSchedule
<1>3. ASSUME NEW c \in Challenge, NEW p \in Player, ReportResult(c, p) PROVE AsksLess
  BY <1>3 DEF ReportResult
<1>4. ASSUME NEW c \in Challenge, PassExpiry(c) PROVE AsksLess
  BY <1>4 DEF PassExpiry
<1>5. ASSUME NEW c \in Challenge, ExpireChallenge(c) PROVE AsksLess
  BY <1>5 DEF ExpireChallenge
<1>6. ASSUME NEW c \in Challenge, ExpireSchedule(c) PROVE AsksLess
  BY <1>6 DEF ExpireSchedule
<1>7. ASSUME NEW c \in Challenge, ConfirmCourt(c) PROVE AsksLess
  BY <1>7 DEF ConfirmCourt
<1>8. ASSUME NEW c \in Challenge, NEW p \in Player, ApplyWalkover(c, p) PROVE AsksLess
  BY <1>8 DEF ApplyWalkover, AwardPoints
<1>9. ASSUME NEW c \in Challenge, ResolveDispute(c) PROVE AsksLess
  BY <1>9 DEF ResolveDispute, AwardPoints
<1>10. ASSUME NEW c \in Challenge, CancelMatch(c) PROVE AsksLess
  BY <1>10 DEF CancelMatch
<1>11. CASE UNCHANGED talkVars
  BY <1>11 DEF talkVars, vars
<1> QED
  BY <1>1, <1>2, <1>3, <1>4, <1>5, <1>6, <1>7, <1>8, <1>9, <1>10, <1>11
  DEF Background, Silent, JobStep, AdminStep

(* So every conversation keeps following.                                  *)
LEMMA QuietFollows ==
    ASSUME LadderOK, ~interleaved, WillFollow,
           Background \/ (\E c \in Challenge, p \in Player : Silent(c, p)) \/ UNCHANGED talkVars
    PROVE  WillFollow'
<1>1. UNCHANGED <<talk, flight, history>>
  BY DEF Background, Silent, talkVars
<1>2. AsksLess
  BY QuietAsksLess
<1> SUFFICES ASSUME InTurn', NEW c \in Challenge, NEW p \in Player, NEW row \in Row,
                    OnlyIn(p, c)', Final(p, row)'
             PROVE  Follows(p, c, row)'
  BY DEF WillFollow
<1>3. InTurn
  BY <1>1 DEF InTurn, history
<1>4. OnlyIn(p, c)
  BY <1>2 DEF OnlyIn, Plays, AsksLess
<1>5. Final(p, row)
  BY <1>1 DEF Final
<1>6. Follows(p, c, row)
  BY <1>3, <1>4, <1>5 DEF WillFollow
<1> QED
  BY <1>2, <1>6 DEF Follows, AsksLess


(* Every step keeps what the conversations will be.                        *)
LEMMA FollowStep ==
    /\ Ground /\ ListInv /\ CopyCurrent /\ WillFollow
    /\ [TalkNext]_talkVars
    => CopyCurrent' /\ WillFollow'
<1> SUFFICES ASSUME Ground, ListInv, CopyCurrent, WillFollow, [TalkNext]_talkVars
             PROVE  CopyCurrent' /\ WillFollow'
  OBVIOUS
<1>1. Alone /\ TalkTyped /\ ChainOK /\ AllBacked /\ TurnOK
  BY DEF ListInv, Ground
<1>2. CopyCurrent'
  BY <1>1, CopyStep
<1>3. ASSUME InTurn' PROVE WillFollow'
  <2>1. ~interleaved' /\ failures' = 0
    BY <1>3 DEF InTurn
  <2>2. ~interleaved /\ LadderOK /\ \A c \in Challenge : held[c] = NoCopy
    BY <1>1, <2>1, GroundStep DEF TurnOK
  <2>3. \A failing : ~Fail(failing)
    BY <1>1, <2>1, FailDoes
  <2>4. ~Die /\ \A r \in Route : ~Throw(r)
    BY <2>3 DEF Die, Throw
  <2>5. \A c \in Challenge : ~ReadCopy(c) /\ ~SaveChallengeCopy(c) /\ ~SaveMatchCopy(c)
    <3>1. NoCopy.op = "none" /\ "none" \notin DOMAIN SavedStatus
      BY DEF NoCopy, SavedStatus
    <3> QED
      BY <2>1, <2>2, <3>1 DEF ReadCopy, SaveChallengeCopy, SaveMatchCopy
  <2> QED
    BY <1>1, <2>2, <2>4, <2>5, CommandFollows, CreateForFollows, SelectionFollows, FindFollows,
       SaveFollows, QuietFollows
    DEF TalkNext
<1> QED
  BY <1>2, <1>3 DEF WillFollow

(* With one command at a time, none that fails and no handler interrupted  *)
(* between its read and its save, a player with one challenge finds in his *)
(* conversation the state and the id that the documents promise, whenever  *)
(* no command is in flight.                                                *)
THEOREM ConversationsFollow == TalkSpec => []ConversationFollows
<1>1. TalkInit => CopyCurrent /\ WillFollow
  <2> SUFFICES ASSUME TalkInit PROVE CopyCurrent /\ WillFollow
    OBVIOUS
  <2>1. \A r \in Route : flight[r].copy = None
    BY DEF TalkInit, Landed
  <2>2. /\ \A c \in Challenge : /\ challenge[c].status = "none" /\ match[c].status = "none"
                                /\ match[c].selected = None /\ dispute[c] = "none"
    BY DEF TalkInit, Init
  <2> QED
    BY <2>1, <2>2 DEF CopyCurrent, WillFollow, Follows
<1>2. TalkTyped /\ WillFollow => ConversationFollows
  <2> SUFFICES ASSUME TalkTyped, WillFollow, Busy = {}, InTurn, NEW c \in Challenge,
                      NEW p \in Player, OnlyIn(p, c)
               PROVE  Follows(p, c, talk[p])
    BY DEF ConversationFollows, InTurn, OnlyIn, Follows
  <2>1. \A r \in Route : flight[r].todo = <<>>
    BY DEF Busy, Landed
  <2>2. Final(p, talk[p])
    BY <2>1 DEF Final, Mute
  <2> QED
    BY <2>2 DEF WillFollow, TalkTyped, RouterTypes
<1>3. Ground => TalkTyped
  BY DEF Ground
<1> QED
  BY <1>1, <1>2, <1>3, ListStarts, GroundStarts, GroundStep, ListStep, FollowStep, PTL DEF TalkSpec
=============================================================================
