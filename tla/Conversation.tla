----------------------------- MODULE Conversation -----------------------------
(***************************************************************************)
(* tenis.router.service: the command of a player calls one handler of      *)
(* MatchLifecycle and then writes the conversations of the players it      *)
(* concerns (tenis_conversation_states), each with a read and a save of    *)
(* its own. Several commands may be in flight, a call may throw, the       *)
(* process may die, and jobs and admin commands change the ladder without  *)
(* telling the conversations.                                              *)
(*                                                                         *)
(* A job or an admin command runs in one step of MatchLifecycle or is      *)
(* interrupted between its read and its save, and then saves a stale row;  *)
(* selectOption saves some steps after its checks. The handlers of the     *)
(* other commands run in one step here; MatchHandlers takes all apart.     *)
(*                                                                         *)
(* Players answer what they are sent: the options of a schedule go to the  *)
(* challenged player and the buttons of a result to the reporter's rival.  *)
(***************************************************************************)
EXTENDS MatchLifecycle, Sequences

CONSTANTS
    Sender,     \* players who send /desafio: a bound, in the program everyone may
    Route,      \* commands that may be in flight at a time
    MaxOffers,  \* no list is shown once a player has seen this many
    MaxFailures \* bound on throwing calls and crashes

ASSUME RouteAssumption == IsFiniteSet(Route) /\ MaxOffers \in Nat /\ MaxFailures \in Nat

VARIABLES
    talk,       \* tenis_conversation_states, by player
    flight,     \* the calls each command in flight has left
    held,       \* the copy an interrupted job or admin command is to save
    offered,    \* history: player lists shown to each player
    picked,     \* history: challenges each player tried to send from one
    overlapped, \* history: two commands have been in flight at a time
    interleaved,\* history: a row was read by a handler and saved by a later step
    failures    \* history: how many calls threw and processes died

history == <<offered, picked, overlapped, failures>>
copies == <<held, interleaved>>
talkVars == <<vars, talk, flight, copies, history>>

FlowState == {"idle", "challenge_received", "awaiting_schedule",
              "awaiting_result_confirmation", "disputed"}

(* A player without a row has state "none", which reads as "idle". The     *)
(* context holds the ids that commands without an id refer to, and the     *)
(* candidates of the list the player was shown last.                       *)
Row == [state : FlowState \cup {"none"}, challenge : Challenge \cup {None},
        match : Challenge \cup {None}, offer : SUBSET Player]
NoRow == [state |-> "none", challenge |-> None, match |-> None, offer |-> {}]

Landed == [todo |-> <<>>, copy |-> None]

(* The jobs and admin commands that save a whole match, with the status    *)
(* each gives it. The job of a challenge saves the challenge.              *)
SavedStatus == [agenda |-> "CANCELLED", cancha |-> "SCHEDULED", walkover |-> "CLOSED",
                disputa |-> "CLOSED", cancelar |-> "CANCELLED"]
Handler == {"expire"} \cup DOMAIN SavedStatus

(* An interrupted handler and the selected option its copy says. One       *)
(* handler at most is interrupted on a challenge at a time.                *)
Copy == [op : Handler \cup {"none"}, selected : Proposal \cup {None}]
NoCopy == [op |-> "none", selected |-> None]

TalkTypeOK ==
    /\ talk \in [Player -> Row]
    /\ \A r \in Route : /\ flight[r].todo = <<>> => flight[r].copy = None
                        /\ flight[r].copy # None => flight[r].copy.row \in Row
    /\ \A p \in Player : talk[p].state = "none" => talk[p] = NoRow
    /\ offered \in [Player -> Nat]
    /\ picked \in [Player -> Nat]
    /\ overlapped \in BOOLEAN
    /\ failures \in 0..MaxFailures
    /\ held \in [Challenge -> Copy]
    /\ interleaved \in BOOLEAN

TalkInit ==
    /\ Init
    /\ talk = [p \in Player |-> NoRow]
    /\ flight = [r \in Route |-> Landed]
    /\ held = [c \in Challenge |-> NoCopy]
    /\ interleaved = FALSE
    /\ offered = [p \in Player |-> 0]
    /\ picked = [p \in Player |-> 0]
    /\ overlapped = FALSE
    /\ failures = 0

-----------------------------------------------------------------------------
(* The calls a command makes after its handler has returned                *)

SetState(p, state, c, m) ==
    [do |-> "setState", who |-> p,
     row |-> [state |-> state, challenge |-> c, match |-> m, offer |-> {}]]
SetOffer(p, offer) == [do |-> "updateContext", who |-> p, offer |-> offer]
CreateFor(p, q, fromList) ==
    [do |-> "createChallengeFor", who |-> p, rival |-> q, fromList |-> fromList]
Choose(o, p) == [do |-> "selectOption", who |-> p, option |-> o]

Busy == {r \in Route : flight[r] # Landed}

Takeoff(r, todo) ==
    /\ flight[r] = Landed
    /\ flight' = [flight EXCEPT ![r].todo = todo]
    /\ overlapped' = (overlapped \/ Busy # {})
    /\ UNCHANGED <<offered, picked, failures>>

Next1(r) == Head(flight[r].todo)
Waiting(r, do) == flight[r].todo # <<>> /\ Next1(r).do = do
(* Mutation: the copy is kept for the next call.                           *)
ThenWithCopy(r, todo) == flight' = [flight EXCEPT ![r].todo = todo]

Then(r, todo) == flight' = [flight EXCEPT ![r] = [todo |-> todo, copy |-> None]]

-----------------------------------------------------------------------------
(* /desafio and the list of candidates                                     *)

(* Ids are left for the challenges that commands in flight will create.    *)
IdsLeft ==
    Cardinality({c \in Challenge : challenge[c].status = "none"})
        > Cardinality({r \in Busy : \E i \in DOMAIN flight[r].todo :
                                        flight[r].todo[i].do = "createChallengeFor"})

(* One match is challenged at once, several are offered as a list.         *)
Desafio(r, p) ==
    /\ p \in Sender
    /\ \/ IdsLeft /\ \E q \in Player \ {p} : Takeoff(r, <<CreateFor(p, q, FALSE)>>)
       \/ /\ \A q \in Player : offered[q] < MaxOffers
          /\ \E offer \in SUBSET (Player \ {p}) :
                Cardinality(offer) > 1 /\ Takeoff(r, <<SetOffer(p, offer)>>)
    /\ UNCHANGED <<vars, talk, copies>>

(* Mutation: the list is cleared once the challenge has been created.      *)
SelectThenClear(r, p) ==
    /\ IdsLeft
    /\ \E q \in talk[p].offer : Takeoff(r, <<CreateFor(p, q, TRUE), SetOffer(p, {})>>)
    /\ UNCHANGED <<vars, talk, copies>>

SelectPlayer(r, p) ==
    /\ IdsLeft
    /\ \E q \in talk[p].offer : Takeoff(r, <<SetOffer(p, {}), CreateFor(p, q, TRUE)>>)
    /\ UNCHANGED <<vars, talk, copies>>

(* The challenge may be refused, and a failing queue makes createChallenge *)
(* throw after it has saved the challenge.                                 *)
CreateChallengeFor(r) ==
    LET p == Next1(r).who
        q == Next1(r).rival IN
    /\ Waiting(r, "createChallengeFor")
    /\ \/ \E c \in Challenge :
            /\ CreateChallenge(c, p, q)
            /\ Then(r, IF Queue = "flaky" /\ c \notin challengeJobs' THEN <<>>
                       ELSE <<SetState(p, "idle", c, None),
                              SetState(q, "challenge_received", c, None)>>)
       \/ /\ RankGap(p, q) > MaxRankDiff
          /\ Then(r, <<>>)
          /\ UNCHANGED vars
    /\ picked' = IF Next1(r).fromList THEN [picked EXCEPT ![p] = @ + 1] ELSE picked
    /\ UNCHANGED <<talk, copies, offered, overlapped, failures>>

-----------------------------------------------------------------------------
(* The other commands                                                      *)

(* With the id on the button, or the one the conversation remembers.       *)
Accept(r, c, p) ==
    /\ AcceptChallenge(c, p)
    /\ Takeoff(r, IF Queue = "flaky" /\ c \notin scheduleJobs' THEN <<>>
                  ELSE <<SetState(p, "awaiting_schedule", None, c),
                         SetState(challenge[c].challenger, "awaiting_schedule", None, c)>>)
    /\ UNCHANGED <<talk, copies>>

(* These leave the conversations as they are.                              *)
Silent(c, p) ==
    /\ \/ RejectChallenge(c, p)
       \/ \E o \in Proposal : ProposeSchedule(c, p, o)
       \/ ReportResult(c, p)
    /\ UNCHANGED <<talk, flight, copies, history>>

(* selectOption, from its reads to its checks.                             *)
Select(r, o, p) ==
    /\ proposal[o].status # "none"
    /\ challenge[proposal[o].match].challenged = p
    /\ challenge[proposal[o].match].challenger # p
    /\ match[proposal[o].match].status = "PENDING_SCHEDULE"
    /\ Takeoff(r, <<Choose(o, p)>>)
    /\ UNCHANGED <<vars, talk, copies>>

(* The rest of selectOption, whatever has become of the match: it saves    *)
(* its copy and updates the proposals as SelectOption does. Then the match *)
(* is looked for by its option, and nobody is told of it when a copy that  *)
(* does not know the option is saved in between.                           *)
SaveSelection(r) ==
    LET o == Next1(r).option
        c == proposal[o].match
        told(q) == SetState(q, "awaiting_result_confirmation", None, c) IN
    /\ Waiting(r, "selectOption")
    /\ match' = [match EXCEPT ![c] = [status |-> "SCHEDULED", selected |-> o]]
    /\ proposal' = [x \in Proposal |->
                      CASE x = o -> [proposal[x] EXCEPT !.status = "SELECTED"]
                        [] x # o /\ proposal[x].match = c /\ proposal[x].status = "OPEN"
                             -> [proposal[x] EXCEPT !.status = "REPLACED"]
                        [] OTHER -> proposal[x]]
    /\ interleaved' = (interleaved \/ match[c].status # "PENDING_SCHEDULE")
    /\ \/ Then(r, <<told(Next1(r).who), told(challenge[c].challenger),
                     told(challenge[c].challenged)>>)
       \/ /\ held[c].op \in DOMAIN SavedStatus /\ held[c].selected # o
          /\ Then(r, <<>>)
    /\ UNCHANGED <<challenge, report, dispute, limits, jobs, score, talk, held, history>>

Verdict(r, c, p) ==
    /\ report[c].status # "none" /\ Opponent(c, report[c].reporter) = p
    /\ \/ ConfirmResult(c, p) /\ Takeoff(r, <<SetState(p, "idle", None, None)>>)
       \/ RejectResult(c, p) /\ Takeoff(r, <<SetState(p, "disputed", None, None)>>)
    /\ UNCHANGED <<talk, copies>>

-----------------------------------------------------------------------------
(* setState and updateContext: find the row, change the copy, then save it *)

(* Mutation: the merged context goes into a fresh row.                     *)
ForgetfulRow(step, found) ==
    IF step.do = "setState" THEN step.row
    ELSE [NoRow EXCEPT !.state = "idle", !.offer = step.offer]

(* setState replaces state and context; updateContext keeps those it finds.*)
NewRow(step, found) ==
    IF step.do = "setState" THEN step.row
    ELSE [found EXCEPT !.offer = step.offer, !.state = IF @ = "none" THEN "idle" ELSE @]

FindRow(r) ==
    LET step == Next1(r)
        found == talk[step.who] IN
    /\ flight[r].todo # <<>> /\ step.do \in {"setState", "updateContext"}
    /\ flight[r].copy = None
    /\ flight' = [flight EXCEPT ![r].copy = [row |-> NewRow(step, found),
                                            insert |-> found = NoRow]]
    /\ UNCHANGED <<vars, talk, copies, history>>

(* UNIQUE (player_id): inserting a second first row throws.                *)
SaveRow(r) ==
    LET step == Next1(r)
        copy == flight[r].copy IN
    /\ copy # None
    /\ IF copy.insert /\ talk[step.who] # NoRow
       THEN Then(r, <<>>) /\ UNCHANGED <<talk, offered>>
       ELSE /\ Then(r, Tail(flight[r].todo))
            /\ talk' = [talk EXCEPT ![step.who] = copy.row]
            /\ offered' = IF step.do = "updateContext" /\ step.offer # {}
                          THEN [offered EXCEPT ![step.who] = @ + 1] ELSE offered
    /\ UNCHANGED <<vars, copies, picked, overlapped, failures>>

-----------------------------------------------------------------------------
(* Jobs, admin commands and time do not look at the conversations.         *)
(* Between its read and its save a job is still in its queue, active.      *)
Background ==
    /\ \E c \in Challenge : \/ PassExpiry(c) \/ AdminStep(c)
                           \/ (ExpireChallenge(c) /\ held[c].op # "expire")
                           \/ (ExpireSchedule(c) /\ held[c].op # "agenda")
    /\ UNCHANGED <<talk, flight, copies, history>>

(* A job or an admin command has read its row, made the checks of its      *)
(* action of MatchLifecycle, and waits.                                    *)
ReadCopy(c) ==
    /\ held[c] = NoCopy
    /\ \E op \in Handler :
          /\ \/ op = "expire" /\ c \in challengeJobs \cap overdue
                              /\ challenge[c].status = "PENDING"
             \/ op = "agenda" /\ c \in scheduleJobs /\ match[c].status = "PENDING_SCHEDULE"
             \/ op \in Admin /\ match[c].status # "none"
                             /\ (op = "disputa" => report[c].status # "none")
          /\ held' = [held EXCEPT ![c] = [op |-> op, selected |-> match[c].selected]]
    /\ interleaved' = TRUE
    /\ UNCHANGED <<vars, talk, flight, history>>

(* expireChallenge saves the challenge it read when it was pending.        *)
SaveChallengeCopy(c) ==
    /\ held[c].op = "expire"
    /\ challenge' = [challenge EXCEPT ![c].status = "EXPIRED", ![c].rankDiff = 0]
    /\ challengeJobs' = challengeJobs \ {c}
    /\ held' = [held EXCEPT ![c] = NoCopy]
    /\ UNCHANGED <<match, proposal, report, dispute, limits, overdue, scheduleJobs, score,
                   talk, flight, interleaved, history>>

(* Mutation: the job loads the match with its proposals and saves them too.*)
SaveWithProposals(c) ==
    /\ held[c].op = "agenda"
    /\ match' = [match EXCEPT ![c] = [status |-> "CANCELLED", selected |-> held[c].selected]]
    /\ proposal' = [o \in Proposal |->
                      IF proposal[o].match = c /\ o # held[c].selected
                      THEN [proposal[o] EXCEPT !.status = "OPEN"] ELSE proposal[o]]
    /\ scheduleJobs' = scheduleJobs \ {c}
    /\ held' = [held EXCEPT ![c] = NoCopy]
    /\ UNCHANGED <<challenge, report, dispute, limits, overdue, challengeJobs, score, talk,
                   flight, interleaved, history>>

(* The others save a match, with the option that was selected when it was  *)
(* read, and what else their action of MatchLifecycle writes.              *)
SaveMatchCopy(c) ==
    LET op == held[c].op
        reporter == report[c].reporter
        won(p) == awards[c] < MaxAwards /\ AwardPoints(c, p, Opponent(c, p)) IN
    /\ op \in DOMAIN SavedStatus
    /\ match' = [match EXCEPT ![c] = [status |-> SavedStatus[op], selected |-> held[c].selected]]
    /\ scheduleJobs' = IF op = "agenda" THEN scheduleJobs \ {c} ELSE scheduleJobs
    /\ \/ op = "walkover" /\ (\E p \in Player : won(p)) /\ UNCHANGED <<report, dispute>>
       \/ /\ op = "disputa" /\ won(reporter)
          /\ report' = [report EXCEPT ![c].status = "CONFIRMED",
                                      ![c].confirmer = Opponent(c, reporter)]
          /\ dispute' = IF dispute[c] = "none" THEN dispute
                                               ELSE [dispute EXCEPT ![c] = "RESOLVED"]
       \/ op \notin {"walkover", "disputa"} /\ UNCHANGED <<score, report, dispute>>
    /\ held' = [held EXCEPT ![c] = NoCopy]
    /\ UNCHANGED <<challenge, proposal, limits, overdue, challengeJobs, talk, flight,
                   interleaved, history>>

(* A message cannot be sent or a query fails, and the rest of the command  *)
(* is dropped; or the process dies, and the rest of them all.              *)
Fail(failing) ==
    /\ failures < MaxFailures
    /\ failures' = failures + 1
    /\ flight' = [r \in Route |-> IF r \in failing THEN Landed ELSE flight[r]]
    /\ UNCHANGED <<vars, talk, interleaved, offered, picked, overlapped>>

Throw(r) == r \in Busy /\ Fail({r}) /\ UNCHANGED held

(* The jobs stay in their queues and are handed out again.                 *)
Die ==
    /\ Busy # {} \/ \E c \in Challenge : held[c] # NoCopy
    /\ Fail(Busy)
    /\ held' = [c \in Challenge |-> NoCopy]

Command(r, p) ==
    \/ Desafio(r, p)
    \/ SelectPlayer(r, p)
    \/ \E c \in Challenge : Accept(r, c, p) \/ Verdict(r, c, p)
    \/ \E o \in Proposal : Select(r, o, p)

TalkNext ==
    \/ \E r \in Route : \/ \E p \in Player : Command(r, p)
                        \/ CreateChallengeFor(r) \/ SaveSelection(r)
                        \/ FindRow(r) \/ SaveRow(r) \/ Throw(r)
    \/ \E c \in Challenge, p \in Player : Silent(c, p)
    \/ Background
    \/ \E c \in Challenge : ReadCopy(c) \/ SaveChallengeCopy(c) \/ SaveMatchCopy(c)
    \/ Die

TalkSpec == TalkInit /\ [][TalkNext]_talkVars

-----------------------------------------------------------------------------
Plays(p, c) == p \in {challenge[c].challenger, challenge[c].challenged}

(* A conversation never runs ahead of the ladder, also when commands, jobs *)
(* and admin commands save stale rows: what a player is said to wait for   *)
(* has happened, in a challenge of theirs. An option that was selected is  *)
(* looked for among the proposals, since a stale save of the match takes   *)
(* it out of the match again.                                              *)
StateIsBacked ==
    \A p \in Player :
        LET c == talk[p].challenge
            m == talk[p].match IN
        /\ c # None => challenge[c].status # "none" /\ Plays(p, c)
        /\ m # None => match[m].status # "none" /\ Plays(p, m)
        /\ talk[p].state = "challenge_received" => c # None /\ challenge[c].challenged = p
        /\ talk[p].state = "awaiting_schedule" => m # None
        /\ talk[p].state = "awaiting_result_confirmation" =>
              m # None /\ \E o \in Proposal : proposal[o] = [status |-> "SELECTED", match |-> m]
        /\ talk[p].state = "disputed" => \E d \in Challenge : Plays(p, d) /\ dispute[d] # "none"

(* A list of candidates is good for one attempt, also when the challenge   *)
(* is refused or the process dies half way: the list is cleared before the *)
(* challenge is created. Two clicks in flight at a time are the exception. *)
ListGoodForOne == ~overlapped => \A p \in Player : picked[p] <= offered[p]

(* With one command at a time and no handler interrupted by another,       *)
(* docs/tenis/state-machine.md holds as far as its acceptance, schedule    *)
(* and rejection rows go, for a player with one challenge: the             *)
(* conversation has the state and the id that a command without an id      *)
(* (/aceptar, /proponer, /resultado) will use.                             *)
ConversationFollows ==
    Busy = {} /\ ~overlapped /\ ~interleaved /\ failures = 0 /\ Queue # "flaky" =>
        \A c \in Challenge, p \in Player :
            Plays(p, c) /\ (\A d \in Challenge \ {c} : ~Plays(p, d)) =>
                /\ challenge[c].status = "PENDING" =>
                    /\ talk[p].challenge = c
                    /\ challenge[c].challenged = p => talk[p].state = "challenge_received"
                /\ match[c].status = "PENDING_SCHEDULE" =>
                    talk[p].match = c /\ talk[p].state = "awaiting_schedule"
                /\ match[c].selected # None /\ report[c].status = "none" =>
                    talk[p].match = c /\ talk[p].state = "awaiting_result_confirmation"
                /\ dispute[c] = "OPEN" /\ report[c].reporter # p =>
                    talk[p].state = "disputed"
=============================================================================
