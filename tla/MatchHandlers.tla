---------------------------- MODULE MatchHandlers ----------------------------
(***************************************************************************)
(* The handlers of MatchLifecycle as the event loop runs them: one database*)
(* or queue call per step, since every call is awaited and none is in a    *)
(* transaction. Between two calls of a handler other handlers may run, and *)
(* the process may die. A handler works on the copies of the rows it read; *)
(* TypeORM's save writes back every column of such a copy.                 *)
(*                                                                         *)
(* With one handler in flight at a time and no crash these steps implement *)
(* MatchLifecycle (ImplementsLifecycle). The awarding of points is one call*)
(* here: its own reads and writes are the subject of module Ranking.       *)
(***************************************************************************)
EXTENDS MatchLifecycle, Sequences

CONSTANTS
    Handler,    \* handlers that may be in flight at the same time
    MaxCrashes  \* bound on how often the process dies

ASSUME HandlerAssumption == IsFiniteSet(Handler) /\ MaxCrashes \in Nat

VARIABLES
    run,        \* what each handler is doing
    asked,      \* reports whose Confirmar/Rechazar buttons have been sent
    settled,    \* history: the tables when no handler was last in flight
    crashes     \* history: how often the process has died

handlerVars == <<vars, run, asked, settled, crashes>>

(* The calls a handler makes once its checks have passed, in order.        *)
HandlerCalls ==
    [create   |-> <<"checkRanks", "insertChallenge", "countSent", "enqueueExpire">>,
     accept   |-> <<"readRanks", "saveChallenge", "countAccepted", "insertMatch", "enqueueAgenda">>,
     decline  |-> <<"saveChallenge">>,
     propose  |-> <<"insertProposal">>,
     select   |-> <<"saveMatch", "replaceOpen", "selectProposal">>,
     report   |-> <<"checkReport", "insertReport", "saveMatch", "ask">>,
     confirm  |-> <<"readMatch", "saveReport", "saveMatch", "award">>,
     refuse   |-> <<"readMatch", "saveReport", "saveMatch", "insertDispute">>,
     cancha   |-> <<"saveMatch">>,
     walkover |-> <<"award", "saveMatch">>,
     disputa  |-> <<"saveReport", "readMatch", "saveMatch", "saveDispute", "saveLoser", "award">>,
     cancelar |-> <<"saveMatch">>]

(* Mutation: the job leaves its queue before the work is done.             *)
JobCallsAckFirst ==
    [expire |-> <<"ackExpire", "saveChallenge">>,
     agenda |-> <<"ackAgenda", "saveMatch">>]

(* A job stays in its queue until the handler returns ("ack").             *)
JobCalls ==
    [expire |-> <<"saveChallenge", "ackExpire">>,
     agenda |-> <<"saveMatch", "ackAgenda">>]

Calls(op) == IF op \in DOMAIN JobCalls THEN JobCalls[op] ELSE HandlerCalls[op]

(* The status a handler writes.                                            *)
NewChallengeStatus == [accept |-> "ACCEPTED", decline |-> "REJECTED", expire |-> "EXPIRED"]
NewReportStatus == [confirm |-> "CONFIRMED", refuse |-> "REJECTED", disputa |-> "CONFIRMED"]
NewMatchStatus ==
    [select |-> "SCHEDULED", agenda |-> "CANCELLED", report |-> "PENDING_RESULT_CONFIRMATION",
     confirm |-> "CLOSED", refuse |-> "DISPUTED", cancha |-> "SCHEDULED",
     walkover |-> "CLOSED", disputa |-> "CLOSED", cancelar |-> "CANCELLED"]

(* A task: the calls left, the arguments (challenge c, its players by role *)
(* p and q, proposal o) and the copies of the rows the handler holds.      *)
Idle == [todo |-> <<>>]
Task(op, c, p, q, o) ==
    [op |-> op, todo |-> Calls(op), c |-> c, p |-> p, q |-> q, o |-> o,
     challenge |-> challenge[c], match |-> match[c], report |-> report[c]]

Running(op, c) == \E h \in Handler : run[h] # Idle /\ run[h].op = op /\ run[h].c = c

tables == <<challenge, match, proposal, report, dispute, points, sent, accepted,
            challengeJobs, scheduleJobs, awards>>

InitHandlers ==
    /\ Init
    /\ run = [h \in Handler |-> Idle]
    /\ asked = {}
    /\ settled = tables
    /\ crashes = 0

-----------------------------------------------------------------------------
(* A handler starts: its reads and its checks, which are those of the      *)
(* action of MatchLifecycle.                                               *)

Start(h, task) ==
    /\ run[h] = Idle
    /\ run' = [run EXCEPT ![h] = task]
    /\ UNCHANGED <<vars, asked, settled, crashes>>

StartChallenge(h, c, p) ==
    \/ /\ challenge[c].status = "none" /\ ~Running("create", c)
       /\ \E q \in Player \ {p} : Start(h, Task("create", c, p, q, None))
    \/ /\ challenge[c].status = "PENDING" /\ challenge[c].challenged = p
       /\ \E op \in {"accept", "decline"} :
            Start(h, Task(op, c, challenge[c].challenger, p, None))

StartSchedule(h, c, p, o) ==
    \/ /\ match[c].status = "PENDING_SCHEDULE" /\ challenge[c].challenger = p
       /\ proposal[o].status = "none"
       /\ \A x \in Handler : run[x] # Idle => run[x].o # o
       /\ Start(h, Task("propose", c, p, None, o))
    \/ /\ proposal[o].status # "none" /\ proposal[o].match = c
       /\ challenge[c].challenger # p
       /\ match[c].status = "PENDING_SCHEDULE"
       /\ Start(h, Task("select", c, None, p, o))

(* Mutation: a report that is decided already can be confirmed or rejected.*)
StartAnyResult(h, c, p) ==
    \/ /\ match[c].status = "SCHEDULED"
       /\ p \in {challenge[c].challenger, challenge[c].challenged}
       /\ Start(h, Task("report", c, p, None, None))
    \/ /\ c \in asked /\ report[c].reporter # p /\ awards[c] < 2
       /\ \E op \in {"confirm", "refuse"} :
            Start(h, Task(op, c, report[c].reporter, p, None))

StartResult(h, c, p) ==
    \/ /\ match[c].status = "SCHEDULED"
       /\ p \in {challenge[c].challenger, challenge[c].challenged}
       /\ Start(h, Task("report", c, p, None, None))
    \/ /\ c \in asked
       /\ report[c].status = "PENDING_CONFIRMATION" /\ report[c].reporter # p
       /\ \E op \in {"confirm", "refuse"} :
            Start(h, Task(op, c, report[c].reporter, p, None))

StartAdmin(h, c) ==
    /\ match[c].status # "none"
    /\ \/ \E op \in Admin \cap {"cancha", "cancelar"} : Start(h, Task(op, c, None, None, None))
       \/ /\ "walkover" \in Admin /\ awards[c] < MaxAwards
          /\ \E winner \in Player :
                Start(h, Task("walkover", c, winner, Opponent(c, winner), None))
       \/ /\ "disputa" \in Admin /\ report[c].status # "none" /\ awards[c] < MaxAwards
          /\ Start(h, Task("disputa", c, report[c].reporter,
                           Opponent(c, report[c].reporter), None))

(* A due job is delivered to one worker. If its row has been decided in    *)
(* the meantime there is nothing to do but return.                         *)
StartJob(h, c) ==
    LET deliver(op, waiting, nothing) ==
            IF waiting THEN Start(h, Task(op, c, None, None, None))
                       ELSE Start(h, [Task(op, c, None, None, None) EXCEPT !.todo = nothing]) IN
    \/ /\ c \in challengeJobs /\ c \in overdue /\ ~Running("expire", c)
       /\ deliver("expire", challenge[c].status = "PENDING", <<"ackExpire">>)
    \/ /\ c \in scheduleJobs /\ ~Running("agenda", c)
       /\ deliver("agenda", match[c].status = "PENDING_SCHEDULE", <<"ackAgenda">>)

-----------------------------------------------------------------------------
(* A handler makes its next call                                           *)

Calling(h, call) == run[h].todo # <<>> /\ Head(run[h].todo) = call

(* The call returns and leaves task behind; once nobody is in flight the   *)
(* tables are settled.                                                     *)
Becomes(h, task) ==
    /\ run' = [run EXCEPT ![h] = IF task.todo = <<>> THEN Idle ELSE task]
    /\ settled' = IF \A x \in Handler : run'[x] = Idle THEN tables' ELSE settled
    /\ UNCHANGED <<overdue, crashes>>

Rest(h) == [run[h] EXCEPT !.todo = Tail(@)]
Returns(h) == Becomes(h, Rest(h))
Aborts(h) == Becomes(h, Idle)

(* The difference of ranks decides whether the challenge may be created.   *)
CheckRanks(h) ==
    /\ Calling(h, "checkRanks")
    /\ UNCHANGED <<rows, limits, challengeJobs, scheduleJobs, score, asked>>
    /\ IF RankGap(run[h].p, run[h].q) <= MaxRankDiff THEN Returns(h) ELSE Aborts(h)

InsertChallenge(h) ==
    LET t == run[h] IN
    /\ Calling(h, "insertChallenge")
    /\ challenge' = [challenge EXCEPT ![t.c] = [status |-> "PENDING", challenger |-> t.p,
                                                challenged |-> t.q, rankDiff |-> 0]]
    /\ UNCHANGED <<match, proposal, report, dispute, limits, challengeJobs, scheduleJobs,
                   score, asked>>
    /\ Returns(h)

CountChallenge(h) ==
    LET t == run[h] IN
    /\ \/ /\ Calling(h, "countSent")
          /\ sent' = [sent EXCEPT ![t.p] = @ + 1] /\ UNCHANGED accepted
       \/ /\ Calling(h, "countAccepted")
          /\ accepted' = [accepted EXCEPT ![t.q] = @ + 1] /\ UNCHANGED sent
    /\ UNCHANGED <<rows, challengeJobs, scheduleJobs, score, asked>>
    /\ Returns(h)

EnqueueJob(h) ==
    LET t == run[h] IN
    /\ \/ /\ Calling(h, "enqueueExpire")
          /\ challengeJobs' \in Enqueue(challengeJobs, t.c) /\ UNCHANGED scheduleJobs
       \/ /\ Calling(h, "enqueueAgenda")
          /\ scheduleJobs' \in Enqueue(scheduleJobs, t.c) /\ UNCHANGED challengeJobs
    /\ UNCHANGED <<rows, limits, score, asked>>
    /\ Returns(h)

(* The snapshot of the ranks goes into the copy of the challenge.          *)
ReadRanks(h) ==
    /\ Calling(h, "readRanks")
    /\ UNCHANGED <<rows, limits, challengeJobs, scheduleJobs, score, asked>>
    /\ Becomes(h, [Rest(h) EXCEPT !.challenge.rankDiff = RankGap(run[h].p, run[h].q)])

SaveChallenge(h) ==
    LET t == run[h] IN
    /\ Calling(h, "saveChallenge")
    /\ challenge' = [challenge EXCEPT
                        ![t.c] = [t.challenge EXCEPT !.status = NewChallengeStatus[t.op]]]
    /\ UNCHANGED <<match, proposal, report, dispute, limits, challengeJobs, scheduleJobs,
                   score, asked>>
    /\ Returns(h)

(* UNIQUE (challenge_id): a second match throws.                           *)
InsertMatch(h) ==
    LET c == run[h].c IN
    /\ Calling(h, "insertMatch")
    /\ UNCHANGED <<challenge, proposal, report, dispute, limits, challengeJobs, scheduleJobs,
                   score, asked>>
    /\ IF match[c].status = "none"
       THEN match' = [match EXCEPT ![c].status = "PENDING_SCHEDULE"] /\ Returns(h)
       ELSE UNCHANGED match /\ Aborts(h)

InsertProposal(h) ==
    LET t == run[h] IN
    /\ Calling(h, "insertProposal")
    /\ proposal' = [proposal EXCEPT ![t.o] = [status |-> "OPEN", match |-> t.c]]
    /\ UNCHANGED <<challenge, match, report, dispute, limits, challengeJobs, scheduleJobs,
                   score, asked>>
    /\ Returns(h)

(* The two updates of selectOption are statements of the database, which   *)
(* looks at the rows of the moment.                                        *)
UpdateProposals(h) ==
    LET t == run[h] IN
    /\ \/ /\ Calling(h, "replaceOpen")
          /\ proposal' = [x \in Proposal |->
                IF proposal[x].match = t.c /\ proposal[x].status = "OPEN"
                THEN [proposal[x] EXCEPT !.status = "REPLACED"] ELSE proposal[x]]
       \/ /\ Calling(h, "selectProposal")
          /\ proposal' = [proposal EXCEPT ![t.o].status = "SELECTED"]
    /\ UNCHANGED <<challenge, match, report, dispute, limits, challengeJobs, scheduleJobs,
                   score, asked>>
    /\ Returns(h)

ReadMatch(h) ==
    /\ Calling(h, "readMatch")
    /\ UNCHANGED <<rows, limits, challengeJobs, scheduleJobs, score, asked>>
    /\ Becomes(h, [Rest(h) EXCEPT !.match = match[run[h].c]])

SaveMatch(h) ==
    LET t == run[h] IN
    /\ Calling(h, "saveMatch")
    /\ match' = [match EXCEPT
                    ![t.c] = [status |-> NewMatchStatus[t.op],
                              selected |-> IF t.op = "select" THEN t.o ELSE t.match.selected]]
    /\ UNCHANGED <<challenge, proposal, report, dispute, limits, challengeJobs, scheduleJobs,
                   score, asked>>
    /\ Returns(h)

(* reportResult returns early for a pending report, and its insert throws  *)
(* for a decided one (UNIQUE (match_id)).                                  *)
CheckReport(h) ==
    /\ Calling(h, "checkReport")
    /\ UNCHANGED <<rows, limits, challengeJobs, scheduleJobs, score, asked>>
    /\ IF report[run[h].c].status = "PENDING_CONFIRMATION" THEN Aborts(h) ELSE Returns(h)

(* Mutation: no UNIQUE (match_id), the new report takes the old one's place.*)
InsertReportTwice(h) ==
    LET t == run[h] IN
    /\ Calling(h, "insertReport")
    /\ UNCHANGED <<challenge, match, proposal, dispute, limits, challengeJobs, scheduleJobs,
                   score, asked>>
    /\ report' = [report EXCEPT ![t.c] = [status |-> "PENDING_CONFIRMATION",
                                          reporter |-> t.p, confirmer |-> None]]
    /\ Returns(h)

InsertReport(h) ==
    LET t == run[h] IN
    /\ Calling(h, "insertReport")
    /\ UNCHANGED <<challenge, match, proposal, dispute, limits, challengeJobs, scheduleJobs,
                   score, asked>>
    /\ IF report[t.c].status = "none"
       THEN /\ report' = [report EXCEPT ![t.c] = [status |-> "PENDING_CONFIRMATION",
                                                  reporter |-> t.p, confirmer |-> None]]
            /\ Returns(h)
       ELSE UNCHANGED report /\ Aborts(h)

(* sendResultConfirmation: the only place the report's id is given out.    *)
Ask(h) ==
    /\ Calling(h, "ask")
    /\ asked' = asked \cup {run[h].c}
    /\ UNCHANGED <<rows, limits, challengeJobs, scheduleJobs, score>>
    /\ Returns(h)

(* saveLoser is the second save of the same copy by resolveDispute.        *)
SaveReport(h) ==
    LET t == run[h]
        verdict == [t.report EXCEPT !.status = NewReportStatus[t.op]] IN
    /\ \/ /\ Calling(h, "saveReport")
          /\ report' = [report EXCEPT
                           ![t.c] = [verdict EXCEPT !.confirmer = IF t.op = "confirm" THEN t.q
                                                                                      ELSE @]]
       \/ /\ Calling(h, "saveLoser")
          /\ report' = [report EXCEPT ![t.c] = [verdict EXCEPT !.confirmer = t.q]]
    /\ UNCHANGED <<challenge, match, proposal, dispute, limits, challengeJobs, scheduleJobs,
                   score, asked>>
    /\ Returns(h)

(* UNIQUE (match_id) again: a second dispute throws.                       *)
WriteDispute(h) ==
    LET c == run[h].c IN
    /\ UNCHANGED <<challenge, match, proposal, report, limits, challengeJobs, scheduleJobs,
                   score, asked>>
    /\ \/ /\ Calling(h, "insertDispute")
          /\ IF dispute[c] = "none" THEN dispute' = [dispute EXCEPT ![c] = "OPEN"] /\ Returns(h)
                                    ELSE UNCHANGED dispute /\ Aborts(h)
       \/ /\ Calling(h, "saveDispute")
          /\ dispute' = IF dispute[c] = "none" THEN dispute
                                               ELSE [dispute EXCEPT ![c] = "RESOLVED"]
          /\ Returns(h)

Award(h) ==
    /\ Calling(h, "award")
    /\ AwardPoints(run[h].c, run[h].p, run[h].q)
    /\ UNCHANGED <<rows, limits, challengeJobs, scheduleJobs, asked>>
    /\ Returns(h)

(* The worker reports the job done and BullMQ removes it.                  *)
AckJob(h) ==
    LET c == run[h].c IN
    /\ \/ /\ Calling(h, "ackExpire")
          /\ challengeJobs' = challengeJobs \ {c} /\ UNCHANGED scheduleJobs
       \/ /\ Calling(h, "ackAgenda")
          /\ scheduleJobs' = scheduleJobs \ {c} /\ UNCHANGED challengeJobs
    /\ UNCHANGED <<rows, limits, score, asked>>
    /\ Returns(h)

-----------------------------------------------------------------------------
(* 48 hours pass; no handler takes that long. *)
Wait(c) ==
    /\ PassExpiry(c)
    /\ ~Running("create", c)
    /\ UNCHANGED <<run, asked, settled, crashes>>

(* The process dies: what has been written stays, and a job that was being *)
(* worked on is still in its queue (BullMQ hands a stalled job out again,  *)
(* once).                                                                  *)
Die ==
    /\ crashes < MaxCrashes
    /\ \E h \in Handler : run[h] # Idle
    /\ run' = [h \in Handler |-> Idle]
    /\ crashes' = crashes + 1
    /\ settled' = tables
    /\ UNCHANGED <<vars, asked>>

Continue(h) ==
    \/ CheckRanks(h) \/ InsertChallenge(h) \/ CountChallenge(h) \/ EnqueueJob(h)
    \/ ReadRanks(h) \/ SaveChallenge(h) \/ InsertMatch(h)
    \/ InsertProposal(h) \/ UpdateProposals(h)
    \/ ReadMatch(h) \/ SaveMatch(h)
    \/ CheckReport(h) \/ InsertReport(h) \/ Ask(h) \/ SaveReport(h)
    \/ WriteDispute(h) \/ Award(h) \/ AckJob(h)

PlayerStarts(h, c, p) ==
    \/ StartChallenge(h, c, p)
    \/ \E o \in Proposal : StartSchedule(h, c, p, o)
    \/ StartResult(h, c, p)

NextHandlers ==
    \/ \E h \in Handler : \/ Continue(h)
                          \/ \E c \in Challenge : StartJob(h, c) \/ StartAdmin(h, c)
                          \/ \E c \in Challenge, p \in Player : PlayerStarts(h, c, p)
    \/ \E c \in Challenge : Wait(c)
    \/ Die

HandlersSpec == InitHandlers /\ [][NextHandlers]_handlerVars

(* A handler in flight goes on, and a due job is handed to a worker sooner *)
(* or later. That must be strong fairness here because a handler that      *)
(* starts takes the place the worker would run in, for a while; in the code*)
(* the worker never waits for the players' handlers.                       *)
FairHandlersSpec ==
    /\ HandlersSpec
    /\ \A h \in Handler : WF_handlerVars(Continue(h))
    /\ \A c \in Challenge :
         /\ WF_handlerVars(Wait(c))
         /\ SF_handlerVars(\E h \in Handler : StartJob(h, c))

-----------------------------------------------------------------------------
(* With one handler in flight at a time and no crash the calls of a handler*)
(* add up to one step of MatchLifecycle, taken when the handler returns:   *)
(* every early return, exception and write of the code is accounted for.   *)
Serial == INSTANCE MatchLifecycle WITH
    challenge <- settled[1], match <- settled[2], proposal <- settled[3],
    report <- settled[4], dispute <- settled[5], points <- settled[6],
    sent <- settled[7], accepted <- settled[8], challengeJobs <- settled[9],
    scheduleJobs <- settled[10], awards <- settled[11]

ImplementsLifecycle == Serial!Spec

(* Whatever call a crash interrupts, the writes of a handler come in an    *)
(* order that never gives points away: points are awarded at most once and *)
(* only for a closed match with a confirmed report; a match needs an       *)
(* accepted challenge, a report a match that was scheduled, a dispute a    *)
(* rejected report and a disputed match.                                   *)
CrashLeavesNoDebt ==
    \A c \in Challenge :
        /\ awards[c] <= 1
        /\ awards[c] = 1 => match[c].status = "CLOSED"
        /\ match[c].status = "CLOSED" => report[c].status = "CONFIRMED"
        /\ match[c].status # "none" => challenge[c].status = "ACCEPTED"
        /\ report[c].status # "none" => match[c].selected # None
        /\ dispute[c] = "OPEN" => /\ report[c].status = "REJECTED"
                                  /\ match[c].status = "DISPUTED"

(* A job survives the crash of its worker: once it is in the queue, the    *)
(* challenge or the match it is about does not wait for ever, and handing  *)
(* it out a second time does no harm.                                      *)
QueuedWaitEnds ==
    \A c \in Challenge :
        /\ c \in challengeJobs ~> challenge[c].status # "PENDING"
        /\ c \in scheduleJobs ~> match[c].status # "PENDING_SCHEDULE"

(* However two handlers interleave, and stale as the copies they save may  *)
(* be, nothing starts over: the UNIQUE constraints keep a second acceptance*)
(* from resetting the match and a second report from reopening a verdict,  *)
(* and a resolved dispute is not opened again.                             *)
StartsOver(c) ==
    \/ match[c].status \notin {"none", "PENDING_SCHEDULE"} /\ match'[c].status = "PENDING_SCHEDULE"
    \/ report[c].status \in {"CONFIRMED", "REJECTED"} /\ report'[c].status = "PENDING_CONFIRMATION"
    \/ dispute[c] = "RESOLVED" /\ dispute'[c] # "RESOLVED"

NothingStartsOver == [][\A c \in Challenge : ~StartsOver(c)]_handlerVars

(* docs/tenis/jobs.md: "Cada job valida estado actual antes de actuar." A  *)
(* job never overwrites an answer the challenge has already been given.    *)
JobsRespectAnswers ==
    [][\A c \in Challenge : challenge[c].status \in {"ACCEPTED", "REJECTED"}
                               => challenge'[c].status # "EXPIRED"]_handlerVars
=============================================================================
