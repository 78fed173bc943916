------------------------- MODULE MatchHandlersProofs -------------------------
(* Theorems of MatchHandlers. Types and NothingStartsOver hold for any      *)
(* number of handlers in flight and of crashes, CrashLeavesNoDebt for one   *)
(* handler and any number of crashes, and the refinement of MatchLifecycle  *)
(* for one handler and no crash.                                            *)
EXTENDS MatchHandlers, MatchLifecycleProofs

-----------------------------------------------------------------------------
(* Types                                                                    *)

Op == {"create", "accept", "decline", "propose", "select", "report", "confirm", "refuse",
       "cancha", "walkover", "disputa", "cancelar", "expire", "agenda"}

(* The calls that belong to an operation.                                   *)
Own(op) == {Calls(op)[i] : i \in DOMAIN Calls(op)}

TaskRow(op) ==
    [op : {op}, todo : Seq(Own(op)), c : Challenge,
     p : Player \cup {None}, q : Player \cup {None}, o : Proposal \cup {None},
     challenge : ChallengeRow, match : MatchRow, report : ReportRow]

TaskOK(t) == \E op \in Op : t \in TaskRow(op)

RunOK ==
    /\ run = [h \in Handler |-> run[h]]
    /\ \A h \in Handler : run[h] = Idle \/ (TaskOK(run[h]) /\ run[h].todo # <<>>)

HandlersTypeOK ==
    /\ TypeOK
    /\ RunOK
    /\ asked \subseteq Challenge

LEMMA CallsAre ==
    /\ Calls("create") = <<"checkRanks", "insertChallenge", "countSent", "enqueueExpire">>
    /\ Calls("accept")
          = <<"readRanks", "saveChallenge", "countAccepted", "insertMatch", "enqueueAgenda">>
    /\ Calls("decline") = <<"saveChallenge">>
    /\ Calls("propose") = <<"insertProposal">>
    /\ Calls("select") = <<"saveMatch", "replaceOpen", "selectProposal">>
    /\ Calls("report") = <<"checkReport", "insertReport", "saveMatch", "ask">>
    /\ Calls("confirm") = <<"readMatch", "saveReport", "saveMatch", "award">>
    /\ Calls("refuse") = <<"readMatch", "saveReport", "saveMatch", "insertDispute">>
    /\ Calls("cancha") = <<"saveMatch">>
    /\ Calls("walkover") = <<"award", "saveMatch">>
    /\ Calls("disputa") = <<"saveReport", "readMatch", "saveMatch", "saveDispute",
                            "saveLoser", "award">>
    /\ Calls("cancelar") = <<"saveMatch">>
    /\ Calls("expire") = <<"saveChallenge", "ackExpire">>
    /\ Calls("agenda") = <<"saveMatch", "ackAgenda">>
BY DEF Calls, HandlerCalls, JobCalls

LEMMA OwnAre ==
    /\ Own("create") = {"checkRanks", "insertChallenge", "countSent", "enqueueExpire"}
    /\ Own("accept")
          = {"readRanks", "saveChallenge", "countAccepted", "insertMatch", "enqueueAgenda"}
    /\ Own("decline") = {"saveChallenge"}
    /\ Own("propose") = {"insertProposal"}
    /\ Own("select") = {"saveMatch", "replaceOpen", "selectProposal"}
    /\ Own("report") = {"checkReport", "insertReport", "saveMatch", "ask"}
    /\ Own("confirm") = {"readMatch", "saveReport", "saveMatch", "award"}
    /\ Own("refuse") = {"readMatch", "saveReport", "saveMatch", "insertDispute"}
    /\ Own("cancha") = {"saveMatch"}
    /\ Own("walkover") = {"award", "saveMatch"}
    /\ Own("disputa") = {"saveReport", "readMatch", "saveMatch", "saveDispute", "saveLoser",
                         "award"}
    /\ Own("cancelar") = {"saveMatch"}
    /\ Own("expire") = {"saveChallenge", "ackExpire"}
    /\ Own("agenda") = {"saveMatch", "ackAgenda"}
BY CallsAre DEF Own

LEMMA CallsType == ASSUME NEW op \in Op PROVE Calls(op) \in Seq(Own(op))
<1>1. PICK s : s = Calls(op)
  OBVIOUS
<1>2. \E n \in Nat : s = [i \in 1..n |-> s[i]]
  <2>1. CASE op \in {"decline", "propose", "cancha", "cancelar"}
    <3>1. s = [i \in 1..1 |-> s[i]]
      BY <1>1, <2>1, CallsAre
    <3>2. QED BY <3>1
  <2>2. CASE op \in {"walkover", "expire", "agenda"}
    <3>1. s = [i \in 1..2 |-> s[i]]
      BY <1>1, <2>2, CallsAre
    <3>2. QED BY <3>1
  <2>3. CASE op = "select"
    <3>1. s = [i \in 1..3 |-> s[i]]
      BY <1>1, <2>3, CallsAre
    <3>2. QED BY <3>1
  <2>4. CASE op \in {"create", "report", "confirm", "refuse"}
    <3>1. s = [i \in 1..4 |-> s[i]]
      BY <1>1, <2>4, CallsAre
    <3>2. QED BY <3>1
  <2>5. CASE op = "accept"
    <3>1. s = [i \in 1..5 |-> s[i]]
      BY <1>1, <2>5, CallsAre
    <3>2. QED BY <3>1
  <2>6. CASE op = "disputa"
    <3>1. s = [i \in 1..6 |-> s[i]]
      BY <1>1, <2>6, CallsAre
    <3>2. QED BY <3>1
  <2>7. QED BY <2>1, <2>2, <2>3, <2>4, <2>5, <2>6 DEF Op
<1>3. PICK n \in Nat : s = [i \in 1..n |-> s[i]]
  BY <1>2
<1>4. s \in Seq({s[i] : i \in DOMAIN s})
  BY <1>3
<1>5. QED BY <1>1, <1>4 DEF Own

(* The columns of a task.                                                   *)
LEMMA TaskFields ==
    ASSUME NEW op \in Op, NEW t \in TaskRow(op)
    PROVE  /\ t.op = op /\ t.todo \in Seq(Own(op)) /\ t.c \in Challenge
           /\ t.p \in Player \cup {None} /\ t.q \in Player \cup {None}
           /\ t.o \in Proposal \cup {None}
           /\ t.challenge \in ChallengeRow /\ t.match \in MatchRow /\ t.report \in ReportRow
BY DEF TaskRow

LEMMA TaskColumns ==
    ASSUME NEW t, TaskOK(t)
    PROVE  /\ t.op \in Op /\ t.todo \in Seq(Own(t.op)) /\ t.c \in Challenge
           /\ t.p \in Player \cup {None} /\ t.q \in Player \cup {None}
           /\ t.o \in Proposal \cup {None}
           /\ t.challenge \in ChallengeRow /\ t.match \in MatchRow /\ t.report \in ReportRow
<1>1. PICK op \in Op : t \in TaskRow(op)
  BY DEF TaskOK
<1>2. t.op = op
  BY <1>1 DEF TaskRow
<1>3. QED BY <1>1, <1>2, TaskFields

(* A new task holds the rows of the moment.                                 *)
LEMMA TaskIs ==
    ASSUME NEW op, NEW c, NEW p, NEW q, NEW o, NEW t, t = Task(op, c, p, q, o)
    PROVE  /\ t.op = op /\ t.todo = Calls(op) /\ t.c = c /\ t.p = p /\ t.q = q /\ t.o = o
           /\ t.challenge = challenge[c] /\ t.match = match[c] /\ t.report = report[c]
BY DEF Task

LEMMA TaskType ==
    ASSUME TypeOK, NEW op \in Op, NEW c \in Challenge, NEW p \in Player \cup {None},
           NEW q \in Player \cup {None}, NEW o \in Proposal \cup {None}, NEW t,
           t = Task(op, c, p, q, o)
    PROVE  TaskOK(t) /\ t.todo # <<>>
<1>1. Calls(op) \in Seq(Own(op))
  BY CallsType
<1>2. Calls(op) # <<>>
  BY CallsAre DEF Op
<1>3. challenge[c] \in ChallengeRow /\ match[c] \in MatchRow /\ report[c] \in ReportRow
  BY DEF TypeOK
<1>4. t \in TaskRow(op)
  BY <1>1, <1>3 DEF Task, TaskRow
<1>5. t.todo = Calls(op)
  BY TaskIs
<1>6. QED BY <1>2, <1>4, <1>5 DEF TaskOK

(* The call is made, the rest is left.                                      *)
LEMMA Shorter ==
    ASSUME NEW t, TaskOK(t), t.todo # <<>>, NEW r, r = [t EXCEPT !.todo = Tail(@)]
    PROVE  /\ TaskOK(r) /\ Head(t.todo) \in Own(t.op)
           /\ r.todo = Tail(t.todo) /\ r.op = t.op /\ r.c = t.c /\ r.p = t.p /\ r.q = t.q
           /\ r.o = t.o
           /\ r.challenge = t.challenge /\ r.match = t.match /\ r.report = t.report
<1>1. PICK op \in Op : t \in TaskRow(op)
  BY DEF TaskOK
<1>2. t.op = op /\ t.todo \in Seq(Own(op))
  BY <1>1, TaskFields
<1>3. Tail(t.todo) \in Seq(Own(op)) /\ Head(t.todo) \in Own(op)
  BY <1>2
<1>4. r \in TaskRow(op)
  BY <1>1, <1>3 DEF TaskRow
<1>5. r.todo = Tail(t.todo) /\ r.op = t.op /\ r.c = t.c /\ r.p = t.p /\ r.q = t.q /\ r.o = t.o
  BY <1>1 DEF TaskRow
<1>6. r.challenge = t.challenge /\ r.match = t.match /\ r.report = t.report
  BY <1>1 DEF TaskRow
<1>7. QED BY <1>2, <1>3, <1>4, <1>5, <1>6 DEF TaskOK

(* A row that has been read again.                                          *)
LEMMA Reread ==
    ASSUME NEW t, TaskOK(t), NEW d \in Nat, NEW m \in MatchRow, NEW u,
           \/ u = [t EXCEPT !.challenge.rankDiff = d]
           \/ u = [t EXCEPT !.match = m]
    PROVE  TaskOK(u)
<1>1. PICK op \in Op : t \in TaskRow(op)
  BY DEF TaskOK
<1>2. t.challenge \in ChallengeRow
  BY <1>1, TaskFields
<1>3. [t.challenge EXCEPT !.rankDiff = d] \in ChallengeRow
  BY <1>2 DEF ChallengeRow
<1>4. [t EXCEPT !.challenge = [t.challenge EXCEPT !.rankDiff = d]] \in TaskRow(op)
  BY <1>1, <1>3 DEF TaskRow
<1>5. [t EXCEPT !.match = m] \in TaskRow(op)
  BY <1>1 DEF TaskRow
<1>6. QED BY <1>4, <1>5 DEF TaskOK

LEMMA RunUpdate ==
    ASSUME RunOK, NEW h \in Handler, run' = [x \in Handler |-> run'[x]],
           run'[h] = Idle \/ (TaskOK(run'[h]) /\ run'[h].todo # <<>>),
           \A x \in Handler : x # h => run'[x] = run[x]
    PROVE  RunOK'
<1>2. ASSUME NEW x \in Handler
      PROVE  run'[x] = Idle \/ (TaskOK(run'[x]) /\ run'[x].todo # <<>>)
  BY <1>2 DEF RunOK
<1>3. QED BY <1>2 DEF RunOK, TaskOK, TaskRow

LEMMA RunExcept ==
    ASSUME RunOK, NEW h \in Handler, NEW t, run' = [run EXCEPT ![h] = t]
    PROVE  /\ run' = [x \in Handler |-> run'[x]]
           /\ run'[h] = t /\ \A x \in Handler : x # h => run'[x] = run[x]
BY DEF RunOK

LEMMA BecomesRun ==
    ASSUME RunOK, NEW h \in Handler, NEW t, TaskOK(t), Becomes(h, t)
    PROVE  RunOK'
<1>1. CASE t.todo = <<>>
  <2>1. run' = [run EXCEPT ![h] = Idle]
    BY <1>1 DEF Becomes
  <2>2. /\ run' = [x \in Handler |-> run'[x]]
        /\ run'[h] = Idle /\ \A x \in Handler : x # h => run'[x] = run[x]
    BY <2>1, RunExcept
  <2>3. run'[h] = Idle \/ (TaskOK(run'[h]) /\ run'[h].todo # <<>>)
    BY <2>2
  <2>4. QED BY <2>2, <2>3, RunUpdate
<1>2. CASE t.todo # <<>>
  <2>1. run' = [run EXCEPT ![h] = t]
    BY <1>2 DEF Becomes
  <2>2. /\ run' = [x \in Handler |-> run'[x]]
        /\ run'[h] = t /\ \A x \in Handler : x # h => run'[x] = run[x]
    BY <2>1, RunExcept
  <2>3. QED BY <1>2, <2>2, RunUpdate
<1>3. QED BY <1>1, <1>2

LEMMA AbortsRun ==
    ASSUME RunOK, NEW h \in Handler, Aborts(h)
    PROVE  RunOK'
<1>1. run' = [run EXCEPT ![h] = Idle]
  BY DEF Aborts, Becomes, Idle
<1>2. /\ run' = [x \in Handler |-> run'[x]]
      /\ run'[h] = Idle /\ \A x \in Handler : x # h => run'[x] = run[x]
  BY <1>1, RunExcept
<1>3. run'[h] = Idle \/ (TaskOK(run'[h]) /\ run'[h].todo # <<>>)
  BY <1>2
<1>4. QED BY <1>2, <1>3, RunUpdate

(* A call leaves the rest of the calls, perhaps with a row read again, or   *)
(* none.                                                                    *)
LEMMA ContinueRun ==
    ASSUME HandlersTypeOK, NEW h \in Handler, Continue(h)
    PROVE  RunOK' /\ TaskOK(run[h]) /\ run[h].todo # <<>>
<1>1. run[h].todo # <<>>
  BY DEF Continue, CheckRanks, InsertChallenge, CountChallenge, EnqueueJob, ReadRanks,
         SaveChallenge, InsertMatch, InsertProposal, UpdateProposals, ReadMatch, SaveMatch,
         CheckReport, InsertReport, Ask, SaveReport, WriteDispute, Award, AckJob, Calling
<1>2. TaskOK(run[h])
  BY <1>1 DEF HandlersTypeOK, RunOK, Idle
<1>3. PICK r : r = Rest(h)
  OBVIOUS
<1>4. TaskOK(r)
  <2>1. PICK t : t = run[h]
    OBVIOUS
  <2>2. TaskOK(t) /\ t.todo # <<>> /\ r = [t EXCEPT !.todo = Tail(@)]
    BY <1>1, <1>2, <1>3, <2>1 DEF Rest
  <2>3. QED BY <2>2, Shorter
<1>5. CASE Becomes(h, r) \/ Aborts(h)
  BY <1>1, <1>2, <1>4, <1>5, BecomesRun, AbortsRun DEF HandlersTypeOK
<1>6. CASE ReadRanks(h)
  <2>1. PICK d : d = RankGap(run[h].p, run[h].q)
    OBVIOUS
  <2>2. d \in Nat
    BY <2>1, RankGapType
  <2>3. PICK u : u = [r EXCEPT !.challenge.rankDiff = d]
    OBVIOUS
  <2>4. TaskOK(u)
    <3>1. PICK m \in MatchRow : TRUE
      BY <1>2, TaskColumns
    <3>2. QED BY <1>4, <2>2, <2>3, <3>1, Reread
  <2>5. Becomes(h, u)
    BY <1>3, <1>6, <2>1, <2>3 DEF ReadRanks
  <2>6. QED BY <1>1, <1>2, <2>4, <2>5, BecomesRun DEF HandlersTypeOK
<1>7. CASE ReadMatch(h)
  <2>1. PICK m : m = match[run[h].c]
    OBVIOUS
  <2>2. m \in MatchRow
    BY <1>2, <2>1, TaskColumns DEF HandlersTypeOK, TypeOK
  <2>3. PICK u : u = [r EXCEPT !.match = m]
    OBVIOUS
  <2>4. TaskOK(u)
    BY <1>4, <2>2, <2>3, Reread
  <2>5. Becomes(h, u)
    BY <1>3, <1>7, <2>1, <2>3 DEF ReadMatch
  <2>6. QED BY <1>1, <1>2, <2>4, <2>5, BecomesRun DEF HandlersTypeOK
<1>8. ReadRanks(h) \/ ReadMatch(h) \/ Becomes(h, r) \/ Aborts(h)
  BY <1>3 DEF Continue, CheckRanks, InsertChallenge, CountChallenge, EnqueueJob,
         SaveChallenge, InsertMatch, InsertProposal, UpdateProposals, SaveMatch,
         CheckReport, InsertReport, Ask, SaveReport, WriteDispute, Award, AckJob, Returns
<1>9. QED BY <1>1, <1>2, <1>5, <1>6, <1>7, <1>8

(* Who saves what: a save has a status to write, and none of them is the    *)
(* one the row starts with.                                                 *)
LEMMA Savers ==
    ASSUME NEW op \in Op
    PROVE  /\ "saveChallenge" \in Own(op) => op \in {"accept", "decline", "expire"}
           /\ "saveMatch" \in Own(op) =>
                 op \in {"select", "agenda", "report", "confirm", "refuse", "cancha",
                         "walkover", "disputa", "cancelar"}
           /\ "saveReport" \in Own(op) => op \in {"confirm", "refuse", "disputa"}
           /\ "saveLoser" \in Own(op) => op = "disputa"
BY OwnAre DEF Op

LEMMA NewStatus ==
    /\ \A op \in {"accept", "decline", "expire"} : NewChallengeStatus[op] \in ChallengeStatus
    /\ \A op \in {"select", "agenda", "report", "confirm", "refuse", "cancha",
                  "walkover", "disputa", "cancelar"} :
          NewMatchStatus[op] \in MatchStatus \ {"PENDING_SCHEDULE"}
    /\ \A op \in {"confirm", "refuse", "disputa"} :
          NewReportStatus[op] \in {"CONFIRMED", "REJECTED"}
<1>1. \A op \in {"accept", "decline", "expire"} : NewChallengeStatus[op] \in ChallengeStatus
  BY DEF NewChallengeStatus, ChallengeStatus
<1>2. \A op \in {"select", "agenda", "report", "confirm", "refuse", "cancha",
                  "walkover", "disputa", "cancelar"} :
          NewMatchStatus[op] \in MatchStatus \ {"PENDING_SCHEDULE"}
  BY DEF NewMatchStatus, MatchStatus
<1>3. \A op \in {"confirm", "refuse", "disputa"} :
          NewReportStatus[op] \in {"CONFIRMED", "REJECTED"}
  BY DEF NewReportStatus
<1>4. QED BY <1>1, <1>2, <1>3

(* The one call the next step of a handler makes.                           *)
LEMMA HeadOwned ==
    ASSUME HandlersTypeOK, NEW h \in Handler, run[h].todo # <<>>
    PROVE  /\ TaskOK(run[h]) /\ run[h].op \in Op /\ Head(run[h].todo) \in Own(run[h].op)
           /\ run[h].c \in Challenge
<1>1. TaskOK(run[h])
  BY DEF HandlersTypeOK, RunOK, Idle
<1>2. run[h].op \in Op /\ run[h].todo \in Seq(Own(run[h].op)) /\ run[h].c \in Challenge
  BY <1>1, TaskColumns
<1>3. QED BY <1>1, <1>2

LEMMA SaveMatchWrites ==
    ASSUME HandlersTypeOK, NEW h \in Handler, SaveMatch(h)
    PROVE  \E s \in MatchStatus \ {"PENDING_SCHEDULE"}, x \in Proposal \cup {None} :
              match' = [match EXCEPT ![run[h].c] = [status |-> s, selected |-> x]]
<1>1. /\ run[h].todo # <<>> /\ Head(run[h].todo) = "saveMatch"
      /\ match' = [match EXCEPT ![run[h].c] =
            [status |-> NewMatchStatus[run[h].op],
             selected |-> IF run[h].op = "select" THEN run[h].o ELSE run[h].match.selected]]
  BY DEF SaveMatch, Calling
<1>2. TaskOK(run[h]) /\ run[h].op \in Op /\ "saveMatch" \in Own(run[h].op)
  BY <1>1, HeadOwned
<1>3. run[h].o \in Proposal \cup {None} /\ run[h].match \in MatchRow
  BY <1>2, TaskColumns
<1>4. run[h].match.selected \in Proposal \cup {None}
  BY <1>3 DEF MatchRow
<1>5. NewMatchStatus[run[h].op] \in MatchStatus \ {"PENDING_SCHEDULE"}
  BY <1>2, Savers, NewStatus
<1>6. QED BY <1>1, <1>3, <1>4, <1>5

LEMMA SaveReportWrites ==
    ASSUME HandlersTypeOK, NEW h \in Handler, SaveReport(h)
    PROVE  \E s \in {"CONFIRMED", "REJECTED"}, p, q \in Player \cup {None} :
              report' = [report EXCEPT ![run[h].c] =
                            [status |-> s, reporter |-> p, confirmer |-> q]]
<1>1. /\ run[h].todo # <<>> /\ Head(run[h].todo) \in {"saveReport", "saveLoser"}
      /\ \E q \in {run[h].q, run[h].report.confirmer} :
            report' = [report EXCEPT ![run[h].c] =
              [[run[h].report EXCEPT !.status = NewReportStatus[run[h].op]]
                  EXCEPT !.confirmer = q]]
  <2>1. PICK v : v = [run[h].report EXCEPT !.status = NewReportStatus[run[h].op]]
    OBVIOUS
  <2>2. v.confirmer = run[h].report.confirmer
    <3>1. run[h].todo # <<>>
      BY DEF SaveReport, Calling
    <3>2. run[h].report \in ReportRow
      BY <3>1, HeadOwned, TaskColumns
    <3>3. QED BY <2>1, <3>2 DEF ReportRow
  <2>3. \/ Calling(h, "saveReport") /\ report' = [report EXCEPT ![run[h].c] =
              [v EXCEPT !.confirmer = IF run[h].op = "confirm" THEN run[h].q ELSE @]]
        \/ Calling(h, "saveLoser") /\ report' = [report EXCEPT ![run[h].c] =
              [v EXCEPT !.confirmer = run[h].q]]
    BY <2>1 DEF SaveReport
  <2>4. \E q \in {run[h].q, run[h].report.confirmer} :
            report' = [report EXCEPT ![run[h].c] = [v EXCEPT !.confirmer = q]]
    BY <2>2, <2>3
  <2>5. QED BY <2>1, <2>3, <2>4 DEF Calling
<1>2. TaskOK(run[h]) /\ run[h].op \in Op
      /\ ("saveReport" \in Own(run[h].op) \/ "saveLoser" \in Own(run[h].op))
  BY <1>1, HeadOwned
<1>3. run[h].q \in Player \cup {None} /\ run[h].report \in ReportRow
  BY <1>2, TaskColumns
<1>4. NewReportStatus[run[h].op] \in {"CONFIRMED", "REJECTED"}
  BY <1>2, Savers, NewStatus
<1>5. PICK q \in {run[h].q, run[h].report.confirmer} :
            report' = [report EXCEPT ![run[h].c] =
              [[run[h].report EXCEPT !.status = NewReportStatus[run[h].op]]
                  EXCEPT !.confirmer = q]]
  BY <1>1
<1>6. PICK s : s = NewReportStatus[run[h].op]
  OBVIOUS
<1>7. PICK v \in ReportRow : v = run[h].report
  BY <1>3
<1>8. [[v EXCEPT !.status = s] EXCEPT !.confirmer = q]
         = [status |-> s, reporter |-> v.reporter, confirmer |-> q]
  <2>1. PICK a, b, d : v = [status |-> a, reporter |-> b, confirmer |-> d]
    BY <1>7 DEF ReportRow
  <2>2. [v EXCEPT !.status = s] = [status |-> s, reporter |-> b, confirmer |-> d]
    BY <2>1
  <2>3. PICK w : w = [status |-> s, reporter |-> b, confirmer |-> d]
    OBVIOUS
  <2>4. [w EXCEPT !.confirmer = q] = [status |-> s, reporter |-> b, confirmer |-> q]
    BY <2>3
  <2>5. v.reporter = b
    BY <2>1
  <2>6. QED BY <2>2, <2>3, <2>4, <2>5
<1>9. v.reporter \in Player \cup {None} /\ q \in Player \cup {None}
  <2>1. v.reporter \in Player \cup {None} /\ v.confirmer \in Player \cup {None}
    BY <1>7 DEF ReportRow
  <2>2. QED BY <1>3, <1>5, <1>7, <2>1
<1>10. report' = [report EXCEPT ![run[h].c] =
                    [status |-> s, reporter |-> v.reporter, confirmer |-> q]]
  BY <1>5, <1>6, <1>7, <1>8
<1>11. s \in {"CONFIRMED", "REJECTED"}
  BY <1>4, <1>6
<1>12. QED BY <1>9, <1>10, <1>11

(* Whatever stale row is written back, the tables keep their columns.       *)
LEMMA TablesStep ==
    ASSUME HandlersTypeOK, NEW h \in Handler, Continue(h)
    PROVE  TypeOK' /\ asked' \subseteq Challenge
<1> USE DEF rows, limits, score
<1>1. /\ TypeOK /\ asked \subseteq Challenge /\ TaskOK(run[h]) /\ run[h].todo # <<>>
      /\ run[h].op \in Op /\ Head(run[h].todo) \in Own(run[h].op)
  BY ContinueRun, HeadOwned DEF HandlersTypeOK
<1>2. /\ run[h].c \in Challenge
      /\ run[h].p \in Player \cup {None} /\ run[h].q \in Player \cup {None}
      /\ run[h].o \in Proposal \cup {None}
      /\ run[h].challenge \in ChallengeRow
  BY <1>1, TaskColumns
<1>3. \A c \in Challenge : challenge[c] \in ChallengeRow /\ match[c] \in MatchRow
                             /\ report[c] \in ReportRow
  BY <1>1 DEF TypeOK
<1>4. ASSUME \/ CheckRanks(h) \/ ReadRanks(h) \/ ReadMatch(h) \/ CheckReport(h)
             \/ Ask(h)
      PROVE  TypeOK' /\ asked' \subseteq Challenge
  <2>1. UNCHANGED <<rows, limits, overdue, challengeJobs, scheduleJobs, score>>
    BY <1>4 DEF CheckRanks, ReadRanks, ReadMatch, CheckReport, Ask, Returns, Aborts, Becomes
  <2>2. asked' \subseteq Challenge
    BY <1>1, <1>2, <1>4 DEF CheckRanks, ReadRanks, ReadMatch, CheckReport, Ask
  <2>3. QED BY <1>1, <2>1, <2>2, TypedAfter DEF TypeOK
<1>5. CASE InsertChallenge(h)
  <2>1. [status |-> "PENDING", challenger |-> run[h].p, challenged |-> run[h].q,
         rankDiff |-> 0] \in ChallengeRow
    BY <1>2 DEF ChallengeRow, ChallengeStatus
  <2>2. challenge' \in [Challenge -> ChallengeRow]
    BY <1>1, <1>5, <2>1 DEF InsertChallenge, TypeOK
  <2>3. QED BY <1>1, <1>5, <2>2, TypedAfter
           DEF InsertChallenge, TypeOK, Returns, Becomes
<1>6. CASE CountChallenge(h)
  <2>1. sent' \in [Player -> Nat] /\ accepted' \in [Player -> Nat]
    <3>1. ASSUME NEW n \in [Player -> Nat], NEW x
          PROVE  [n EXCEPT ![x] = @ + 1] \in [Player -> Nat]
      <4>1. CASE x \in Player
        BY <4>1
      <4>2. CASE x \notin Player
        <5>1. [n EXCEPT ![x] = @ + 1] = n
          BY <4>2
        <5>2. QED BY <5>1
      <4>3. QED BY <4>1, <4>2
    <3>2. \/ sent' = [sent EXCEPT ![run[h].p] = @ + 1] /\ accepted' = accepted
          \/ accepted' = [accepted EXCEPT ![run[h].q] = @ + 1] /\ sent' = sent
      BY <1>6 DEF CountChallenge
    <3>3. sent \in [Player -> Nat] /\ accepted \in [Player -> Nat]
      BY <1>1 DEF TypeOK
    <3>4. [sent EXCEPT ![run[h].p] = @ + 1] \in [Player -> Nat]
      BY <3>1, <3>3
    <3>5. [accepted EXCEPT ![run[h].q] = @ + 1] \in [Player -> Nat]
      BY <3>1, <3>3
    <3>6. QED BY <3>2, <3>3, <3>4, <3>5
  <2>2. QED BY <1>1, <1>6, <2>1, TypedAfter DEF CountChallenge, TypeOK, Returns, Becomes
<1>7. CASE EnqueueJob(h)
  <2>1. challengeJobs' \subseteq Challenge /\ scheduleJobs' \subseteq Challenge
    <3>1. PICK c \in Challenge : c = run[h].c
      BY <1>2
    <3>2. CASE challengeJobs' \in Enqueue(challengeJobs, c) /\ scheduleJobs' = scheduleJobs
      BY <1>1, <3>2, EnqueueType DEF TypeOK
    <3>3. CASE scheduleJobs' \in Enqueue(scheduleJobs, c) /\ challengeJobs' = challengeJobs
      BY <1>1, <3>3, EnqueueType DEF TypeOK
    <3>4. QED BY <1>7, <3>1, <3>2, <3>3 DEF EnqueueJob
  <2>2. QED BY <1>1, <1>7, <2>1, TypedAfter DEF EnqueueJob, TypeOK, Returns, Becomes
<1>8. CASE SaveChallenge(h)
  <2>1. Head(run[h].todo) = "saveChallenge"
    BY <1>8 DEF SaveChallenge, Calling
  <2>2. PICK s \in ChallengeStatus : s = NewChallengeStatus[run[h].op]
    BY <1>1, <2>1, Savers, NewStatus
  <2>3. [run[h].challenge EXCEPT !.status = s] \in ChallengeRow
    BY <1>2, <2>2 DEF ChallengeRow
  <2>4. challenge' \in [Challenge -> ChallengeRow]
    BY <1>1, <1>8, <2>2, <2>3 DEF SaveChallenge, TypeOK
  <2>5. QED BY <1>1, <1>8, <2>4, TypedAfter DEF SaveChallenge, TypeOK, Returns, Becomes
<1>9. CASE InsertMatch(h)
  <2>1. match' \in [Challenge -> MatchRow]
    <3>1. PICK c \in Challenge : c = run[h].c
      BY <1>2
    <3>2. [match EXCEPT ![c].status = "PENDING_SCHEDULE"] \in [Challenge -> MatchRow]
      BY <1>1, MatchUpdate DEF TypeOK, MatchStatus
    <3>3. match' = match \/ match' = [match EXCEPT ![c].status = "PENDING_SCHEDULE"]
      BY <1>9, <3>1 DEF InsertMatch
    <3>4. QED BY <1>1, <3>2, <3>3 DEF TypeOK
  <2>2. QED BY <1>1, <1>9, <2>1, TypedAfter
           DEF InsertMatch, TypeOK, Returns, Aborts, Becomes
<1>10. CASE InsertProposal(h)
  <2>1. [status |-> "OPEN", match |-> run[h].c] \in ProposalRow
    BY <1>2 DEF ProposalRow
  <2>2. proposal' \in [Proposal -> ProposalRow]
    BY <1>1, <1>10, <2>1 DEF InsertProposal, TypeOK
  <2>3. QED BY <1>1, <1>10, <2>2, TypedAfter DEF InsertProposal, TypeOK, Returns, Becomes
<1>11. CASE UpdateProposals(h)
  <2>1. \A x \in Proposal, s \in {"SELECTED", "REPLACED"} :
           [proposal[x] EXCEPT !.status = s] \in ProposalRow
    BY <1>1 DEF TypeOK, ProposalRow
  <2>2. proposal' \in [Proposal -> ProposalRow]
    <3>1. PICK c, o : c = run[h].c /\ o = run[h].o
      OBVIOUS
    <3>2. \/ proposal' = [x \in Proposal |->
                IF proposal[x].match = c /\ proposal[x].status = "OPEN"
                THEN [proposal[x] EXCEPT !.status = "REPLACED"] ELSE proposal[x]]
          \/ proposal' = [proposal EXCEPT ![o] = [proposal[o] EXCEPT !.status = "SELECTED"]]
      BY <1>11, <3>1 DEF UpdateProposals
    <3>3. proposal \in [Proposal -> ProposalRow]
      BY <1>1 DEF TypeOK
    <3>4. QED BY <2>1, <3>2, <3>3
  <2>3. QED BY <1>1, <1>11, <2>2, TypedAfter DEF UpdateProposals, TypeOK, Returns, Becomes
<1>12. CASE SaveMatch(h)
  <2>1. PICK s \in MatchStatus \ {"PENDING_SCHEDULE"}, x \in Proposal \cup {None} :
           match' = [match EXCEPT ![run[h].c] = [status |-> s, selected |-> x]]
    BY <1>12, SaveMatchWrites
  <2>2. [status |-> s, selected |-> x] \in MatchRow
    BY DEF MatchRow
  <2>3. match' \in [Challenge -> MatchRow]
    BY <1>1, <2>1, <2>2 DEF TypeOK
  <2>4. QED BY <1>1, <1>12, <2>3, TypedAfter DEF SaveMatch, TypeOK, Returns, Becomes
<1>13. CASE InsertReport(h)
  <2>1. [status |-> "PENDING_CONFIRMATION", reporter |-> run[h].p, confirmer |-> None]
           \in ReportRow
    BY <1>2 DEF ReportRow
  <2>2. report' \in [Challenge -> ReportRow]
    BY <1>1, <1>13, <2>1 DEF InsertReport, TypeOK
  <2>3. QED BY <1>1, <1>13, <2>2, TypedAfter
           DEF InsertReport, TypeOK, Returns, Aborts, Becomes
<1>14. CASE SaveReport(h)
  <2>1. PICK s \in {"CONFIRMED", "REJECTED"}, p, q \in Player \cup {None} :
           report' = [report EXCEPT ![run[h].c] =
                            [status |-> s, reporter |-> p, confirmer |-> q]]
    BY <1>14, SaveReportWrites
  <2>2. [status |-> s, reporter |-> p, confirmer |-> q] \in ReportRow
    BY DEF ReportRow
  <2>3. report' \in [Challenge -> ReportRow]
    BY <1>1, <2>1, <2>2 DEF TypeOK
  <2>4. QED BY <1>1, <1>14, <2>3, TypedAfter DEF SaveReport, TypeOK, Returns, Becomes
<1>15. CASE WriteDispute(h)
  <2>1. dispute' \in [Challenge -> {"none", "OPEN", "RESOLVED"}]
    BY <1>1, <1>15 DEF WriteDispute, TypeOK
  <2>2. QED BY <1>1, <1>15, <2>1, TypedAfter
           DEF WriteDispute, TypeOK, Returns, Aborts, Becomes
<1>16. CASE Award(h)
  <2>1. points' \in [Player -> Nat] /\ awards' \in [Challenge -> Nat]
    <3>1. AwardPoints(run[h].c, run[h].p, run[h].q)
      BY <1>16 DEF Award
    <3>2. QED BY <1>1, <1>2, <3>1, AwardType
  <2>2. QED BY <1>1, <1>16, <2>1, TypedAfter DEF Award, TypeOK, Returns, Becomes
<1>17. CASE AckJob(h)
  <2>1. challengeJobs' \subseteq Challenge /\ scheduleJobs' \subseteq Challenge
    BY <1>1, <1>17 DEF AckJob, TypeOK
  <2>2. QED BY <1>1, <1>17, <2>1, TypedAfter DEF AckJob, TypeOK, Returns, Becomes
<1>18. QED BY <1>4, <1>5, <1>6, <1>7, <1>8, <1>9, <1>10, <1>11, <1>12, <1>13, <1>14, <1>15,
              <1>16, <1>17 DEF Continue

(* A handler starts with a well-typed task.                                 *)
StartsWell(h) == \E t : TaskOK(t) /\ t.todo # <<>> /\ Start(h, t)

LEMMA StartsTask ==
    ASSUME TypeOK, NEW h, NEW op \in Op, NEW c \in Challenge, NEW p \in Player \cup {None},
           NEW q \in Player \cup {None}, NEW o \in Proposal \cup {None},
           Start(h, Task(op, c, p, q, o))
    PROVE  StartsWell(h)
<1>1. PICK t : t = Task(op, c, p, q, o)
  OBVIOUS
<1>2. TaskOK(t) /\ t.todo # <<>>
  BY <1>1, TaskType
<1>3. Start(h, t)
  BY <1>1
<1>4. QED BY <1>2, <1>3 DEF StartsWell

LEMMA PlayerStartsWell ==
    ASSUME HandlersTypeOK, NEW h, NEW c \in Challenge, NEW p \in Player,
           PlayerStarts(h, c, p)
    PROVE  StartsWell(h)
<1>1. /\ TypeOK /\ None \in Player \cup {None} /\ None \in Proposal \cup {None}
      /\ p \in Player \cup {None}
  BY DEF HandlersTypeOK
<1>2. /\ challenge[c].challenger \in Player \cup {None}
      /\ report[c].reporter \in Player \cup {None}
  BY <1>1 DEF TypeOK, ChallengeRow, ReportRow
<1>3. CASE StartChallenge(h, c, p)
  <2>1. ASSUME NEW q \in Player, Start(h, Task("create", c, p, q, None)) PROVE StartsWell(h)
    BY <1>1, <2>1, StartsTask DEF Op
  <2>2. ASSUME NEW op \in {"accept", "decline"},
               Start(h, Task(op, c, challenge[c].challenger, p, None))
        PROVE  StartsWell(h)
    BY <1>1, <1>2, <2>2, StartsTask DEF Op
  <2>3. QED BY <1>3, <2>1, <2>2 DEF StartChallenge
<1>4. ASSUME NEW o \in Proposal, StartSchedule(h, c, p, o) PROVE StartsWell(h)
  <2>1. Start(h, Task("propose", c, p, None, o)) \/ Start(h, Task("select", c, None, p, o))
    BY <1>4 DEF StartSchedule
  <2>2. o \in Proposal \cup {None}
    OBVIOUS
  <2>3. CASE Start(h, Task("propose", c, p, None, o))
    BY <1>1, <2>2, <2>3, StartsTask DEF Op
  <2>4. CASE Start(h, Task("select", c, None, p, o))
    BY <1>1, <2>2, <2>4, StartsTask DEF Op
  <2>5. QED BY <2>1, <2>3, <2>4
<1>5. CASE StartResult(h, c, p)
  <2>1. CASE Start(h, Task("report", c, p, None, None))
    BY <1>1, <2>1, StartsTask DEF Op
  <2>2. ASSUME NEW op \in {"confirm", "refuse"},
               Start(h, Task(op, c, report[c].reporter, p, None))
        PROVE  StartsWell(h)
    BY <1>1, <1>2, <2>2, StartsTask DEF Op
  <2>3. QED BY <1>5, <2>1, <2>2 DEF StartResult
<1>6. QED BY <1>3, <1>4, <1>5 DEF PlayerStarts

LEMMA OpponentType ==
    ASSUME TypeOK, NEW c \in Challenge, NEW p
    PROVE  Opponent(c, p) \in Player \cup {None}
BY DEF Opponent, TypeOK, ChallengeRow

LEMMA AdminStartsWell ==
    ASSUME HandlersTypeOK, NEW h, NEW c \in Challenge, StartAdmin(h, c)
    PROVE  StartsWell(h)
<1>1. /\ TypeOK /\ None \in Player \cup {None} /\ None \in Proposal \cup {None}
  BY DEF HandlersTypeOK
<1>2. report[c].reporter \in Player \cup {None}
  BY <1>1 DEF TypeOK, ReportRow
<1>3. ASSUME NEW op \in {"cancha", "cancelar"}, Start(h, Task(op, c, None, None, None))
      PROVE  StartsWell(h)
  BY <1>1, <1>3, StartsTask DEF Op
<1>4. ASSUME NEW w \in Player, Start(h, Task("walkover", c, w, Opponent(c, w), None))
      PROVE  StartsWell(h)
  BY <1>1, <1>4, OpponentType, StartsTask DEF Op
<1>5. CASE Start(h, Task("disputa", c, report[c].reporter, Opponent(c, report[c].reporter),
                         None))
  BY <1>1, <1>2, <1>5, OpponentType, StartsTask DEF Op
<1>6. QED BY <1>3, <1>4, <1>5 DEF StartAdmin

LEMMA JobStartsWell ==
    ASSUME HandlersTypeOK, NEW h, NEW c \in Challenge, StartJob(h, c)
    PROVE  StartsWell(h)
<1>1. /\ TypeOK /\ None \in Player \cup {None} /\ None \in Proposal \cup {None}
  BY DEF HandlersTypeOK
<1>2. ASSUME NEW op \in {"expire", "agenda"}, Start(h, Task(op, c, None, None, None))
      PROVE  StartsWell(h)
  BY <1>1, <1>2, StartsTask DEF Op
<1>3. ASSUME NEW op \in {"expire", "agenda"}, NEW call \in Own(op),
             Start(h, [Task(op, c, None, None, None) EXCEPT !.todo = <<call>>])
      PROVE  StartsWell(h)
  <2>1. op \in Op
    BY <1>3 DEF Op
  <2>2. PICK t : t = Task(op, c, None, None, None)
    OBVIOUS
  <2>3. TaskOK(t) /\ t.op = op
    <3>1. TaskOK(t)
      BY <1>1, <2>1, <2>2, TaskType
    <3>2. QED BY <2>2, <3>1, TaskIs
  <2>4. PICK x \in Op : t \in TaskRow(x)
    BY <2>3 DEF TaskOK
  <2>5. x = op
    BY <2>3, <2>4 DEF TaskRow
  <2>6. PICK u : u = [t EXCEPT !.todo = <<call>>]
    OBVIOUS
  <2>7. <<call>> \in Seq(Own(op))
    BY <2>1
  <2>8. u \in TaskRow(op) /\ u.todo = <<call>>
    BY <2>4, <2>5, <2>6, <2>7 DEF TaskRow
  <2>9. TaskOK(u) /\ u.todo # <<>>
    BY <2>1, <2>8 DEF TaskOK
  <2>10. QED BY <1>3, <2>2, <2>6, <2>9 DEF StartsWell
<1>4. \/ \E op \in {"expire", "agenda"} : Start(h, Task(op, c, None, None, None))
      \/ Start(h, [Task("expire", c, None, None, None) EXCEPT !.todo = <<"ackExpire">>])
      \/ Start(h, [Task("agenda", c, None, None, None) EXCEPT !.todo = <<"ackAgenda">>])
  BY DEF StartJob
<1>5. "ackExpire" \in Own("expire") /\ "ackAgenda" \in Own("agenda")
  BY OwnAre
<1>6. QED BY <1>2, <1>3, <1>4, <1>5

LEMMA StartRun ==
    ASSUME RunOK, NEW h \in Handler, StartsWell(h)
    PROVE  RunOK' /\ UNCHANGED <<vars, asked, settled, crashes>>
<1>1. PICK t : TaskOK(t) /\ t.todo # <<>> /\ Start(h, t)
  BY DEF StartsWell
<1>2. run' = [run EXCEPT ![h] = t] /\ UNCHANGED <<vars, asked, settled, crashes>>
  BY <1>1 DEF Start
<1>3. /\ run' = [x \in Handler |-> run'[x]]
      /\ run'[h] = t /\ \A x \in Handler : x # h => run'[x] = run[x]
  BY <1>2, RunExcept
<1>4. QED BY <1>1, <1>2, <1>3, RunUpdate

LEMMA TypedVars ==
    ASSUME TypeOK, UNCHANGED vars PROVE TypeOK'
BY TypedAfter DEF vars, rows, limits, jobs, score, TypeOK

(* However many handlers are in flight and however often the process dies,  *)
(* tables and tasks keep their types, and a handler has only calls of its   *)
(* own operation left.                                                      *)
LEMMA HandlersTypeStep == HandlersTypeOK /\ [NextHandlers]_handlerVars => HandlersTypeOK'
<1> SUFFICES ASSUME HandlersTypeOK, [NextHandlers]_handlerVars PROVE HandlersTypeOK'
  OBVIOUS
<1>1. ASSUME NEW h \in Handler, Continue(h) PROVE HandlersTypeOK'
  BY <1>1, ContinueRun, TablesStep DEF HandlersTypeOK
<1>2. ASSUME NEW h \in Handler, StartsWell(h) PROVE HandlersTypeOK'
  <2>1. RunOK' /\ UNCHANGED vars /\ asked' = asked
    BY <1>2, StartRun DEF HandlersTypeOK
  <2>2. TypeOK'
    BY <2>1, TypedVars DEF HandlersTypeOK
  <2>3. QED BY <2>1, <2>2 DEF HandlersTypeOK
<1>3. ASSUME NEW c \in Challenge, Wait(c) PROVE HandlersTypeOK'
  <2>1. TypeOK'
    BY <1>3, TypedAfter DEF Wait, PassExpiry, HandlersTypeOK, TypeOK, rows, limits, score
  <2>2. run' = run /\ asked' = asked
    BY <1>3 DEF Wait
  <2>3. RunOK'
    BY <2>2 DEF HandlersTypeOK, RunOK, TaskOK, TaskRow
  <2>4. QED BY <2>1, <2>2, <2>3 DEF HandlersTypeOK
<1>4. CASE Die
  <2>1. TypeOK'
    BY <1>4, TypedVars DEF Die, HandlersTypeOK
  <2>2. RunOK'
    BY <1>4 DEF Die, RunOK
  <2>3. QED BY <1>4, <2>1, <2>2 DEF HandlersTypeOK, Die
<1>5. CASE UNCHANGED handlerVars
  <2>1. UNCHANGED vars /\ run' = run /\ asked' = asked
    BY <1>5 DEF handlerVars
  <2>2. TypeOK'
    BY <2>1, TypedVars DEF HandlersTypeOK
  <2>3. RunOK'
    BY <2>1 DEF HandlersTypeOK, RunOK, TaskOK, TaskRow
  <2>4. QED BY <2>1, <2>2, <2>3 DEF HandlersTypeOK
<1>6. ASSUME NEW h \in Handler, NEW c \in Challenge, StartJob(h, c) \/ StartAdmin(h, c)
      PROVE  HandlersTypeOK'
  BY <1>2, <1>6, JobStartsWell, AdminStartsWell
<1>7. ASSUME NEW h \in Handler, NEW c \in Challenge, NEW p \in Player,
             PlayerStarts(h, c, p)
      PROVE  HandlersTypeOK'
  BY <1>2, <1>7, PlayerStartsWell
<1>8. QED BY <1>1, <1>3, <1>4, <1>5, <1>6, <1>7 DEF NextHandlers

LEMMA HandlersTypeInit == InitHandlers => HandlersTypeOK
<1> SUFFICES ASSUME InitHandlers PROVE HandlersTypeOK
  OBVIOUS
<1>1. TypeOK
  BY DEF InitHandlers, Init, TypeOK, ChallengeRow, MatchRow, ProposalRow, ReportRow
<1>2. RunOK
  BY DEF InitHandlers, RunOK
<1>3. QED BY <1>1, <1>2 DEF InitHandlers, HandlersTypeOK

(* The tables keep their types, and a task holds copies of rows and a rest *)
(* of the calls of its operation.                                          *)
THEOREM HandlersTyped == HandlersSpec => []HandlersTypeOK
BY HandlersTypeInit, HandlersTypeStep, PTL DEF HandlersSpec

-----------------------------------------------------------------------------
(* Nothing starts over                                                      *)

(* A match is only inserted where there is none, and no save takes one back *)
(* to PENDING_SCHEDULE.                                                     *)
LEMMA MatchGoesOn ==
    ASSUME HandlersTypeOK, NEW h \in Handler, Continue(h), NEW c \in Challenge,
           match[c].status \notin {"none", "PENDING_SCHEDULE"}
    PROVE  match'[c].status # "PENDING_SCHEDULE"
<1>1. match \in [Challenge -> MatchRow]
  BY DEF HandlersTypeOK, TypeOK
<1>2. CASE InsertMatch(h)
  <2>1. PICK d : d = run[h].c
    OBVIOUS
  <2>2. \/ match' = match
        \/ match[d].status = "none" /\ match' = [match EXCEPT ![d].status = "PENDING_SCHEDULE"]
    BY <1>2, <2>1 DEF InsertMatch
  <2>3. QED BY <1>1, <2>2
<1>3. CASE SaveMatch(h)
  <2>1. PICK s \in MatchStatus \ {"PENDING_SCHEDULE"}, x \in Proposal \cup {None} :
           match' = [match EXCEPT ![run[h].c] = [status |-> s, selected |-> x]]
    BY <1>3, SaveMatchWrites
  <2>2. QED BY <1>1, <2>1
<1>4. match' = match \/ InsertMatch(h) \/ SaveMatch(h)
  BY DEF Continue, CheckRanks, InsertChallenge, CountChallenge, EnqueueJob, ReadRanks,
         SaveChallenge, InsertProposal, UpdateProposals, ReadMatch,
         CheckReport, InsertReport, Ask, SaveReport, WriteDispute, Award, AckJob, rows
<1>5. QED BY <1>2, <1>3, <1>4

(* A report is only inserted where there is none, and a save decides it.    *)
LEMMA ReportGoesOn ==
    ASSUME HandlersTypeOK, NEW h \in Handler, Continue(h), NEW c \in Challenge,
           report[c].status \in {"CONFIRMED", "REJECTED"}
    PROVE  report'[c].status # "PENDING_CONFIRMATION"
<1>1. report \in [Challenge -> ReportRow]
  BY DEF HandlersTypeOK, TypeOK
<1>2. CASE InsertReport(h)
  <2>1. PICK d, p : d = run[h].c /\ p = run[h].p
    OBVIOUS
  <2>2. \/ report' = report
        \/ /\ report[d].status = "none"
           /\ report' = [report EXCEPT ![d] = [status |-> "PENDING_CONFIRMATION",
                                               reporter |-> p, confirmer |-> None]]
    BY <1>2, <2>1 DEF InsertReport
  <2>3. QED BY <1>1, <2>2
<1>3. CASE SaveReport(h)
  <2>1. PICK s \in {"CONFIRMED", "REJECTED"}, p, q \in Player \cup {None} :
           report' = [report EXCEPT ![run[h].c] =
                            [status |-> s, reporter |-> p, confirmer |-> q]]
    BY <1>3, SaveReportWrites
  <2>2. QED BY <1>1, <2>1
<1>4. report' = report \/ InsertReport(h) \/ SaveReport(h)
  BY DEF Continue, CheckRanks, InsertChallenge, CountChallenge, EnqueueJob, ReadRanks,
         SaveChallenge, InsertMatch, InsertProposal, UpdateProposals, ReadMatch, SaveMatch,
         CheckReport, Ask, WriteDispute, Award, AckJob, rows
<1>5. QED BY <1>2, <1>3, <1>4

(* A dispute is only inserted where there is none, and a save resolves it.  *)
LEMMA DisputeGoesOn ==
    ASSUME HandlersTypeOK, NEW h \in Handler, Continue(h), NEW c \in Challenge,
           dispute[c] = "RESOLVED"
    PROVE  dispute'[c] = "RESOLVED"
<1>1. dispute \in [Challenge -> {"none", "OPEN", "RESOLVED"}]
  BY DEF HandlersTypeOK, TypeOK
<1>2. CASE WriteDispute(h)
  <2>1. PICK d : d = run[h].c
    OBVIOUS
  <2>2. \/ dispute' = dispute
        \/ dispute[d] = "none" /\ dispute' = [dispute EXCEPT ![d] = "OPEN"]
        \/ dispute' = [dispute EXCEPT ![d] = "RESOLVED"]
    BY <1>2, <2>1 DEF WriteDispute
  <2>3. QED BY <1>1, <2>2
<1>3. dispute' = dispute \/ WriteDispute(h)
  BY DEF Continue, CheckRanks, InsertChallenge, CountChallenge, EnqueueJob, ReadRanks,
         SaveChallenge, InsertMatch, InsertProposal, UpdateProposals, ReadMatch, SaveMatch,
         CheckReport, InsertReport, Ask, SaveReport, Award, AckJob, rows
<1>4. QED BY <1>2, <1>3

(* Other steps than a handler's calls leave the tables alone.               *)
LEMMA TablesStay ==
    ASSUME HandlersTypeOK, [NextHandlers]_handlerVars, \A h \in Handler : ~Continue(h)
    PROVE  UNCHANGED <<rows, limits, challengeJobs, scheduleJobs, score, asked>>
<1> USE DEF vars, jobs
<1>1. ASSUME NEW h \in Handler, StartsWell(h)
      PROVE  UNCHANGED <<rows, limits, challengeJobs, scheduleJobs, score, asked>>
  BY <1>1, StartRun DEF HandlersTypeOK
<1>2. ASSUME NEW c \in Challenge, Wait(c)
      PROVE  UNCHANGED <<rows, limits, challengeJobs, scheduleJobs, score, asked>>
  BY <1>2 DEF Wait, PassExpiry
<1>3. CASE Die \/ UNCHANGED handlerVars
  BY <1>3 DEF Die, handlerVars
<1>4. ASSUME NEW h \in Handler, NEW c \in Challenge, StartJob(h, c) \/ StartAdmin(h, c)
      PROVE  UNCHANGED <<rows, limits, challengeJobs, scheduleJobs, score, asked>>
  BY <1>1, <1>4, JobStartsWell, AdminStartsWell
<1>5. ASSUME NEW h \in Handler, NEW c \in Challenge, NEW p \in Player,
             PlayerStarts(h, c, p)
      PROVE  UNCHANGED <<rows, limits, challengeJobs, scheduleJobs, score, asked>>
  BY <1>1, <1>5, PlayerStartsWell
<1>6. QED BY <1>2, <1>3, <1>4, <1>5 DEF NextHandlers

LEMMA GoesOn ==
    HandlersTypeOK /\ [NextHandlers]_handlerVars => \A c \in Challenge : ~StartsOver(c)
<1> SUFFICES ASSUME HandlersTypeOK, [NextHandlers]_handlerVars, NEW c \in Challenge
             PROVE  ~StartsOver(c)
  OBVIOUS
<1>1. ASSUME NEW h \in Handler, Continue(h) PROVE ~StartsOver(c)
  BY <1>1, MatchGoesOn, ReportGoesOn, DisputeGoesOn DEF StartsOver
<1>2. CASE \A h \in Handler : ~Continue(h)
  <2>1. match' = match /\ report' = report /\ dispute' = dispute
    BY <1>2, TablesStay DEF rows
  <2>2. QED BY <2>1 DEF StartsOver
<1>3. QED BY <1>1, <1>2

(* However many handlers interleave on stale copies and whatever crashes,   *)
(* no match, report or dispute goes back to its first status once it has    *)
(* left it: the inserts of match.service and result.service are guarded by  *)
(* UNIQUE constraints, and no handler saves a first status.                 *)
THEOREM NothingReopens == HandlersSpec => NothingStartsOver
<1>1. HandlersTypeOK /\ [NextHandlers]_handlerVars
         => [\A c \in Challenge : ~StartsOver(c)]_handlerVars
  BY GoesOn
<1>2. QED BY <1>1, HandlersTyped, PTL DEF HandlersSpec, NothingStartsOver

-----------------------------------------------------------------------------
(* One handler at a time and crashes                                        *)

(* What a crash may leave of one challenge and its match.                   *)
Sound(c) ==
    /\ awards[c] \in {0, 1}
    /\ awards[c] = 1 => match[c].status = "CLOSED"
    /\ match[c].status = "CLOSED" => report[c].status = "CONFIRMED"
    /\ match[c].status # "none" => challenge[c].status = "ACCEPTED"
    /\ report[c].status # "none" => match[c].selected # None /\ match[c].status # "none"
    /\ match[c].status = "SCHEDULED" => match[c].selected # None
    /\ dispute[c] = "OPEN" => report[c].status = "REJECTED" /\ match[c].status = "DISPUTED"

(* Where the handler of a player or a job may be, and what it has found or  *)
(* written by then.                                                         *)
CreateAt(t) ==
    /\ t.op = "create"
    /\ \/ /\ t.todo \in {<<"checkRanks", "insertChallenge", "countSent", "enqueueExpire">>,
                         <<"insertChallenge", "countSent", "enqueueExpire">>}
          /\ challenge[t.c].status = "none"
       \/ t.todo \in {<<"countSent", "enqueueExpire">>, <<"enqueueExpire">>}

AcceptAt(t) ==
    /\ t.op = "accept"
    /\ \/ /\ t.todo \in {<<"readRanks", "saveChallenge", "countAccepted", "insertMatch",
                           "enqueueAgenda">>,
                         <<"saveChallenge", "countAccepted", "insertMatch", "enqueueAgenda">>}
          /\ challenge[t.c].status = "PENDING"
       \/ /\ t.todo \in {<<"countAccepted", "insertMatch", "enqueueAgenda">>,
                         <<"insertMatch", "enqueueAgenda">>}
          /\ challenge[t.c].status = "ACCEPTED"
       \/ t.todo = <<"enqueueAgenda">>

DeclineAt(t) ==
    /\ t.op = "decline" /\ t.todo = <<"saveChallenge">>
    /\ challenge[t.c].status = "PENDING"

ProposeAt(t) == t.op = "propose" /\ t.todo = <<"insertProposal">>

SelectAt(t) ==
    /\ t.op = "select"
    /\ \/ /\ t.todo = <<"saveMatch", "replaceOpen", "selectProposal">>
          /\ match[t.c].status = "PENDING_SCHEDULE" /\ t.o # None
       \/ t.todo \in {<<"replaceOpen", "selectProposal">>, <<"selectProposal">>}

ReportAt(t) ==
    /\ t.op = "report"
    /\ \/ /\ t.todo \in {<<"checkReport", "insertReport", "saveMatch", "ask">>,
                         <<"insertReport", "saveMatch", "ask">>, <<"saveMatch", "ask">>}
          /\ match[t.c].status = "SCHEDULED" /\ t.match = match[t.c]
       \/ t.todo = <<"ask">>

(* A verdict is being written: confirm and refuse.                          *)
Undecided(c) ==
    /\ awards[c] = 0 /\ dispute[c] # "OPEN"
    /\ match[c].status \notin {"none", "CLOSED"} /\ match[c].selected # None

ConfirmAt(t) ==
    /\ t.op = "confirm"
    /\ \/ /\ t.todo = <<"readMatch", "saveReport", "saveMatch", "award">>
          /\ report[t.c].status = "PENDING_CONFIRMATION"
       \/ /\ t.todo = <<"saveReport", "saveMatch", "award">>
          /\ report[t.c].status = "PENDING_CONFIRMATION" /\ t.match = match[t.c]
       \/ /\ t.todo = <<"saveMatch", "award">>
          /\ report[t.c].status = "CONFIRMED" /\ t.match = match[t.c] /\ Undecided(t.c)
       \/ /\ t.todo = <<"award">>
          /\ report[t.c].status = "CONFIRMED" /\ match[t.c].status = "CLOSED"
          /\ awards[t.c] = 0

RefuseAt(t) ==
    /\ t.op = "refuse"
    /\ \/ /\ t.todo = <<"readMatch", "saveReport", "saveMatch", "insertDispute">>
          /\ report[t.c].status = "PENDING_CONFIRMATION"
       \/ /\ t.todo = <<"saveReport", "saveMatch", "insertDispute">>
          /\ report[t.c].status = "PENDING_CONFIRMATION" /\ t.match = match[t.c]
       \/ /\ t.todo = <<"saveMatch", "insertDispute">>
          /\ report[t.c].status = "REJECTED" /\ t.match = match[t.c] /\ Undecided(t.c)
       \/ /\ t.todo = <<"insertDispute">>
          /\ report[t.c].status = "REJECTED" /\ match[t.c].status = "DISPUTED"

ExpireAt(t) ==
    /\ t.op = "expire"
    /\ \/ /\ t.todo = <<"saveChallenge", "ackExpire">>
          /\ challenge[t.c].status = "PENDING"
       \/ t.todo = <<"ackExpire">>

AgendaAt(t) ==
    /\ t.op = "agenda"
    /\ \/ /\ t.todo = <<"saveMatch", "ackAgenda">>
          /\ match[t.c].status = "PENDING_SCHEDULE" /\ t.match = match[t.c]
       \/ t.todo = <<"ackAgenda">>

Midway(t) ==
    \/ CreateAt(t) \/ AcceptAt(t) \/ DeclineAt(t) \/ ProposeAt(t) \/ SelectAt(t)
    \/ ReportAt(t) \/ ConfirmAt(t) \/ RefuseAt(t) \/ ExpireAt(t) \/ AgendaAt(t)

CrashInv ==
    /\ \A c \in Challenge : Sound(c)
    /\ \A h \in Handler : run[h] = Idle \/ Midway(run[h])

(* Which action makes a call.                                               *)
LEMMA CallIs ==
    ASSUME NEW h, Continue(h), NEW call, Head(run[h].todo) = call
    PROVE  /\ call = "checkRanks" => CheckRanks(h)
           /\ call = "insertChallenge" => InsertChallenge(h)
           /\ call \in {"countSent", "countAccepted"} => CountChallenge(h)
           /\ call \in {"enqueueExpire", "enqueueAgenda"} => EnqueueJob(h)
           /\ call = "readRanks" => ReadRanks(h)
           /\ call = "saveChallenge" => SaveChallenge(h)
           /\ call = "insertMatch" => InsertMatch(h)
           /\ call = "insertProposal" => InsertProposal(h)
           /\ call \in {"replaceOpen", "selectProposal"} => UpdateProposals(h)
           /\ call = "readMatch" => ReadMatch(h)
           /\ call = "saveMatch" => SaveMatch(h)
           /\ call = "checkReport" => CheckReport(h)
           /\ call = "insertReport" => InsertReport(h)
           /\ call = "ask" => Ask(h)
           /\ call \in {"saveReport", "saveLoser"} => SaveReport(h)
           /\ call \in {"insertDispute", "saveDispute"} => WriteDispute(h)
           /\ call = "award" => Award(h)
           /\ call \in {"ackExpire", "ackAgenda"} => AckJob(h)
<1>1. /\ CheckRanks(h) => call = "checkRanks"
      /\ InsertChallenge(h) => call = "insertChallenge"
      /\ CountChallenge(h) => call \in {"countSent", "countAccepted"}
      /\ EnqueueJob(h) => call \in {"enqueueExpire", "enqueueAgenda"}
      /\ ReadRanks(h) => call = "readRanks"
      /\ SaveChallenge(h) => call = "saveChallenge"
  BY DEF Calling, CheckRanks, InsertChallenge, CountChallenge, EnqueueJob, ReadRanks,
         SaveChallenge
<1>2. /\ InsertMatch(h) => call = "insertMatch"
      /\ InsertProposal(h) => call = "insertProposal"
      /\ UpdateProposals(h) => call \in {"replaceOpen", "selectProposal"}
      /\ ReadMatch(h) => call = "readMatch"
      /\ SaveMatch(h) => call = "saveMatch"
      /\ CheckReport(h) => call = "checkReport"
  BY DEF Calling, InsertMatch, InsertProposal, UpdateProposals, ReadMatch, SaveMatch,
         CheckReport
<1>3. /\ InsertReport(h) => call = "insertReport"
      /\ Ask(h) => call = "ask"
      /\ SaveReport(h) => call \in {"saveReport", "saveLoser"}
      /\ WriteDispute(h) => call \in {"insertDispute", "saveDispute"}
      /\ Award(h) => call = "award"
      /\ AckJob(h) => call \in {"ackExpire", "ackAgenda"}
  BY DEF Calling, InsertReport, Ask, SaveReport, WriteDispute, Award, AckJob
<1>4. QED BY <1>1, <1>2, <1>3 DEF Continue

(* The last call is made, or the next one is up.                            *)
LEMMA Finishes ==
    ASSUME HandlersTypeOK, NEW h \in Handler, Returns(h), Tail(run[h].todo) = <<>>,
           run[h].todo # <<>>
    PROVE  run'[h] = Idle
<1>1. TaskOK(run[h])
  BY HeadOwned
<1>2. PICK r : r = Rest(h)
  OBVIOUS
<1>3. r.todo = <<>>
  BY <1>1, <1>2, TaskColumns, Shorter DEF Rest
<1>4. run' = [run EXCEPT ![h] = Idle]
  BY <1>2, <1>3 DEF Returns, Becomes
<1>5. QED BY <1>4, RunExcept DEF HandlersTypeOK

LEMMA Advances ==
    ASSUME HandlersTypeOK, NEW h \in Handler, Returns(h), run[h].todo # <<>>,
           Tail(run[h].todo) # <<>>
    PROVE  /\ run'[h].todo = Tail(run[h].todo) /\ run'[h].op = run[h].op /\ run'[h].c = run[h].c
           /\ run'[h].p = run[h].p /\ run'[h].q = run[h].q /\ run'[h].o = run[h].o
           /\ run'[h].challenge = run[h].challenge /\ run'[h].match = run[h].match
           /\ run'[h].report = run[h].report
<1>1. PICK t : t = run[h]
  OBVIOUS
<1>2. TaskOK(t) /\ t.todo # <<>>
  BY <1>1, HeadOwned
<1>3. PICK r : r = Rest(h)
  OBVIOUS
<1>4. r = [t EXCEPT !.todo = Tail(@)]
  BY <1>1, <1>3 DEF Rest
<1>5. /\ r.todo = Tail(t.todo) /\ r.op = t.op /\ r.c = t.c /\ r.p = t.p /\ r.q = t.q
      /\ r.o = t.o
      /\ r.challenge = t.challenge /\ r.match = t.match /\ r.report = t.report
  BY <1>2, <1>4, Shorter
<1>6. run' = [run EXCEPT ![h] = r]
  BY <1>1, <1>3, <1>5 DEF Returns, Becomes
<1>7. run'[h] = r
  BY <1>6, RunExcept DEF HandlersTypeOK
<1>8. QED BY <1>1, <1>5, <1>7


(* The tables Sound speaks of.                                              *)
debt == <<challenge, match, report, dispute, awards>>

LEMMA SoundAside ==
    ASSUME UNCHANGED debt, \A d \in Challenge : Sound(d)
    PROVE  \A d \in Challenge : Sound(d)'
BY DEF debt, Sound

LEMMA SoundAt ==
    ASSUME NEW c \in Challenge, \A d \in Challenge : Sound(d), Sound(c)',
           \A d \in Challenge : d # c =>
              /\ challenge'[d] = challenge[d] /\ match'[d] = match[d]
              /\ report'[d] = report[d] /\ dispute'[d] = dispute[d]
              /\ awards'[d] = awards[d]
    PROVE  \A d \in Challenge : Sound(d)'
<1>1. ASSUME NEW d \in Challenge, d # c PROVE Sound(d)'
  BY <1>1 DEF Sound
<1>2. QED BY <1>1

(* The calls that leave those tables alone.                                 *)
LEMMA AsideCalls ==
    ASSUME NEW h, \/ CheckRanks(h) \/ CountChallenge(h) \/ EnqueueJob(h) \/ ReadRanks(h)
                  \/ InsertProposal(h) \/ UpdateProposals(h) \/ ReadMatch(h)
                  \/ CheckReport(h) \/ Ask(h) \/ AckJob(h)
    PROVE  UNCHANGED debt
BY DEF debt, rows, score, CheckRanks, CountChallenge, EnqueueJob, ReadRanks, InsertProposal,
       UpdateProposals, ReadMatch, CheckReport, Ask, AckJob

LEMMA GivesUp == ASSUME HandlersTypeOK, NEW h \in Handler, Aborts(h) PROVE run'[h] = Idle
<1>1. run' = [run EXCEPT ![h] = Idle]
  BY DEF Aborts, Becomes, Idle
<1>2. QED BY <1>1, RunExcept DEF HandlersTypeOK

LEMMA CreateStep ==
    ASSUME HandlersTypeOK, NEW h \in Handler, \A d \in Challenge : Sound(d),
           CreateAt(run[h]), Continue(h)
    PROVE  (\A d \in Challenge : Sound(d)') /\ (run'[h] = Idle \/ CreateAt(run[h])')
<1>1. CASE run[h].todo = <<"checkRanks", "insertChallenge", "countSent", "enqueueExpire">>
  <2>1. CheckRanks(h)
    BY <1>1, CallIs
  <2>2. UNCHANGED debt
    BY <2>1, AsideCalls
  <2>3. CASE Aborts(h)
    BY <2>2, <2>3, GivesUp, SoundAside
  <2>4. CASE Returns(h)
    <3>1. /\ run[h].todo # <<>> /\ Tail(run[h].todo) # <<>>
          /\ Tail(run[h].todo) = <<"insertChallenge", "countSent", "enqueueExpire">>
      BY <1>1
    <3>2. /\ run'[h].todo = Tail(run[h].todo)
          /\ run'[h].op = run[h].op /\ run'[h].c = run[h].c
      BY <2>4, <3>1, Advances
    <3>3. CreateAt(run[h])'
      BY <1>1, <2>2, <3>1, <3>2 DEF CreateAt, debt
    <3>4. QED BY <2>2, <3>3, SoundAside
  <2>5. QED BY <2>1, <2>3, <2>4 DEF CheckRanks
<1>2. CASE run[h].todo = <<"insertChallenge", "countSent", "enqueueExpire">>
  <2>1. /\ run[h].todo # <<>> /\ Tail(run[h].todo) # <<>>
        /\ Tail(run[h].todo) = <<"countSent", "enqueueExpire">>
    BY <1>2
  <2>2. InsertChallenge(h)
    BY <1>2, CallIs
  <2>3. PICK c \in Challenge : c = run[h].c
    BY <2>1, HeadOwned
  <2>4. /\ \A d \in Challenge : d # c => challenge'[d] = challenge[d]
        /\ UNCHANGED <<match, report, dispute, awards>>
    BY <2>2, <2>3 DEF InsertChallenge, score, HandlersTypeOK, TypeOK
  <2>5. challenge[c].status = "none"
    BY <1>2, <2>3 DEF CreateAt
  <2>6. Sound(c)'
    BY <2>4, <2>5 DEF Sound
  <2>7. \A d \in Challenge : Sound(d)'
    BY <2>4, <2>6, SoundAt
  <2>8. run'[h].todo = Tail(run[h].todo) /\ run'[h].op = run[h].op
    BY <2>1, <2>2, Advances DEF InsertChallenge
  <2>9. CreateAt(run[h])'
    BY <2>1, <2>8 DEF CreateAt
  <2>10. QED BY <2>7, <2>9
<1>3. CASE run[h].todo = <<"countSent", "enqueueExpire">>
  <2>1. /\ run[h].todo # <<>> /\ Tail(run[h].todo) # <<>>
        /\ Tail(run[h].todo) = <<"enqueueExpire">>
    BY <1>3
  <2>2. CountChallenge(h)
    BY <1>3, CallIs
  <2>3. UNCHANGED debt
    BY <2>2, AsideCalls
  <2>4. run'[h].todo = Tail(run[h].todo) /\ run'[h].op = run[h].op
    BY <2>1, <2>2, Advances DEF CountChallenge
  <2>5. CreateAt(run[h])'
    BY <2>1, <2>4 DEF CreateAt
  <2>6. QED BY <2>3, <2>5, SoundAside
<1>4. CASE run[h].todo = <<"enqueueExpire">>
  <2>1. run[h].todo # <<>> /\ Tail(run[h].todo) = <<>>
    BY <1>4
  <2>2. EnqueueJob(h)
    BY <1>4, CallIs
  <2>3. UNCHANGED debt
    BY <2>2, AsideCalls
  <2>4. run'[h] = Idle
    BY <2>1, <2>2, Finishes DEF EnqueueJob
  <2>5. QED BY <2>3, <2>4, SoundAside
<1>5. QED BY <1>1, <1>2, <1>3, <1>4 DEF CreateAt

(* A handler that reads a row again holds it in the place of the old copy.  *)
LEMMA RanksAreRead ==
    ASSUME HandlersTypeOK, NEW h \in Handler, ReadRanks(h), run[h].todo # <<>>,
           Tail(run[h].todo) # <<>>
    PROVE  /\ run'[h].todo = Tail(run[h].todo) /\ run'[h].op = run[h].op
           /\ run'[h].c = run[h].c /\ run'[h].p = run[h].p /\ run'[h].q = run[h].q
           /\ run'[h].challenge
                 = [run[h].challenge EXCEPT !.rankDiff = RankGap(run[h].p, run[h].q)]
<1>1. PICK t : t = run[h]
  OBVIOUS
<1>2. TaskOK(t) /\ t.todo # <<>>
  BY <1>1, HeadOwned
<1>3. PICK r : r = Rest(h)
  OBVIOUS
<1>4. r = [t EXCEPT !.todo = Tail(@)]
  BY <1>1, <1>3 DEF Rest
<1>5. /\ r.todo = Tail(t.todo) /\ r.op = t.op /\ r.c = t.c /\ r.p = t.p /\ r.q = t.q
      /\ r.challenge = t.challenge /\ TaskOK(r)
  BY <1>2, <1>4, Shorter
<1>6. PICK d : d = RankGap(run[h].p, run[h].q)
  OBVIOUS
<1>7. PICK u : u = [r EXCEPT !.challenge.rankDiff = d]
  OBVIOUS
<1>8. Becomes(h, u)
  BY <1>3, <1>6, <1>7 DEF ReadRanks
<1>9. PICK op \in Op : r \in TaskRow(op)
  BY <1>5 DEF TaskOK
<1>10. /\ u.todo = r.todo /\ u.op = r.op /\ u.c = r.c /\ u.p = r.p /\ u.q = r.q
       /\ u.challenge = [r.challenge EXCEPT !.rankDiff = d]
  BY <1>7, <1>9 DEF TaskRow
<1>11. run' = [run EXCEPT ![h] = u]
  BY <1>1, <1>5, <1>8, <1>10 DEF Becomes
<1>12. run'[h] = u
  BY <1>11, RunExcept DEF HandlersTypeOK
<1>13. QED BY <1>1, <1>5, <1>6, <1>10, <1>12

LEMMA MatchIsRead ==
    ASSUME HandlersTypeOK, NEW h \in Handler, ReadMatch(h), run[h].todo # <<>>,
           Tail(run[h].todo) # <<>>
    PROVE  /\ run'[h].todo = Tail(run[h].todo) /\ run'[h].op = run[h].op
           /\ run'[h].c = run[h].c /\ run'[h].p = run[h].p /\ run'[h].q = run[h].q
           /\ run'[h].match = match[run[h].c] /\ run'[h].report = run[h].report
<1>1. PICK t : t = run[h]
  OBVIOUS
<1>2. TaskOK(t) /\ t.todo # <<>>
  BY <1>1, HeadOwned
<1>3. PICK r : r = Rest(h)
  OBVIOUS
<1>4. r = [t EXCEPT !.todo = Tail(@)]
  BY <1>1, <1>3 DEF Rest
<1>5. /\ r.todo = Tail(t.todo) /\ r.op = t.op /\ r.c = t.c /\ r.p = t.p /\ r.q = t.q
      /\ r.report = t.report /\ TaskOK(r)
  BY <1>2, <1>4, Shorter
<1>6. PICK m : m = match[run[h].c]
  OBVIOUS
<1>7. PICK u : u = [r EXCEPT !.match = m]
  OBVIOUS
<1>8. Becomes(h, u)
  BY <1>3, <1>6, <1>7 DEF ReadMatch
<1>9. PICK op \in Op : r \in TaskRow(op)
  BY <1>5 DEF TaskOK
<1>10. /\ u.todo = r.todo /\ u.op = r.op /\ u.c = r.c /\ u.p = r.p /\ u.q = r.q
       /\ u.match = m /\ u.report = r.report
  BY <1>7, <1>9 DEF TaskRow
<1>11. run' = [run EXCEPT ![h] = u]
  BY <1>1, <1>5, <1>8, <1>10 DEF Becomes
<1>12. run'[h] = u
  BY <1>11, RunExcept DEF HandlersTypeOK
<1>13. QED BY <1>1, <1>5, <1>6, <1>10, <1>12

LEMMA NewStatusAre ==
    /\ NewChallengeStatus["accept"] = "ACCEPTED" /\ NewChallengeStatus["decline"] = "REJECTED"
    /\ NewChallengeStatus["expire"] = "EXPIRED"
    /\ NewMatchStatus["select"] = "SCHEDULED" /\ NewMatchStatus["agenda"] = "CANCELLED"
    /\ NewMatchStatus["report"] = "PENDING_RESULT_CONFIRMATION"
    /\ NewMatchStatus["confirm"] = "CLOSED" /\ NewMatchStatus["refuse"] = "DISPUTED"
    /\ NewMatchStatus["cancha"] = "SCHEDULED" /\ NewMatchStatus["walkover"] = "CLOSED"
    /\ NewMatchStatus["disputa"] = "CLOSED" /\ NewMatchStatus["cancelar"] = "CANCELLED"
    /\ NewReportStatus["confirm"] = "CONFIRMED" /\ NewReportStatus["refuse"] = "REJECTED"
    /\ NewReportStatus["disputa"] = "CONFIRMED"
BY DEF NewChallengeStatus, NewMatchStatus, NewReportStatus

(* What the saves leave in the row and in the others.                       *)
LEMMA SaveChallengeDoes ==
    ASSUME HandlersTypeOK, NEW h \in Handler, NEW c \in Challenge, c = run[h].c,
           SaveChallenge(h)
    PROVE  /\ challenge'[c].status = NewChallengeStatus[run[h].op]
           /\ \A d \in Challenge : d # c => challenge'[d] = challenge[d]
           /\ UNCHANGED <<match, report, dispute, awards>>
<1>1. run[h].todo # <<>> /\ challenge \in [Challenge -> ChallengeRow]
  BY DEF SaveChallenge, Calling, HandlersTypeOK, TypeOK
<1>2. run[h].challenge \in ChallengeRow
  BY <1>1, HeadOwned, TaskColumns
<1>3. PICK s, r : s = NewChallengeStatus[run[h].op] /\ r = run[h].challenge
  OBVIOUS
<1>4. challenge' = [challenge EXCEPT ![c] = [r EXCEPT !.status = s]]
  BY <1>3 DEF SaveChallenge
<1>5. [r EXCEPT !.status = s].status = s
  BY <1>2, <1>3 DEF ChallengeRow
<1>6. QED BY <1>1, <1>3, <1>4, <1>5 DEF SaveChallenge, score

LEMMA SaveMatchDoes ==
    ASSUME HandlersTypeOK, NEW h \in Handler, NEW c \in Challenge, c = run[h].c,
           SaveMatch(h)
    PROVE  /\ match'[c].status = NewMatchStatus[run[h].op]
           /\ match'[c].selected = IF run[h].op = "select" THEN run[h].o
                                   ELSE run[h].match.selected
           /\ \A d \in Challenge : d # c => match'[d] = match[d]
           /\ UNCHANGED <<challenge, report, dispute, awards>>
BY DEF SaveMatch, score, HandlersTypeOK, TypeOK

LEMMA SaveReportDoes ==
    ASSUME HandlersTypeOK, NEW h \in Handler, NEW c \in Challenge, c = run[h].c,
           SaveReport(h)
    PROVE  /\ report'[c].status = NewReportStatus[run[h].op]
           /\ \A d \in Challenge : d # c => report'[d] = report[d]
           /\ UNCHANGED <<challenge, match, dispute, awards>>
<1>1. run[h].todo # <<>> /\ report \in [Challenge -> ReportRow]
  BY DEF SaveReport, Calling, HandlersTypeOK, TypeOK
<1>2. run[h].report \in ReportRow
  BY <1>1, HeadOwned, TaskColumns
<1>3. PICK s : s = NewReportStatus[run[h].op]
  OBVIOUS
<1>4. PICK r \in ReportRow : r = run[h].report
  BY <1>2
<1>5. PICK v : v = [r EXCEPT !.status = s]
  OBVIOUS
<1>6. \E q : report' = [report EXCEPT ![c] = [v EXCEPT !.confirmer = q]]
  BY <1>3, <1>4, <1>5 DEF SaveReport
<1>7. PICK q : report' = [report EXCEPT ![c] = [v EXCEPT !.confirmer = q]]
  BY <1>6
<1>8. [v EXCEPT !.confirmer = q].status = s
  BY <1>4, <1>5 DEF ReportRow
<1>9. QED BY <1>1, <1>3, <1>7, <1>8 DEF SaveReport, score

LEMMA AcceptCall ==
    ASSUME HandlersTypeOK, NEW h \in Handler, \A d \in Challenge : Sound(d),
           AcceptAt(run[h]), Continue(h)
    PROVE  (\A d \in Challenge : Sound(d)') /\ (run'[h] = Idle \/ AcceptAt(run[h])')
<1>1. CASE run[h].todo = <<"readRanks", "saveChallenge", "countAccepted", "insertMatch",
         "enqueueAgenda">>
  <2>1. /\ run[h].todo # <<>> /\ Tail(run[h].todo) # <<>>
        /\ Tail(run[h].todo) = <<"saveChallenge", "countAccepted", "insertMatch",
           "enqueueAgenda">>
    BY <1>1
  <2>2. ReadRanks(h)
    BY <1>1, CallIs
  <2>3. UNCHANGED debt
    BY <2>2, AsideCalls
  <2>4. /\ run'[h].todo = Tail(run[h].todo) /\ run'[h].op = run[h].op
        /\ run'[h].c = run[h].c
    BY <2>1, <2>2, RanksAreRead
  <2>5. AcceptAt(run[h])'
    BY <1>1, <2>1, <2>3, <2>4 DEF AcceptAt, debt
  <2>6. QED BY <2>3, <2>5, SoundAside
<1>2. CASE run[h].todo = <<"saveChallenge", "countAccepted", "insertMatch", "enqueueAgenda">>
  <2>1. /\ run[h].todo # <<>> /\ Tail(run[h].todo) # <<>>
        /\ Tail(run[h].todo) = <<"countAccepted", "insertMatch", "enqueueAgenda">>
    BY <1>2
  <2>2. SaveChallenge(h)
    BY <1>2, CallIs
  <2>3. PICK c \in Challenge : c = run[h].c
    BY <2>1, HeadOwned
  <2>4. run[h].op = "accept" /\ challenge[c].status = "PENDING"
    BY <1>2, <2>3 DEF AcceptAt
  <2>5. /\ challenge'[c].status = "ACCEPTED"
        /\ \A d \in Challenge : d # c => challenge'[d] = challenge[d]
        /\ UNCHANGED <<match, report, dispute, awards>>
    BY <2>2, <2>3, <2>4, SaveChallengeDoes, NewStatusAre
  <2>6. Sound(c)'
    BY <2>5 DEF Sound
  <2>7. \A d \in Challenge : Sound(d)'
    BY <2>5, <2>6, SoundAt
  <2>8. /\ run'[h].todo = Tail(run[h].todo) /\ run'[h].op = run[h].op
        /\ run'[h].c = run[h].c
    BY <2>1, <2>2, Advances DEF SaveChallenge
  <2>9. AcceptAt(run[h])'
    BY <2>1, <2>3, <2>4, <2>5, <2>8 DEF AcceptAt
  <2>10. QED BY <2>7, <2>9
<1>3. CASE run[h].todo = <<"countAccepted", "insertMatch", "enqueueAgenda">>
  <2>1. /\ run[h].todo # <<>> /\ Tail(run[h].todo) # <<>>
        /\ Tail(run[h].todo) = <<"insertMatch", "enqueueAgenda">>
    BY <1>3
  <2>2. CountChallenge(h)
    BY <1>3, CallIs
  <2>3. UNCHANGED debt
    BY <2>2, AsideCalls
  <2>4. /\ run'[h].todo = Tail(run[h].todo) /\ run'[h].op = run[h].op
        /\ run'[h].c = run[h].c
    BY <2>1, <2>2, Advances DEF CountChallenge
  <2>5. AcceptAt(run[h])'
    BY <1>3, <2>1, <2>3, <2>4 DEF AcceptAt, debt
  <2>6. QED BY <2>3, <2>5, SoundAside
<1>4. CASE run[h].todo = <<"insertMatch", "enqueueAgenda">>
  <2>1. /\ run[h].todo # <<>> /\ Tail(run[h].todo) # <<>>
        /\ Tail(run[h].todo) = <<"enqueueAgenda">>
    BY <1>4
  <2>2. InsertMatch(h)
    BY <1>4, CallIs
  <2>3. PICK c \in Challenge : c = run[h].c
    BY <2>1, HeadOwned
  <2>4. run[h].op = "accept" /\ challenge[c].status = "ACCEPTED"
    BY <1>4, <2>3 DEF AcceptAt
  <2>5. UNCHANGED <<challenge, report, dispute, awards>>
    BY <2>2 DEF InsertMatch, score
  <2>6. CASE match[c].status = "none"
    <3>1. match' = [match EXCEPT ![c].status = "PENDING_SCHEDULE"] /\ Returns(h)
      BY <2>2, <2>3, <2>6 DEF InsertMatch
    <3>2. /\ match'[c].status = "PENDING_SCHEDULE"
          /\ \A d \in Challenge : d # c => match'[d] = match[d]
      BY <3>1 DEF HandlersTypeOK, TypeOK, MatchRow
    <3>3. Sound(c)'
      BY <2>4, <2>5, <2>6, <3>2 DEF Sound
    <3>4. \A d \in Challenge : Sound(d)'
      BY <2>5, <3>2, <3>3, SoundAt
    <3>5. run'[h].todo = Tail(run[h].todo) /\ run'[h].op = run[h].op
      BY <2>1, <3>1, Advances
    <3>6. AcceptAt(run[h])'
      BY <2>1, <2>4, <3>5 DEF AcceptAt
    <3>7. QED BY <3>4, <3>6
  <2>7. CASE match[c].status # "none"
    <3>1. match' = match /\ Aborts(h)
      BY <2>2, <2>3, <2>7 DEF InsertMatch
    <3>2. UNCHANGED debt
      BY <2>5, <3>1 DEF debt
    <3>3. QED BY <3>1, <3>2, GivesUp, SoundAside
  <2>8. QED BY <2>6, <2>7
<1>5. CASE run[h].todo = <<"enqueueAgenda">>
  <2>1. run[h].todo # <<>> /\ Tail(run[h].todo) = <<>>
    BY <1>5
  <2>2. EnqueueJob(h)
    BY <1>5, CallIs
  <2>3. UNCHANGED debt
    BY <2>2, AsideCalls
  <2>4. run'[h] = Idle
    BY <2>1, <2>2, Finishes DEF EnqueueJob
  <2>5. QED BY <2>3, <2>4, SoundAside
<1>6. QED BY <1>1, <1>2, <1>3, <1>4, <1>5 DEF AcceptAt

LEMMA DeclineCall ==
    ASSUME HandlersTypeOK, NEW h \in Handler, \A d \in Challenge : Sound(d),
           DeclineAt(run[h]), Continue(h)
    PROVE  (\A d \in Challenge : Sound(d)') /\ (run'[h] = Idle \/ DeclineAt(run[h])')
<1>1. CASE run[h].todo = <<"saveChallenge">>
  <2>1. run[h].todo # <<>> /\ Tail(run[h].todo) = <<>>
    BY <1>1
  <2>2. SaveChallenge(h)
    BY <1>1, CallIs
  <2>3. PICK c \in Challenge : c = run[h].c
    BY <2>1, HeadOwned
  <2>4. run[h].op = "decline" /\ challenge[c].status = "PENDING"
    BY <1>1, <2>3 DEF DeclineAt
  <2>5. /\ challenge'[c].status = "REJECTED"
        /\ \A d \in Challenge : d # c => challenge'[d] = challenge[d]
        /\ UNCHANGED <<match, report, dispute, awards>>
    BY <2>2, <2>3, <2>4, SaveChallengeDoes, NewStatusAre
  <2>6. Sound(c)'
    BY <2>4, <2>5 DEF Sound
  <2>7. \A d \in Challenge : Sound(d)'
    BY <2>5, <2>6, SoundAt
  <2>8. run'[h] = Idle
    BY <2>1, <2>2, Finishes DEF SaveChallenge
  <2>9. QED BY <2>7, <2>8
<1>2. QED BY <1>1 DEF DeclineAt

LEMMA ExpireCall ==
    ASSUME HandlersTypeOK, NEW h \in Handler, \A d \in Challenge : Sound(d),
           ExpireAt(run[h]), Continue(h)
    PROVE  (\A d \in Challenge : Sound(d)') /\ (run'[h] = Idle \/ ExpireAt(run[h])')
<1>1. CASE run[h].todo = <<"saveChallenge", "ackExpire">>
  <2>1. /\ run[h].todo # <<>> /\ Tail(run[h].todo) # <<>>
        /\ Tail(run[h].todo) = <<"ackExpire">>
    BY <1>1
  <2>2. SaveChallenge(h)
    BY <1>1, CallIs
  <2>3. PICK c \in Challenge : c = run[h].c
    BY <2>1, HeadOwned
  <2>4. run[h].op = "expire" /\ challenge[c].status = "PENDING"
    BY <1>1, <2>3 DEF ExpireAt
  <2>5. /\ challenge'[c].status = "EXPIRED"
        /\ \A d \in Challenge : d # c => challenge'[d] = challenge[d]
        /\ UNCHANGED <<match, report, dispute, awards>>
    BY <2>2, <2>3, <2>4, SaveChallengeDoes, NewStatusAre
  <2>6. Sound(c)'
    BY <2>4, <2>5 DEF Sound
  <2>7. \A d \in Challenge : Sound(d)'
    BY <2>5, <2>6, SoundAt
  <2>8. /\ run'[h].todo = Tail(run[h].todo) /\ run'[h].op = run[h].op
        /\ run'[h].c = run[h].c
    BY <2>1, <2>2, Advances DEF SaveChallenge
  <2>9. ExpireAt(run[h])'
    BY <2>1, <2>4, <2>8 DEF ExpireAt
  <2>10. QED BY <2>7, <2>9
<1>2. CASE run[h].todo = <<"ackExpire">>
  <2>1. run[h].todo # <<>> /\ Tail(run[h].todo) = <<>>
    BY <1>2
  <2>2. AckJob(h)
    BY <1>2, CallIs
  <2>3. UNCHANGED debt
    BY <2>2, AsideCalls
  <2>4. run'[h] = Idle
    BY <2>1, <2>2, Finishes DEF AckJob
  <2>5. QED BY <2>3, <2>4, SoundAside
<1>3. QED BY <1>1, <1>2 DEF ExpireAt

LEMMA ProposeCall ==
    ASSUME HandlersTypeOK, NEW h \in Handler, \A d \in Challenge : Sound(d),
           ProposeAt(run[h]), Continue(h)
    PROVE  (\A d \in Challenge : Sound(d)') /\ (run'[h] = Idle \/ ProposeAt(run[h])')
<1>1. CASE run[h].todo = <<"insertProposal">>
  <2>1. run[h].todo # <<>> /\ Tail(run[h].todo) = <<>>
    BY <1>1
  <2>2. InsertProposal(h)
    BY <1>1, CallIs
  <2>3. UNCHANGED debt
    BY <2>2, AsideCalls
  <2>4. run'[h] = Idle
    BY <2>1, <2>2, Finishes DEF InsertProposal
  <2>5. QED BY <2>3, <2>4, SoundAside
<1>2. QED BY <1>1 DEF ProposeAt

LEMMA SelectCall ==
    ASSUME HandlersTypeOK, NEW h \in Handler, \A d \in Challenge : Sound(d),
           SelectAt(run[h]), Continue(h)
    PROVE  (\A d \in Challenge : Sound(d)') /\ (run'[h] = Idle \/ SelectAt(run[h])')
<1>1. CASE run[h].todo = <<"saveMatch", "replaceOpen", "selectProposal">>
  <2>1. /\ run[h].todo # <<>> /\ Tail(run[h].todo) # <<>>
        /\ Tail(run[h].todo) = <<"replaceOpen", "selectProposal">>
    BY <1>1
  <2>2. SaveMatch(h)
    BY <1>1, CallIs
  <2>3. PICK c \in Challenge : c = run[h].c
    BY <2>1, HeadOwned
  <2>4. /\ run[h].op = "select"
        /\ match[c].status = "PENDING_SCHEDULE" /\ run[h].o # None
    BY <1>1, <2>3 DEF SelectAt
  <2>5. /\ match'[c].status = "SCHEDULED" /\ match'[c].selected = run[h].o
        /\ \A d \in Challenge : d # c => match'[d] = match[d]
        /\ UNCHANGED <<challenge, report, dispute, awards>>
    BY <2>2, <2>3, <2>4, SaveMatchDoes, NewStatusAre
  <2>6. Sound(c)'
    BY <2>4, <2>5 DEF Sound
  <2>7. \A d \in Challenge : Sound(d)'
    BY <2>5, <2>6, SoundAt
  <2>8. /\ run'[h].todo = Tail(run[h].todo) /\ run'[h].op = run[h].op
        /\ run'[h].c = run[h].c
    BY <2>1, <2>2, Advances DEF SaveMatch
  <2>9. SelectAt(run[h])'
    BY <2>1, <2>3, <2>4, <2>5, <2>8 DEF SelectAt
  <2>10. QED BY <2>7, <2>9
<1>2. CASE run[h].todo = <<"replaceOpen", "selectProposal">>
  <2>1. /\ run[h].todo # <<>> /\ Tail(run[h].todo) # <<>>
        /\ Tail(run[h].todo) = <<"selectProposal">>
    BY <1>2
  <2>2. UpdateProposals(h)
    BY <1>2, CallIs
  <2>3. UNCHANGED debt
    BY <2>2, AsideCalls
  <2>4. run'[h].todo = Tail(run[h].todo) /\ run'[h].op = run[h].op
    BY <2>1, <2>2, Advances DEF UpdateProposals
  <2>5. SelectAt(run[h])'
    BY <2>1, <2>4 DEF SelectAt
  <2>6. QED BY <2>3, <2>5, SoundAside
<1>3. CASE run[h].todo = <<"selectProposal">>
  <2>1. run[h].todo # <<>> /\ Tail(run[h].todo) = <<>>
    BY <1>3
  <2>2. UpdateProposals(h)
    BY <1>3, CallIs
  <2>3. UNCHANGED debt
    BY <2>2, AsideCalls
  <2>4. run'[h] = Idle
    BY <2>1, <2>2, Finishes DEF UpdateProposals
  <2>5. QED BY <2>3, <2>4, SoundAside
<1>4. QED BY <1>1, <1>2, <1>3 DEF SelectAt

LEMMA AgendaCall ==
    ASSUME HandlersTypeOK, NEW h \in Handler, \A d \in Challenge : Sound(d),
           AgendaAt(run[h]), Continue(h)
    PROVE  (\A d \in Challenge : Sound(d)') /\ (run'[h] = Idle \/ AgendaAt(run[h])')
<1>1. CASE run[h].todo = <<"saveMatch", "ackAgenda">>
  <2>1. /\ run[h].todo # <<>> /\ Tail(run[h].todo) # <<>>
        /\ Tail(run[h].todo) = <<"ackAgenda">>
    BY <1>1
  <2>2. SaveMatch(h)
    BY <1>1, CallIs
  <2>3. PICK c \in Challenge : c = run[h].c
    BY <2>1, HeadOwned
  <2>4. /\ run[h].op = "agenda"
        /\ match[c].status = "PENDING_SCHEDULE" /\ run[h].match = match[c]
    BY <1>1, <2>3 DEF AgendaAt
  <2>5. /\ match'[c].status = "CANCELLED" /\ match'[c].selected = run[h].match.selected
        /\ \A d \in Challenge : d # c => match'[d] = match[d]
        /\ UNCHANGED <<challenge, report, dispute, awards>>
    BY <2>2, <2>3, <2>4, SaveMatchDoes, NewStatusAre
  <2>6. Sound(c)'
    BY <2>4, <2>5 DEF Sound
  <2>7. \A d \in Challenge : Sound(d)'
    BY <2>5, <2>6, SoundAt
  <2>8. /\ run'[h].todo = Tail(run[h].todo) /\ run'[h].op = run[h].op
        /\ run'[h].c = run[h].c
    BY <2>1, <2>2, Advances DEF SaveMatch
  <2>9. AgendaAt(run[h])'
    BY <2>1, <2>3, <2>4, <2>5, <2>8 DEF AgendaAt
  <2>10. QED BY <2>7, <2>9
<1>2. CASE run[h].todo = <<"ackAgenda">>
  <2>1. run[h].todo # <<>> /\ Tail(run[h].todo) = <<>>
    BY <1>2
  <2>2. AckJob(h)
    BY <1>2, CallIs
  <2>3. UNCHANGED debt
    BY <2>2, AsideCalls
  <2>4. run'[h] = Idle
    BY <2>1, <2>2, Finishes DEF AckJob
  <2>5. QED BY <2>3, <2>4, SoundAside
<1>3. QED BY <1>1, <1>2 DEF AgendaAt

LEMMA ReportCall ==
    ASSUME HandlersTypeOK, NEW h \in Handler, \A d \in Challenge : Sound(d),
           ReportAt(run[h]), Continue(h)
    PROVE  (\A d \in Challenge : Sound(d)') /\ (run'[h] = Idle \/ ReportAt(run[h])')
<1>1. CASE run[h].todo = <<"checkReport", "insertReport", "saveMatch", "ask">>
  <2>1. /\ run[h].todo # <<>> /\ Tail(run[h].todo) # <<>>
        /\ Tail(run[h].todo) = <<"insertReport", "saveMatch", "ask">>
    BY <1>1
  <2>2. CheckReport(h)
    BY <1>1, CallIs
  <2>3. UNCHANGED debt
    BY <2>2, AsideCalls
  <2>4. CASE Aborts(h)
    BY <2>3, <2>4, GivesUp, SoundAside
  <2>5. CASE Returns(h)
    <3>1. /\ run'[h].todo = Tail(run[h].todo) /\ run'[h].op = run[h].op
          /\ run'[h].c = run[h].c /\ run'[h].match = run[h].match
      BY <2>1, <2>5, Advances
    <3>2. ReportAt(run[h])'
      BY <1>1, <2>1, <2>3, <3>1 DEF ReportAt, debt
    <3>3. QED BY <2>3, <3>2, SoundAside
  <2>6. QED BY <2>2, <2>4, <2>5 DEF CheckReport
<1>2. CASE run[h].todo = <<"insertReport", "saveMatch", "ask">>
  <2>1. /\ run[h].todo # <<>> /\ Tail(run[h].todo) # <<>>
        /\ Tail(run[h].todo) = <<"saveMatch", "ask">>
    BY <1>2
  <2>2. InsertReport(h)
    BY <1>2, CallIs
  <2>3. PICK c \in Challenge : c = run[h].c
    BY <2>1, HeadOwned
  <2>4. /\ run[h].op = "report" /\ match[c].status = "SCHEDULED"
        /\ run[h].match = match[c]
    BY <1>2, <2>3 DEF ReportAt
  <2>5. UNCHANGED <<challenge, match, dispute, awards>>
    BY <2>2 DEF InsertReport, score
  <2>6. CASE report[c].status = "none"
    <3>1. PICK p : p = run[h].p
      OBVIOUS
    <3>2. /\ report' = [report EXCEPT ![c] = [status |-> "PENDING_CONFIRMATION",
                                              reporter |-> p, confirmer |-> None]]
          /\ Returns(h)
      BY <2>2, <2>3, <2>6, <3>1 DEF InsertReport
    <3>3. /\ report'[c].status = "PENDING_CONFIRMATION"
          /\ \A d \in Challenge : d # c => report'[d] = report[d]
      BY <3>2 DEF HandlersTypeOK, TypeOK
    <3>4. Sound(c)'
      BY <2>4, <2>5, <2>6, <3>3 DEF Sound
    <3>5. \A d \in Challenge : Sound(d)'
      BY <2>5, <3>3, <3>4, SoundAt
    <3>6. /\ run'[h].todo = Tail(run[h].todo) /\ run'[h].op = run[h].op
          /\ run'[h].c = run[h].c /\ run'[h].match = run[h].match
      BY <2>1, <3>2, Advances
    <3>7. ReportAt(run[h])'
      BY <2>1, <2>3, <2>4, <2>5, <3>6 DEF ReportAt
    <3>8. QED BY <3>5, <3>7
  <2>7. CASE report[c].status # "none"
    <3>1. report' = report /\ Aborts(h)
      BY <2>2, <2>3, <2>7 DEF InsertReport
    <3>2. UNCHANGED debt
      BY <2>5, <3>1 DEF debt
    <3>3. QED BY <3>1, <3>2, GivesUp, SoundAside
  <2>8. QED BY <2>6, <2>7
<1>3. CASE run[h].todo = <<"saveMatch", "ask">>
  <2>1. /\ run[h].todo # <<>> /\ Tail(run[h].todo) # <<>>
        /\ Tail(run[h].todo) = <<"ask">>
    BY <1>3
  <2>2. SaveMatch(h)
    BY <1>3, CallIs
  <2>3. PICK c \in Challenge : c = run[h].c
    BY <2>1, HeadOwned
  <2>4. /\ run[h].op = "report"
        /\ match[c].status = "SCHEDULED" /\ run[h].match = match[c]
    BY <1>3, <2>3 DEF ReportAt
  <2>5. /\ match'[c].status = "PENDING_RESULT_CONFIRMATION" /\ match'[c].selected
           = run[h].match.selected
        /\ \A d \in Challenge : d # c => match'[d] = match[d]
        /\ UNCHANGED <<challenge, report, dispute, awards>>
    BY <2>2, <2>3, <2>4, SaveMatchDoes, NewStatusAre
  <2>6. Sound(c)'
    BY <2>4, <2>5 DEF Sound
  <2>7. \A d \in Challenge : Sound(d)'
    BY <2>5, <2>6, SoundAt
  <2>8. /\ run'[h].todo = Tail(run[h].todo) /\ run'[h].op = run[h].op
        /\ run'[h].c = run[h].c
    BY <2>1, <2>2, Advances DEF SaveMatch
  <2>9. ReportAt(run[h])'
    BY <2>1, <2>3, <2>4, <2>5, <2>8 DEF ReportAt
  <2>10. QED BY <2>7, <2>9
<1>4. CASE run[h].todo = <<"ask">>
  <2>1. run[h].todo # <<>> /\ Tail(run[h].todo) = <<>>
    BY <1>4
  <2>2. Ask(h)
    BY <1>4, CallIs
  <2>3. UNCHANGED debt
    BY <2>2, AsideCalls
  <2>4. run'[h] = Idle
    BY <2>1, <2>2, Finishes DEF Ask
  <2>5. QED BY <2>3, <2>4, SoundAside
<1>5. QED BY <1>1, <1>2, <1>3, <1>4 DEF ReportAt

LEMMA ConfirmCall ==
    ASSUME HandlersTypeOK, NEW h \in Handler, \A d \in Challenge : Sound(d),
           ConfirmAt(run[h]), Continue(h)
    PROVE  (\A d \in Challenge : Sound(d)') /\ (run'[h] = Idle \/ ConfirmAt(run[h])')
<1>1. CASE run[h].todo = <<"readMatch", "saveReport", "saveMatch", "award">>
  <2>1. /\ run[h].todo # <<>> /\ Tail(run[h].todo) # <<>>
        /\ Tail(run[h].todo) = <<"saveReport", "saveMatch", "award">>
    BY <1>1
  <2>2. ReadMatch(h)
    BY <1>1, CallIs
  <2>3. UNCHANGED debt
    BY <2>2, AsideCalls
  <2>4. /\ run'[h].todo = Tail(run[h].todo) /\ run'[h].op = run[h].op
        /\ run'[h].c = run[h].c /\ run'[h].match = match[run[h].c]
    BY <2>1, <2>2, MatchIsRead
  <2>5. ConfirmAt(run[h])'
    BY <1>1, <2>1, <2>3, <2>4 DEF ConfirmAt, debt
  <2>6. QED BY <2>3, <2>5, SoundAside
<1>2. CASE run[h].todo = <<"saveReport", "saveMatch", "award">>
  <2>1. /\ run[h].todo # <<>> /\ Tail(run[h].todo) # <<>>
        /\ Tail(run[h].todo) = <<"saveMatch", "award">>
    BY <1>2
  <2>2. SaveReport(h)
    BY <1>2, CallIs
  <2>3. PICK c \in Challenge : c = run[h].c
    BY <2>1, HeadOwned
  <2>4. /\ run[h].op = "confirm" /\ report[c].status = "PENDING_CONFIRMATION"
        /\ run[h].match = match[c]
    BY <1>2, <2>3 DEF ConfirmAt
  <2>5. Undecided(c)
    BY <2>4 DEF Sound, Undecided
  <2>6. /\ report'[c].status = "CONFIRMED"
        /\ \A d \in Challenge : d # c => report'[d] = report[d]
        /\ UNCHANGED <<challenge, match, dispute, awards>>
    BY <2>2, <2>3, <2>4, SaveReportDoes, NewStatusAre
  <2>7. Sound(c)'
    BY <2>5, <2>6 DEF Sound, Undecided
  <2>8. \A d \in Challenge : Sound(d)'
    BY <2>6, <2>7, SoundAt
  <2>9. /\ run'[h].todo = Tail(run[h].todo) /\ run'[h].op = run[h].op
        /\ run'[h].c = run[h].c /\ run'[h].match = run[h].match
    BY <2>1, <2>2, Advances DEF SaveReport
  <2>10. Undecided(c)'
    BY <2>5, <2>6 DEF Undecided
  <2>11. ConfirmAt(run[h])'
    BY <2>1, <2>3, <2>4, <2>6, <2>9, <2>10 DEF ConfirmAt
  <2>12. QED BY <2>8, <2>11
<1>3. CASE run[h].todo = <<"saveMatch", "award">>
  <2>1. /\ run[h].todo # <<>> /\ Tail(run[h].todo) # <<>>
        /\ Tail(run[h].todo) = <<"award">>
    BY <1>3
  <2>2. SaveMatch(h)
    BY <1>3, CallIs
  <2>3. PICK c \in Challenge : c = run[h].c
    BY <2>1, HeadOwned
  <2>4. /\ run[h].op = "confirm"
        /\ report[c].status = "CONFIRMED" /\ run[h].match = match[c] /\ Undecided(c)
    BY <1>3, <2>3 DEF ConfirmAt
  <2>5. /\ match'[c].status = "CLOSED" /\ match'[c].selected = run[h].match.selected
        /\ \A d \in Challenge : d # c => match'[d] = match[d]
        /\ UNCHANGED <<challenge, report, dispute, awards>>
    BY <2>2, <2>3, <2>4, SaveMatchDoes, NewStatusAre
  <2>6. Sound(c)'
    BY <2>4, <2>5 DEF Sound, Undecided
  <2>7. \A d \in Challenge : Sound(d)'
    BY <2>5, <2>6, SoundAt
  <2>8. /\ run'[h].todo = Tail(run[h].todo) /\ run'[h].op = run[h].op
        /\ run'[h].c = run[h].c
    BY <2>1, <2>2, Advances DEF SaveMatch
  <2>9. ConfirmAt(run[h])'
    BY <2>1, <2>3, <2>4, <2>5, <2>8 DEF ConfirmAt, Undecided
  <2>10. QED BY <2>7, <2>9
<1>4. CASE run[h].todo = <<"award">>
  <2>1. run[h].todo # <<>> /\ Tail(run[h].todo) = <<>>
    BY <1>4
  <2>2. Award(h)
    BY <1>4, CallIs
  <2>3. PICK c \in Challenge : c = run[h].c
    BY <2>1, HeadOwned
  <2>4. /\ run[h].op = "confirm" /\ report[c].status = "CONFIRMED"
        /\ match[c].status = "CLOSED" /\ awards[c] = 0
    BY <1>4, <2>3 DEF ConfirmAt
  <2>5. UNCHANGED <<challenge, match, report, dispute>>
    BY <2>2 DEF Award, rows
  <2>6. awards' = [awards EXCEPT ![c] = @ + 1]
    BY <2>2, <2>3 DEF Award, AwardPoints
  <2>7. awards'[c] = 1 /\ \A d \in Challenge : d # c => awards'[d] = awards[d]
    BY <2>4, <2>6 DEF HandlersTypeOK, TypeOK
  <2>8. Sound(c)'
    BY <2>4, <2>5, <2>7 DEF Sound
  <2>9. \A d \in Challenge : Sound(d)'
    BY <2>5, <2>7, <2>8, SoundAt
  <2>10. run'[h] = Idle
    BY <2>1, <2>2, Finishes DEF Award
  <2>11. QED BY <2>9, <2>10
<1>5. QED BY <1>1, <1>2, <1>3, <1>4 DEF ConfirmAt

LEMMA RefuseCall ==
    ASSUME HandlersTypeOK, NEW h \in Handler, \A d \in Challenge : Sound(d),
           RefuseAt(run[h]), Continue(h)
    PROVE  (\A d \in Challenge : Sound(d)') /\ (run'[h] = Idle \/ RefuseAt(run[h])')
<1>1. CASE run[h].todo = <<"readMatch", "saveReport", "saveMatch", "insertDispute">>
  <2>1. /\ run[h].todo # <<>> /\ Tail(run[h].todo) # <<>>
        /\ Tail(run[h].todo) = <<"saveReport", "saveMatch", "insertDispute">>
    BY <1>1
  <2>2. ReadMatch(h)
    BY <1>1, CallIs
  <2>3. UNCHANGED debt
    BY <2>2, AsideCalls
  <2>4. /\ run'[h].todo = Tail(run[h].todo) /\ run'[h].op = run[h].op
        /\ run'[h].c = run[h].c /\ run'[h].match = match[run[h].c]
    BY <2>1, <2>2, MatchIsRead
  <2>5. RefuseAt(run[h])'
    BY <1>1, <2>1, <2>3, <2>4 DEF RefuseAt, debt
  <2>6. QED BY <2>3, <2>5, SoundAside
<1>2. CASE run[h].todo = <<"saveReport", "saveMatch", "insertDispute">>
  <2>1. /\ run[h].todo # <<>> /\ Tail(run[h].todo) # <<>>
        /\ Tail(run[h].todo) = <<"saveMatch", "insertDispute">>
    BY <1>2
  <2>2. SaveReport(h)
    BY <1>2, CallIs
  <2>3. PICK c \in Challenge : c = run[h].c
    BY <2>1, HeadOwned
  <2>4. /\ run[h].op = "refuse" /\ report[c].status = "PENDING_CONFIRMATION"
        /\ run[h].match = match[c]
    BY <1>2, <2>3 DEF RefuseAt
  <2>5. Undecided(c)
    BY <2>4 DEF Sound, Undecided
  <2>6. /\ report'[c].status = "REJECTED"
        /\ \A d \in Challenge : d # c => report'[d] = report[d]
        /\ UNCHANGED <<challenge, match, dispute, awards>>
    BY <2>2, <2>3, <2>4, SaveReportDoes, NewStatusAre
  <2>7. Sound(c)'
    BY <2>5, <2>6 DEF Sound, Undecided
  <2>8. \A d \in Challenge : Sound(d)'
    BY <2>6, <2>7, SoundAt
  <2>9. /\ run'[h].todo = Tail(run[h].todo) /\ run'[h].op = run[h].op
        /\ run'[h].c = run[h].c /\ run'[h].match = run[h].match
    BY <2>1, <2>2, Advances DEF SaveReport
  <2>10. Undecided(c)'
    BY <2>5, <2>6 DEF Undecided
  <2>11. RefuseAt(run[h])'
    BY <2>1, <2>3, <2>4, <2>6, <2>9, <2>10 DEF RefuseAt
  <2>12. QED BY <2>8, <2>11
<1>3. CASE run[h].todo = <<"saveMatch", "insertDispute">>
  <2>1. /\ run[h].todo # <<>> /\ Tail(run[h].todo) # <<>>
        /\ Tail(run[h].todo) = <<"insertDispute">>
    BY <1>3
  <2>2. SaveMatch(h)
    BY <1>3, CallIs
  <2>3. PICK c \in Challenge : c = run[h].c
    BY <2>1, HeadOwned
  <2>4. /\ run[h].op = "refuse"
        /\ report[c].status = "REJECTED" /\ run[h].match = match[c] /\ Undecided(c)
    BY <1>3, <2>3 DEF RefuseAt
  <2>5. /\ match'[c].status = "DISPUTED" /\ match'[c].selected = run[h].match.selected
        /\ \A d \in Challenge : d # c => match'[d] = match[d]
        /\ UNCHANGED <<challenge, report, dispute, awards>>
    BY <2>2, <2>3, <2>4, SaveMatchDoes, NewStatusAre
  <2>6. Sound(c)'
    BY <2>4, <2>5 DEF Sound, Undecided
  <2>7. \A d \in Challenge : Sound(d)'
    BY <2>5, <2>6, SoundAt
  <2>8. /\ run'[h].todo = Tail(run[h].todo) /\ run'[h].op = run[h].op
        /\ run'[h].c = run[h].c
    BY <2>1, <2>2, Advances DEF SaveMatch
  <2>9. RefuseAt(run[h])'
    BY <2>1, <2>3, <2>4, <2>5, <2>8 DEF RefuseAt, Undecided
  <2>10. QED BY <2>7, <2>9
<1>4. CASE run[h].todo = <<"insertDispute">>
  <2>1. run[h].todo # <<>> /\ Tail(run[h].todo) = <<>>
    BY <1>4
  <2>2. WriteDispute(h)
    BY <1>4, CallIs
  <2>3. PICK c \in Challenge : c = run[h].c
    BY <2>1, HeadOwned
  <2>4. /\ run[h].op = "refuse" /\ report[c].status = "REJECTED"
        /\ match[c].status = "DISPUTED"
    BY <1>4, <2>3 DEF RefuseAt
  <2>5. UNCHANGED <<challenge, match, report, awards>>
    BY <2>2 DEF WriteDispute, score
  <2>6. Calling(h, "insertDispute") /\ ~Calling(h, "saveDispute")
    BY <1>4 DEF Calling
  <2>7. CASE dispute[c] = "none"
    <3>1. dispute' = [dispute EXCEPT ![c] = "OPEN"] /\ Returns(h)
      BY <2>2, <2>3, <2>6, <2>7 DEF WriteDispute
    <3>2. dispute'[c] = "OPEN" /\ \A d \in Challenge : d # c => dispute'[d] = dispute[d]
      BY <3>1 DEF HandlersTypeOK, TypeOK
    <3>3. Sound(c)'
      BY <2>4, <2>5, <3>2 DEF Sound
    <3>4. \A d \in Challenge : Sound(d)'
      BY <2>5, <3>2, <3>3, SoundAt
    <3>5. run'[h] = Idle
      BY <2>1, <3>1, Finishes
    <3>6. QED BY <3>4, <3>5
  <2>8. CASE dispute[c] # "none"
    <3>1. dispute' = dispute /\ Aborts(h)
      BY <2>2, <2>3, <2>6, <2>8 DEF WriteDispute
    <3>2. UNCHANGED debt
      BY <2>5, <3>1 DEF debt
    <3>3. QED BY <3>1, <3>2, GivesUp, SoundAside
  <2>9. QED BY <2>7, <2>8
<1>5. QED BY <1>1, <1>2, <1>3, <1>4 DEF RefuseAt

(* A handler has just read its rows and passed its checks.                  *)
LEMMA FreshTask ==
    ASSUME HandlersTypeOK, NEW h \in Handler, NEW op, NEW c, NEW p, NEW q, NEW o,
           Start(h, Task(op, c, p, q, o))
    PROVE  /\ run'[h].op = op /\ run'[h].todo = Calls(op) /\ run'[h].c = c
           /\ run'[h].p = p /\ run'[h].q = q /\ run'[h].o = o
           /\ run'[h].challenge = challenge[c] /\ run'[h].match = match[c]
           /\ run'[h].report = report[c]
           /\ UNCHANGED debt
<1>1. PICK t : t = Task(op, c, p, q, o)
  OBVIOUS
<1>2. run' = [run EXCEPT ![h] = t] /\ UNCHANGED vars
  BY <1>1 DEF Start
<1>3. run'[h] = t
  BY <1>2, RunExcept DEF HandlersTypeOK
<1>4. UNCHANGED debt
  BY <1>2 DEF vars, rows, score, debt
<1>5. QED BY <1>1, <1>3, <1>4, TaskIs

LEMMA FreshJob ==
    ASSUME HandlersTypeOK, NEW h \in Handler, NEW op \in Op, NEW c \in Challenge, NEW todo,
           Start(h, [Task(op, c, None, None, None) EXCEPT !.todo = todo])
    PROVE  /\ run'[h].op = op /\ run'[h].todo = todo /\ run'[h].c = c
           /\ UNCHANGED debt
<1>1. PICK t : t = Task(op, c, None, None, None)
  OBVIOUS
<1>2. t.op = op /\ t.c = c /\ TaskOK(t)
  BY <1>1, TaskIs, TaskType DEF HandlersTypeOK
<1>3. PICK x \in Op : t \in TaskRow(x)
  BY <1>2 DEF TaskOK
<1>4. PICK u : u = [t EXCEPT !.todo = todo]
  OBVIOUS
<1>5. u.op = op /\ u.c = c /\ u.todo = todo
  BY <1>2, <1>3, <1>4 DEF TaskRow
<1>6. run' = [run EXCEPT ![h] = u] /\ UNCHANGED vars
  BY <1>1, <1>4 DEF Start
<1>7. run'[h] = u
  BY <1>6, RunExcept DEF HandlersTypeOK
<1>8. UNCHANGED debt
  BY <1>6 DEF vars, rows, score, debt
<1>9. QED BY <1>5, <1>7, <1>8

LEMMA PlayerStartsMidway ==
    ASSUME HandlersTypeOK, NEW h \in Handler, NEW c \in Challenge, NEW p \in Player,
           PlayerStarts(h, c, p)
    PROVE  Midway(run[h])' /\ UNCHANGED debt
<1>1. CASE StartChallenge(h, c, p)
  <2>1. ASSUME challenge[c].status = "none", NEW q,
               Start(h, Task("create", c, p, q, None))
        PROVE  CreateAt(run[h])' /\ UNCHANGED debt
    BY <2>1, FreshTask, CallsAre DEF CreateAt, debt
  <2>2. ASSUME challenge[c].status = "PENDING", NEW q,
               Start(h, Task("accept", c, q, p, None))
        PROVE  AcceptAt(run[h])' /\ UNCHANGED debt
    BY <2>2, FreshTask, CallsAre DEF AcceptAt, debt
  <2>3. ASSUME challenge[c].status = "PENDING", NEW q,
               Start(h, Task("decline", c, q, p, None))
        PROVE  DeclineAt(run[h])' /\ UNCHANGED debt
    BY <2>3, FreshTask, CallsAre DEF DeclineAt, debt
  <2>4. QED BY <1>1, <2>1, <2>2, <2>3 DEF StartChallenge, Midway
<1>2. ASSUME NEW o \in Proposal, StartSchedule(h, c, p, o)
      PROVE  Midway(run[h])' /\ UNCHANGED debt
  <2>1. ASSUME Start(h, Task("propose", c, p, None, o))
        PROVE  ProposeAt(run[h])' /\ UNCHANGED debt
    BY <2>1, FreshTask, CallsAre DEF ProposeAt, debt
  <2>2. ASSUME match[c].status = "PENDING_SCHEDULE", Start(h, Task("select", c, None, p, o))
        PROVE  SelectAt(run[h])' /\ UNCHANGED debt
    <3>1. o # None
      BY NoneAssumption
    <3>2. QED BY <2>2, <3>1, FreshTask, CallsAre DEF SelectAt, debt
  <2>3. QED BY <1>2, <2>1, <2>2 DEF StartSchedule, Midway
<1>3. CASE StartResult(h, c, p)
  <2>1. ASSUME match[c].status = "SCHEDULED", Start(h, Task("report", c, p, None, None))
        PROVE  ReportAt(run[h])' /\ UNCHANGED debt
    BY <2>1, FreshTask, CallsAre DEF ReportAt, debt
  <2>2. ASSUME report[c].status = "PENDING_CONFIRMATION", NEW q,
               Start(h, Task("confirm", c, q, p, None))
        PROVE  ConfirmAt(run[h])' /\ UNCHANGED debt
    BY <2>2, FreshTask, CallsAre DEF ConfirmAt, debt
  <2>3. ASSUME report[c].status = "PENDING_CONFIRMATION", NEW q,
               Start(h, Task("refuse", c, q, p, None))
        PROVE  RefuseAt(run[h])' /\ UNCHANGED debt
    BY <2>3, FreshTask, CallsAre DEF RefuseAt, debt
  <2>4. QED BY <1>3, <2>1, <2>2, <2>3 DEF StartResult, Midway
<1>4. QED BY <1>1, <1>2, <1>3 DEF PlayerStarts

LEMMA JobStartsMidway ==
    ASSUME HandlersTypeOK, NEW h \in Handler, NEW c \in Challenge, StartJob(h, c)
    PROVE  Midway(run[h])' /\ UNCHANGED debt
<1>1. ASSUME challenge[c].status = "PENDING", Start(h, Task("expire", c, None, None, None))
      PROVE  ExpireAt(run[h])' /\ UNCHANGED debt
  BY <1>1, FreshTask, CallsAre DEF ExpireAt, debt
<1>2. ASSUME Start(h, [Task("expire", c, None, None, None) EXCEPT !.todo = <<"ackExpire">>])
      PROVE  ExpireAt(run[h])' /\ UNCHANGED debt
  BY <1>2, FreshJob DEF ExpireAt, debt, Op
<1>3. ASSUME match[c].status = "PENDING_SCHEDULE",
             Start(h, Task("agenda", c, None, None, None))
      PROVE  AgendaAt(run[h])' /\ UNCHANGED debt
  BY <1>3, FreshTask, CallsAre DEF AgendaAt, debt
<1>4. ASSUME Start(h, [Task("agenda", c, None, None, None) EXCEPT !.todo = <<"ackAgenda">>])
      PROVE  AgendaAt(run[h])' /\ UNCHANGED debt
  BY <1>4, FreshJob DEF AgendaAt, debt, Op
<1>5. QED BY <1>1, <1>2, <1>3, <1>4 DEF StartJob, Midway

LEMMA MidwayStays ==
    ASSUME NEW h, Midway(run[h]), run'[h] = run[h], UNCHANGED debt
    PROVE  Midway(run[h])'
<1>1. /\ CreateAt(run[h]) => CreateAt(run[h])'
      /\ AcceptAt(run[h]) => AcceptAt(run[h])'
      /\ DeclineAt(run[h]) => DeclineAt(run[h])'
      /\ ProposeAt(run[h]) => ProposeAt(run[h])'
      /\ SelectAt(run[h]) => SelectAt(run[h])'
  BY DEF CreateAt, AcceptAt, DeclineAt, ProposeAt, SelectAt, debt
<1>2. /\ ReportAt(run[h]) => ReportAt(run[h])'
      /\ ConfirmAt(run[h]) => ConfirmAt(run[h])'
      /\ RefuseAt(run[h]) => RefuseAt(run[h])'
      /\ ExpireAt(run[h]) => ExpireAt(run[h])'
      /\ AgendaAt(run[h]) => AgendaAt(run[h])'
  BY DEF ReportAt, ConfirmAt, RefuseAt, ExpireAt, AgendaAt, Undecided, debt
<1>3. QED BY <1>1, <1>2 DEF Midway

(* A call takes the handler from one point to the next, or ends it.         *)
LEMMA MidwayCall ==
    ASSUME HandlersTypeOK, NEW h \in Handler, \A d \in Challenge : Sound(d),
           Midway(run[h]), Continue(h)
    PROVE  (\A d \in Challenge : Sound(d)') /\ (run'[h] = Idle \/ Midway(run[h])')
<1>1. CASE CreateAt(run[h]) \/ AcceptAt(run[h]) \/ DeclineAt(run[h])
  BY <1>1, CreateStep, AcceptCall, DeclineCall DEF Midway
<1>2. CASE ProposeAt(run[h]) \/ SelectAt(run[h]) \/ ReportAt(run[h])
  BY <1>2, ProposeCall, SelectCall, ReportCall DEF Midway
<1>3. CASE ConfirmAt(run[h]) \/ RefuseAt(run[h])
  BY <1>3, ConfirmCall, RefuseCall DEF Midway
<1>4. CASE ExpireAt(run[h]) \/ AgendaAt(run[h])
  BY <1>4, ExpireCall, AgendaCall DEF Midway
<1>5. QED BY <1>1, <1>2, <1>3, <1>4 DEF Midway

LEMMA CrashStep ==
    ASSUME NEW h, Handler = {h}, Admin = {}, HandlersTypeOK, CrashInv,
           [NextHandlers]_handlerVars
    PROVE  CrashInv'
<1>1. h \in Handler /\ (\A x \in Handler : x = h)
  OBVIOUS
<1>2. (\A d \in Challenge : Sound(d)) /\ (run[h] = Idle \/ Midway(run[h]))
  BY <1>1 DEF CrashInv
<1>3. SUFFICES (\A d \in Challenge : Sound(d)') /\ (run'[h] = Idle \/ Midway(run[h])')
  BY <1>1 DEF CrashInv
<1>4. CASE Continue(h)
  <2>1. run[h] # Idle
    BY <1>1, <1>4, ContinueRun DEF Idle
  <2>2. QED BY <1>1, <1>2, <1>4, <2>1, MidwayCall
<1>5. ASSUME UNCHANGED debt, run'[h] = run[h]
      PROVE  (\A d \in Challenge : Sound(d)') /\ (run'[h] = Idle \/ Midway(run[h])')
  BY <1>2, <1>5, SoundAside, MidwayStays
<1>6. ASSUME UNCHANGED debt, run'[h] = Idle \/ Midway(run[h])'
      PROVE  (\A d \in Challenge : Sound(d)') /\ (run'[h] = Idle \/ Midway(run[h])')
  BY <1>2, <1>6, SoundAside
<1>7. ASSUME NEW c \in Challenge, Wait(c) PROVE UNCHANGED debt /\ run'[h] = run[h]
  BY <1>7 DEF Wait, PassExpiry, debt, rows, score
<1>8. ASSUME Die PROVE UNCHANGED debt /\ run'[h] = Idle
  BY <1>1, <1>8 DEF Die, vars, debt, rows, score
<1>9. ASSUME UNCHANGED handlerVars PROVE UNCHANGED debt /\ run'[h] = run[h]
  BY <1>9 DEF handlerVars, vars, debt, rows, score
<1>10. ASSUME NEW c \in Challenge, StartJob(h, c)
       PROVE  UNCHANGED debt /\ Midway(run[h])'
  BY <1>1, <1>10, JobStartsMidway
<1>11. ASSUME NEW c \in Challenge, StartAdmin(h, c) PROVE FALSE
  BY <1>11 DEF StartAdmin
<1>12. ASSUME NEW c \in Challenge, NEW p \in Player, PlayerStarts(h, c, p)
       PROVE  UNCHANGED debt /\ Midway(run[h])'
  BY <1>1, <1>12, PlayerStartsMidway
<1>13. QED BY <1>1, <1>4, <1>5, <1>6, <1>7, <1>8, <1>9, <1>10, <1>11, <1>12 DEF NextHandlers

LEMMA CrashInit == InitHandlers => CrashInv
BY DEF InitHandlers, Init, CrashInv, Sound

(* Whatever call of a handler the process dies in, and however often, the   *)
(* rows of a challenge never owe each other anything: no points without a   *)
(* confirmed report and a closed match, none twice, no match without an     *)
(* accepted challenge, no dispute without a rejected report. The order of   *)
(* the saves in challenge.service, match.service and result.service is what *)
(* keeps it so; one handler at a time, since two at once may overwrite each *)
(* other's rows.                                                            *)
THEOREM CrashesLeaveNoDebt ==
    ASSUME NEW h, Handler = {h}, Admin = {}
    PROVE  HandlersSpec => []CrashLeavesNoDebt
<1>1. InitHandlers => CrashInv
  BY CrashInit
<1>2. HandlersTypeOK /\ CrashInv /\ [NextHandlers]_handlerVars => CrashInv'
  BY CrashStep
<1>3. CrashInv => CrashLeavesNoDebt
  BY DEF CrashInv, Sound, CrashLeavesNoDebt
<1>4. QED BY <1>1, <1>2, <1>3, HandlersTyped, PTL DEF HandlersSpec

-----------------------------------------------------------------------------
(* One handler at a time and no crash: the refinement of MatchLifecycle     *)

(* Only the tables numbered in S differ from those that were settled.       *)
WrittenIn(S) ==
    /\ 1 \in S \/ challenge = settled[1]
    /\ 2 \in S \/ match = settled[2]
    /\ 3 \in S \/ proposal = settled[3]
    /\ 4 \in S \/ report = settled[4]
    /\ 5 \in S \/ dispute = settled[5]
    /\ 6 \in S \/ points = settled[6]
    /\ 7 \in S \/ sent = settled[7]
    /\ 8 \in S \/ accepted = settled[8]
    /\ 9 \in S \/ challengeJobs = settled[9]
    /\ 10 \in S \/ scheduleJobs = settled[10]
    /\ 11 \in S \/ awards = settled[11]

(* The tables with the row of task t saved.                                 *)
ChallengeSaved(t, s, d) ==
    [settled[1] EXCEPT ![t.c] = [status |-> s, challenger |-> t.p, challenged |-> t.q,
                                 rankDiff |-> d]]
MatchSaved(t, s) ==
    [settled[2] EXCEPT ![t.c] = [status |-> s, selected |-> settled[2][t.c].selected]]
ReportSaved(t, s, q) ==
    [settled[4] EXCEPT ![t.c] = [status |-> s, reporter |-> t.p, confirmer |-> q]]
DisputeSaved(t) ==
    IF settled[5][t.c] = "none" THEN settled[5] ELSE [settled[5] EXCEPT ![t.c] = "RESOLVED"]

(* What each handler knows of the settled tables, and what it has written   *)
(* over them when these calls are left.                                     *)
CreateSoFar(t) ==
    /\ t.op = "create" /\ settled[1][t.c].status = "none"
    /\ t.p \in Player /\ t.q \in Player /\ t.p # t.q
    /\ WrittenIn({1, 7})
    /\ \/ /\ t.todo = <<"checkRanks", "insertChallenge", "countSent", "enqueueExpire">>
          /\ WrittenIn({})
       \/ /\ t.todo = <<"insertChallenge", "countSent", "enqueueExpire">>
          /\ WrittenIn({}) /\ RankGap(t.p, t.q) <= MaxRankDiff
       \/ /\ t.todo = <<"countSent", "enqueueExpire">>
          /\ RankGap(t.p, t.q) <= MaxRankDiff
          /\ challenge = ChallengeSaved(t, "PENDING", 0) /\ sent = settled[7]
       \/ /\ t.todo = <<"enqueueExpire">>
          /\ RankGap(t.p, t.q) <= MaxRankDiff
          /\ challenge = ChallengeSaved(t, "PENDING", 0)
          /\ sent = [settled[7] EXCEPT ![t.p] = @ + 1]

AcceptSoFar(t) ==
    /\ t.op = "accept" /\ settled[1][t.c].status = "PENDING"
    /\ t.p = settled[1][t.c].challenger /\ t.q = settled[1][t.c].challenged
    /\ t.q \in Player
    /\ WrittenIn({1, 2, 8})
    /\ \/ /\ t.todo = <<"readRanks", "saveChallenge", "countAccepted", "insertMatch",
                        "enqueueAgenda">>
          /\ WrittenIn({}) /\ t.challenge = settled[1][t.c]
       \/ /\ t.todo = <<"saveChallenge", "countAccepted", "insertMatch", "enqueueAgenda">>
          /\ WrittenIn({})
          /\ t.challenge = [settled[1][t.c] EXCEPT !.rankDiff = RankGap(t.p, t.q)]
       \/ /\ t.todo = <<"countAccepted", "insertMatch", "enqueueAgenda">>
          /\ WrittenIn({1})
          /\ challenge = ChallengeSaved(t, "ACCEPTED", RankGap(t.p, t.q))
       \/ /\ t.todo = <<"insertMatch", "enqueueAgenda">>
          /\ WrittenIn({1, 8})
          /\ challenge = ChallengeSaved(t, "ACCEPTED", RankGap(t.p, t.q))
          /\ accepted = [settled[8] EXCEPT ![t.q] = @ + 1]
       \/ /\ t.todo = <<"enqueueAgenda">>
          /\ challenge = ChallengeSaved(t, "ACCEPTED", RankGap(t.p, t.q))
          /\ accepted = [settled[8] EXCEPT ![t.q] = @ + 1]
          /\ match = [settled[2] EXCEPT ![t.c].status = "PENDING_SCHEDULE"]

DeclineSoFar(t) ==
    /\ t.op = "decline" /\ t.todo = <<"saveChallenge">>
    /\ settled[1][t.c].status = "PENDING"
    /\ t.q = settled[1][t.c].challenged /\ t.q \in Player
    /\ t.challenge = settled[1][t.c]
    /\ WrittenIn({})

ProposeSoFar(t) ==
    /\ t.op = "propose" /\ t.todo = <<"insertProposal">>
    /\ settled[2][t.c].status = "PENDING_SCHEDULE"
    /\ t.p = settled[1][t.c].challenger /\ t.p \in Player
    /\ t.o \in Proposal /\ settled[3][t.o].status = "none"
    /\ WrittenIn({})

SelectSoFar(t) ==
    /\ t.op = "select" /\ settled[2][t.c].status = "PENDING_SCHEDULE"
    /\ t.q \in Player /\ t.q # settled[1][t.c].challenger
    /\ t.o \in Proposal /\ settled[3][t.o].status # "none" /\ settled[3][t.o].match = t.c
    /\ WrittenIn({2, 3})
    /\ \/ /\ t.todo = <<"saveMatch", "replaceOpen", "selectProposal">>
          /\ WrittenIn({})
       \/ /\ t.todo = <<"replaceOpen", "selectProposal">>
          /\ WrittenIn({2})
          /\ match = [settled[2] EXCEPT ![t.c] = [status |-> "SCHEDULED", selected |-> t.o]]
       \/ /\ t.todo = <<"selectProposal">>
          /\ match = [settled[2] EXCEPT ![t.c] = [status |-> "SCHEDULED", selected |-> t.o]]
          /\ proposal = [x \in Proposal |->
                IF settled[3][x].match = t.c /\ settled[3][x].status = "OPEN"
                THEN [settled[3][x] EXCEPT !.status = "REPLACED"] ELSE settled[3][x]]

ReportSoFar(t) ==
    /\ t.op = "report" /\ settled[2][t.c].status = "SCHEDULED"
    /\ t.p \in Player
    /\ t.p \in {settled[1][t.c].challenger, settled[1][t.c].challenged}
    /\ t.match = settled[2][t.c]
    /\ WrittenIn({2, 4})
    /\ \/ /\ t.todo \in {<<"checkReport", "insertReport", "saveMatch", "ask">>,
                         <<"insertReport", "saveMatch", "ask">>}
          /\ WrittenIn({})
       \/ /\ t.todo = <<"saveMatch", "ask">>
          /\ WrittenIn({4}) /\ settled[4][t.c].status = "none"
          /\ report = ReportSaved(t, "PENDING_CONFIRMATION", None)
       \/ /\ t.todo = <<"ask">>
          /\ settled[4][t.c].status = "none"
          /\ report = ReportSaved(t, "PENDING_CONFIRMATION", None)
          /\ match = MatchSaved(t, "PENDING_RESULT_CONFIRMATION")

ConfirmSoFar(t) ==
    /\ t.op = "confirm" /\ settled[4][t.c].status = "PENDING_CONFIRMATION"
    /\ t.q \in Player /\ t.p = settled[4][t.c].reporter /\ t.p # t.q
    /\ t.report = settled[4][t.c]
    /\ WrittenIn({2, 4})
    /\ \/ /\ t.todo = <<"readMatch", "saveReport", "saveMatch", "award">>
          /\ WrittenIn({})
       \/ /\ t.todo = <<"saveReport", "saveMatch", "award">>
          /\ WrittenIn({}) /\ t.match = settled[2][t.c]
       \/ /\ t.todo = <<"saveMatch", "award">>
          /\ WrittenIn({4}) /\ t.match = settled[2][t.c]
          /\ report = ReportSaved(t, "CONFIRMED", t.q)
       \/ /\ t.todo = <<"award">>
          /\ report = ReportSaved(t, "CONFIRMED", t.q) /\ match = MatchSaved(t, "CLOSED")

RefuseSoFar(t) ==
    /\ t.op = "refuse" /\ settled[4][t.c].status = "PENDING_CONFIRMATION"
    /\ t.q \in Player /\ t.p = settled[4][t.c].reporter /\ t.p # t.q
    /\ t.report = settled[4][t.c]
    /\ WrittenIn({2, 4})
    /\ \/ /\ t.todo = <<"readMatch", "saveReport", "saveMatch", "insertDispute">>
          /\ WrittenIn({})
       \/ /\ t.todo = <<"saveReport", "saveMatch", "insertDispute">>
          /\ WrittenIn({}) /\ t.match = settled[2][t.c]
       \/ /\ t.todo = <<"saveMatch", "insertDispute">>
          /\ WrittenIn({4}) /\ t.match = settled[2][t.c]
          /\ report = ReportSaved(t, "REJECTED", settled[4][t.c].confirmer)
       \/ /\ t.todo = <<"insertDispute">>
          /\ report = ReportSaved(t, "REJECTED", settled[4][t.c].confirmer)
          /\ match = MatchSaved(t, "DISPUTED")

CourtSoFar(t) ==
    /\ t.op \in Admin \cap {"cancha", "cancelar"} /\ t.todo = <<"saveMatch">>
    /\ settled[2][t.c].status # "none" /\ t.match = settled[2][t.c]
    /\ WrittenIn({})

Awarded(t) ==
    /\ points = [p \in Player |->
                    settled[6][p] + CASE p = t.p -> WinnerPoints(settled[1][t.c].rankDiff)
                                      [] p = t.q -> LoserPoints
                                      [] OTHER   -> 0]
    /\ awards = [settled[11] EXCEPT ![t.c] = @ + 1]

WalkoverSoFar(t) ==
    /\ t.op = "walkover" /\ "walkover" \in Admin
    /\ settled[2][t.c].status # "none" /\ settled[11][t.c] < MaxAwards
    /\ t.p \in Player /\ t.q = Opponent(t.c, t.p) /\ t.match = settled[2][t.c]
    /\ WrittenIn({6, 11})
    /\ \/ t.todo = <<"award", "saveMatch">> /\ WrittenIn({})
       \/ t.todo = <<"saveMatch">> /\ Awarded(t)

DisputaSoFar(t) ==
    /\ t.op = "disputa" /\ "disputa" \in Admin
    /\ settled[4][t.c].status # "none" /\ settled[11][t.c] < MaxAwards
    /\ t.p = settled[4][t.c].reporter /\ t.q = Opponent(t.c, t.p)
    /\ t.report = settled[4][t.c]
    /\ WrittenIn({2, 4, 5})
    /\ \/ /\ t.todo = <<"saveReport", "readMatch", "saveMatch", "saveDispute", "saveLoser",
                        "award">>
          /\ WrittenIn({})
       \/ /\ t.todo = <<"readMatch", "saveMatch", "saveDispute", "saveLoser", "award">>
          /\ WrittenIn({4})
          /\ report = ReportSaved(t, "CONFIRMED", settled[4][t.c].confirmer)
       \/ /\ t.todo = <<"saveMatch", "saveDispute", "saveLoser", "award">>
          /\ WrittenIn({4}) /\ t.match = settled[2][t.c]
          /\ report = ReportSaved(t, "CONFIRMED", settled[4][t.c].confirmer)
       \/ /\ t.todo = <<"saveDispute", "saveLoser", "award">>
          /\ WrittenIn({2, 4}) /\ match = MatchSaved(t, "CLOSED")
          /\ report = ReportSaved(t, "CONFIRMED", settled[4][t.c].confirmer)
       \/ /\ t.todo = <<"saveLoser", "award">>
          /\ match = MatchSaved(t, "CLOSED") /\ dispute = DisputeSaved(t)
          /\ report = ReportSaved(t, "CONFIRMED", settled[4][t.c].confirmer)
       \/ /\ t.todo = <<"award">>
          /\ match = MatchSaved(t, "CLOSED") /\ dispute = DisputeSaved(t)
          /\ report = ReportSaved(t, "CONFIRMED", t.q)

ExpireSoFar(t) ==
    /\ t.op = "expire" /\ t.c \in settled[9] /\ t.c \in overdue
    /\ \/ /\ t.todo = <<"saveChallenge", "ackExpire">>
          /\ WrittenIn({}) /\ settled[1][t.c].status = "PENDING"
          /\ t.challenge = settled[1][t.c]
       \/ /\ t.todo = <<"ackExpire">>
          /\ WrittenIn({1})
          /\ challenge = IF settled[1][t.c].status = "PENDING"
                         THEN [settled[1] EXCEPT ![t.c].status = "EXPIRED"] ELSE settled[1]

AgendaSoFar(t) ==
    /\ t.op = "agenda" /\ t.c \in settled[10]
    /\ \/ /\ t.todo = <<"saveMatch", "ackAgenda">>
          /\ WrittenIn({}) /\ settled[2][t.c].status = "PENDING_SCHEDULE"
          /\ t.match = settled[2][t.c]
       \/ /\ t.todo = <<"ackAgenda">>
          /\ WrittenIn({2})
          /\ match = IF settled[2][t.c].status = "PENDING_SCHEDULE"
                     THEN [settled[2] EXCEPT ![t.c].status = "CANCELLED"] ELSE settled[2]

SoFar(t) ==
    \/ CreateSoFar(t) \/ AcceptSoFar(t) \/ DeclineSoFar(t) \/ ProposeSoFar(t)
    \/ SelectSoFar(t) \/ ReportSoFar(t) \/ ConfirmSoFar(t) \/ RefuseSoFar(t)
    \/ CourtSoFar(t) \/ WalkoverSoFar(t) \/ DisputaSoFar(t)
    \/ ExpireSoFar(t) \/ AgendaSoFar(t)

(* Of the settled tables: a match belongs to an accepted challenge, a       *)
(* report to a match and a dispute to a decided report, so that no insert   *)
(* of a handler that has begun to write runs into a UNIQUE constraint.      *)
SettledOK ==
    /\ settled[1] \in [Challenge -> ChallengeRow]
    /\ settled[2] \in [Challenge -> MatchRow]
    /\ settled[3] \in [Proposal -> ProposalRow]
    /\ settled[4] \in [Challenge -> ReportRow]
    /\ settled[5] \in [Challenge -> {"none", "OPEN", "RESOLVED"}]
    /\ \A c \in Challenge :
          /\ settled[2][c].status # "none" => settled[1][c].status = "ACCEPTED"
          /\ settled[4][c].status # "none" => settled[2][c].status # "none"
          /\ settled[5][c] # "none" => settled[4][c].status \in {"CONFIRMED", "REJECTED"}

OneByOne ==
    /\ SettledOK
    /\ crashes \in Nat
    /\ \A h \in Handler : IF run[h] = Idle THEN settled = tables ELSE SoFar(run[h])

LEMMA SettlesAt ==
    ASSUME settled' = tables'
    PROVE  /\ settled'[1] = challenge' /\ settled'[2] = match' /\ settled'[3] = proposal'
           /\ settled'[4] = report' /\ settled'[5] = dispute' /\ settled'[6] = points'
           /\ settled'[7] = sent' /\ settled'[8] = accepted'
           /\ settled'[9] = challengeJobs' /\ settled'[10] = scheduleJobs'
           /\ settled'[11] = awards'
BY DEF tables

LEMMA SettledIs ==
    ASSUME settled = tables
    PROVE  WrittenIn({})
BY DEF tables, WrittenIn

LEMMA SameCardinality == ASSUME NEW S PROVE Serial!Cardinality(S) = Cardinality(S)
BY DEF Serial!Cardinality, Cardinality

LEMMA SameRank ==
    ASSUME points = settled[6], NEW p
    PROVE  Serial!Rank(p) = Rank(p)
<1>1. PICK S : S = {q \in Player : points[q] > points[p] \/ (points[q] = points[p] /\ q < p)}
  OBVIOUS
<1>2. S = {q \in Player : settled[6][q] > settled[6][p]
                         \/ (settled[6][q] = settled[6][p] /\ q < p)}
  BY <1>1
<1>3. QED BY <1>1, <1>2, SameCardinality DEF Rank, Serial!Rank

LEMMA SameRankGap ==
    ASSUME points = settled[6], NEW p, NEW q
    PROVE  Serial!RankGap(p, q) = RankGap(p, q)
BY SameRank DEF RankGap, Serial!RankGap

(* The handler is still in flight, or has returned and the tables settle.   *)
InFlight(h) == run'[h] # Idle /\ settled' = settled
Returned(h) == run'[h] = Idle /\ settled' = tables'

LEMMA Settling ==
    ASSUME NEW h, Handler = {h}, Continue(h)
    PROVE  /\ run'[h] = Idle => Returned(h)
           /\ \A x : x # <<>> /\ run'[h].todo = x => InFlight(h)
           /\ overdue' = overdue /\ crashes' = crashes
<1>1. \A x \in Handler : x = h
  OBVIOUS
<1>2. /\ settled' = IF \A x \in Handler : run'[x] = Idle THEN tables' ELSE settled
      /\ overdue' = overdue /\ crashes' = crashes
  BY DEF Continue, CheckRanks, InsertChallenge, CountChallenge, EnqueueJob, ReadRanks,
         SaveChallenge, InsertMatch, InsertProposal, UpdateProposals, ReadMatch, SaveMatch,
         CheckReport, InsertReport, Ask, SaveReport, WriteDispute, Award, AckJob,
         Returns, Aborts, Becomes
<1>3. \A x : x # <<>> /\ run'[h].todo = x => run'[h] # Idle
  BY DEF Idle
<1>4. QED BY <1>1, <1>2, <1>3 DEF Returned, InFlight

(* A handler that gives up before it has written anything does nothing.     *)
LEMMA NothingDone ==
    ASSUME WrittenIn({}), settled' = tables', overdue' = overdue,
           UNCHANGED <<rows, limits, challengeJobs, scheduleJobs, score>>
    PROVE  UNCHANGED Serial!vars
<1>1. /\ challenge' = settled[1] /\ match' = settled[2] /\ proposal' = settled[3]
      /\ report' = settled[4] /\ dispute' = settled[5] /\ points' = settled[6]
      /\ sent' = settled[7] /\ accepted' = settled[8] /\ challengeJobs' = settled[9]
      /\ scheduleJobs' = settled[10] /\ awards' = settled[11]
  BY DEF WrittenIn, rows, limits, score
<1>2. /\ settled'[1] = settled[1] /\ settled'[2] = settled[2] /\ settled'[3] = settled[3]
      /\ settled'[4] = settled[4] /\ settled'[5] = settled[5] /\ settled'[6] = settled[6]
      /\ settled'[7] = settled[7] /\ settled'[8] = settled[8]
      /\ settled'[9] = settled[9] /\ settled'[10] = settled[10]
      /\ settled'[11] = settled[11]
  BY <1>1, SettlesAt
<1>3. QED BY <1>2 DEF Serial!vars, Serial!rows, Serial!limits, Serial!jobs, Serial!score

LEMMA Unwritten ==
    ASSUME WrittenIn({})
    PROVE  /\ challenge = settled[1] /\ match = settled[2] /\ proposal = settled[3]
           /\ report = settled[4] /\ dispute = settled[5] /\ points = settled[6]
           /\ sent = settled[7] /\ accepted = settled[8] /\ challengeJobs = settled[9]
           /\ scheduleJobs = settled[10] /\ awards = settled[11]
BY DEF WrittenIn

LEMMA SavedStay ==
    ASSUME settled' = settled, NEW t, NEW u, u.c = t.c, u.p = t.p, u.q = t.q
    PROVE  /\ \A s, d : ChallengeSaved(u, s, d)' = ChallengeSaved(t, s, d)
           /\ \A s : MatchSaved(u, s)' = MatchSaved(t, s)
           /\ \A s, q : ReportSaved(u, s, q)' = ReportSaved(t, s, q)
           /\ DisputeSaved(u)' = DisputeSaved(t)
BY DEF ChallengeSaved, MatchSaved, ReportSaved, DisputeSaved

(* The updates of MatchLifecycle, and those of a save that writes a copy.   *)
WithStatus(f, c, s) == [f EXCEPT ![c].status = s]
WithAnswer(f, c, s, d) == [f EXCEPT ![c].status = s, ![c].rankDiff = d]
WithVerdict(f, c, s, q) == [f EXCEPT ![c].status = s, ![c].confirmer = q]
WithChallenge(f, c, r, s) == [f EXCEPT ![c] = [r EXCEPT !.status = s]]
WithReport(f, c, r, s, q) ==
    [f EXCEPT ![c] = [[r EXCEPT !.status = s] EXCEPT !.confirmer = q]]

LEMMA RowSaved ==
    ASSUME NEW f, NEW c, NEW s
    PROVE  WithChallenge(f, c, f[c], s) = WithStatus(f, c, s)
BY DEF WithChallenge, WithStatus

LEMMA ChallengeSavedIs ==
    ASSUME SettledOK, NEW t, NEW s, NEW d, t.c \in Challenge,
           t.p = settled[1][t.c].challenger, t.q = settled[1][t.c].challenged
    PROVE  /\ ChallengeSaved(t, s, d) = WithAnswer(settled[1], t.c, s, d)
           /\ \A r : r = [settled[1][t.c] EXCEPT !.rankDiff = d] =>
                 ChallengeSaved(t, s, d) = WithChallenge(settled[1], t.c, r, s)
           /\ d = settled[1][t.c].rankDiff =>
                 /\ ChallengeSaved(t, s, d) = WithStatus(settled[1], t.c, s)
                 /\ ChallengeSaved(t, s, d)
                       = WithChallenge(settled[1], t.c, settled[1][t.c], s)
<1>1. PICK f \in [Challenge -> ChallengeRow] : f = settled[1]
  BY DEF SettledOK
<1>2. PICK c \in Challenge : c = t.c
  OBVIOUS
<1>3. PICK r \in ChallengeRow : r = f[c]
  OBVIOUS
<1>4. PICK a, p, q, e : r = [status |-> a, challenger |-> p, challenged |-> q, rankDiff |-> e]
  BY <1>3 DEF ChallengeRow
<1>5. PICK x : x = [status |-> s, challenger |-> p, challenged |-> q, rankDiff |-> d]
  OBVIOUS
<1>6. t.p = p /\ t.q = q
  BY <1>1, <1>2, <1>3, <1>4
<1>7. ChallengeSaved(t, s, d) = [f EXCEPT ![c] = x]
  BY <1>1, <1>2, <1>5, <1>6 DEF ChallengeSaved
<1>8. [[r EXCEPT !.rankDiff = d] EXCEPT !.status = s] = x
  <2>1. PICK y : y = [r EXCEPT !.rankDiff = d]
    OBVIOUS
  <2>2. y = [status |-> a, challenger |-> p, challenged |-> q, rankDiff |-> d]
    BY <1>4, <2>1
  <2>3. [y EXCEPT !.status = s] = x
    BY <1>5, <2>2
  <2>4. QED BY <2>1, <2>3
<1>9. [r EXCEPT !.status = s] = [status |-> s, challenger |-> p, challenged |-> q, rankDiff |-> e]
  BY <1>4
<1>10. [f EXCEPT ![c].status = s] = [f EXCEPT ![c] = [r EXCEPT !.status = s]]
  BY <1>3
<1>11. [f EXCEPT ![c].status = s, ![c].rankDiff = d] = [f EXCEPT ![c] = x]
  <2>1. PICK y : y = [status |-> s, challenger |-> p, challenged |-> q, rankDiff |-> e]
    OBVIOUS
  <2>2. PICK g : g = [f EXCEPT ![c].status = s]
    OBVIOUS
  <2>3. g = [f EXCEPT ![c] = y]
    BY <1>9, <1>10, <2>1, <2>2
  <2>4. g[c] = y /\ [y EXCEPT !.rankDiff = d] = x
    BY <1>5, <2>1, <2>3
  <2>5. [g EXCEPT ![c].rankDiff = d] = [g EXCEPT ![c] = x]
    BY <2>4
  <2>6. [g EXCEPT ![c] = x] = [f EXCEPT ![c] = x]
    BY <2>3
  <2>7. QED BY <2>2, <2>5, <2>6
<1>12. d = e => [r EXCEPT !.status = s] = x
  BY <1>5, <1>9
<1>13. r.rankDiff = e
  BY <1>4
<1>14. WithAnswer(f, c, s, d) = [f EXCEPT ![c] = x]
  BY <1>11 DEF WithAnswer
<1>15. \A y : y = [r EXCEPT !.rankDiff = d] => WithChallenge(f, c, y, s) = [f EXCEPT ![c] = x]
  BY <1>8 DEF WithChallenge
<1>16. d = e => /\ WithStatus(f, c, s) = [f EXCEPT ![c] = x]
                /\ WithChallenge(f, c, r, s) = [f EXCEPT ![c] = x]
  <2>1. WithStatus(f, c, s) = WithChallenge(f, c, r, s)
    BY <1>10 DEF WithStatus, WithChallenge
  <2>2. d = e => WithChallenge(f, c, r, s) = [f EXCEPT ![c] = x]
    BY <1>12 DEF WithChallenge
  <2>3. QED BY <2>1, <2>2
<1>17. PICK z : z = [f EXCEPT ![c] = x]
  OBVIOUS
<1>18. QED BY <1>1, <1>2, <1>3, <1>7, <1>13, <1>14, <1>15, <1>16, <1>17

LEMMA MatchSavedIs ==
    ASSUME SettledOK, NEW t, NEW s, t.c \in Challenge
    PROVE  MatchSaved(t, s) = WithStatus(settled[2], t.c, s)
<1>1. PICK f \in [Challenge -> MatchRow] : f = settled[2]
  BY DEF SettledOK
<1>2. PICK c \in Challenge : c = t.c
  OBVIOUS
<1>3. PICK r \in MatchRow : r = f[c]
  OBVIOUS
<1>4. PICK a, o : r = [status |-> a, selected |-> o]
  BY <1>3 DEF MatchRow
<1>5. [r EXCEPT !.status = s] = [status |-> s, selected |-> r.selected]
  BY <1>4
<1>6. [f EXCEPT ![c].status = s] = [f EXCEPT ![c] = [r EXCEPT !.status = s]]
  BY <1>3
<1>7. QED BY <1>1, <1>2, <1>3, <1>5, <1>6 DEF MatchSaved, WithStatus

LEMMA ReportSavedIs ==
    ASSUME SettledOK, NEW t, NEW s, NEW q, t.c \in Challenge,
           t.p = settled[4][t.c].reporter
    PROVE  /\ ReportSaved(t, s, q) = WithVerdict(settled[4], t.c, s, q)
           /\ ReportSaved(t, s, q) = WithReport(settled[4], t.c, settled[4][t.c], s, q)
           /\ q = settled[4][t.c].confirmer =>
                 ReportSaved(t, s, q) = WithStatus(settled[4], t.c, s)
<1>1. PICK f \in [Challenge -> ReportRow] : f = settled[4]
  BY DEF SettledOK
<1>2. PICK c \in Challenge : c = t.c
  OBVIOUS
<1>3. PICK r \in ReportRow : r = f[c]
  OBVIOUS
<1>4. PICK a, p, e : r = [status |-> a, reporter |-> p, confirmer |-> e]
  BY <1>3 DEF ReportRow
<1>5. PICK x : x = [status |-> s, reporter |-> p, confirmer |-> q]
  OBVIOUS
<1>6. t.p = p
  BY <1>1, <1>2, <1>3, <1>4
<1>7. ReportSaved(t, s, q) = [f EXCEPT ![c] = x]
  BY <1>1, <1>2, <1>5, <1>6 DEF ReportSaved
<1>8. [[r EXCEPT !.status = s] EXCEPT !.confirmer = q] = x
  <2>1. PICK y : y = [r EXCEPT !.status = s]
    OBVIOUS
  <2>2. y = [status |-> s, reporter |-> p, confirmer |-> e]
    BY <1>4, <2>1
  <2>3. [y EXCEPT !.confirmer = q] = x
    BY <1>5, <2>2
  <2>4. QED BY <2>1, <2>3
<1>9. [r EXCEPT !.status = s] = [status |-> s, reporter |-> p, confirmer |-> e]
  BY <1>4
<1>10. [f EXCEPT ![c].status = s] = [f EXCEPT ![c] = [r EXCEPT !.status = s]]
  BY <1>3
<1>11. [f EXCEPT ![c].status = s, ![c].confirmer = q] = [f EXCEPT ![c] = x]
  <2>1. PICK y : y = [status |-> s, reporter |-> p, confirmer |-> e]
    OBVIOUS
  <2>2. PICK g : g = [f EXCEPT ![c].status = s]
    OBVIOUS
  <2>3. g = [f EXCEPT ![c] = y]
    BY <1>9, <1>10, <2>1, <2>2
  <2>4. g[c] = y /\ [y EXCEPT !.confirmer = q] = x
    BY <1>5, <2>1, <2>3
  <2>5. [g EXCEPT ![c].confirmer = q] = [g EXCEPT ![c] = x]
    BY <2>4
  <2>6. [g EXCEPT ![c] = x] = [f EXCEPT ![c] = x]
    BY <2>3
  <2>7. QED BY <2>2, <2>5, <2>6
<1>12. q = e => [r EXCEPT !.status = s] = x
  BY <1>5, <1>9
<1>13. r.confirmer = e
  BY <1>4
<1>14. WithVerdict(f, c, s, q) = [f EXCEPT ![c] = x]
  BY <1>11 DEF WithVerdict
<1>15. WithReport(f, c, r, s, q) = [f EXCEPT ![c] = x]
  BY <1>8 DEF WithReport
<1>16. q = e => WithStatus(f, c, s) = [f EXCEPT ![c] = x]
  BY <1>10, <1>12 DEF WithStatus
<1>17. PICK z : z = [f EXCEPT ![c] = x]
  OBVIOUS
<1>18. QED BY <1>1, <1>2, <1>3, <1>7, <1>13, <1>14, <1>15, <1>16, <1>17

LEMMA CreateSteps ==
    ASSUME HandlersTypeOK, NEW h, Handler = {h}, SettledOK, NEW t, t = run[h], NEW u,
           u = run'[h], CreateSoFar(t), Continue(h), t.c \in Challenge
    PROVE  \/ InFlight(h) /\ CreateSoFar(u)'
           \/ /\ Returned(h)
              /\ UNCHANGED Serial!vars \/ Serial!CreateChallenge(t.c, t.p, t.q)
<1> h \in Handler
  OBVIOUS
<1>1. CASE t.todo = <<"checkRanks", "insertChallenge", "countSent", "enqueueExpire">>
  <2>1. /\ run[h].todo # <<>> /\ Tail(run[h].todo) # <<>>
        /\ Tail(run[h].todo) = <<"insertChallenge", "countSent", "enqueueExpire">>
    BY <1>1
  <2>2. CheckRanks(h)
    BY <1>1, CallIs
  <2>3. UNCHANGED <<rows, limits, challengeJobs, scheduleJobs, score>>
    BY <2>2 DEF CheckRanks
  <2>4. WrittenIn({})
    BY <1>1 DEF CreateSoFar
  <2>5. CASE Aborts(h)
    BY <2>3, <2>4, <2>5, GivesUp, Settling, NothingDone DEF Returned
  <2>6. CASE Returns(h) /\ RankGap(t.p, t.q) <= MaxRankDiff
    <3>1. /\ u.todo = <<"insertChallenge", "countSent", "enqueueExpire">>
          /\ u.op = t.op /\ u.c = t.c /\ u.p = t.p /\ u.q = t.q
      BY <2>1, <2>6, Advances
    <3>2. InFlight(h)
      BY <2>1, <3>1, Settling
    <3>3. WrittenIn({})' /\ WrittenIn({1, 7})'
      BY <2>3, <2>4, <3>2 DEF WrittenIn, InFlight, rows, limits, score
    <3>4. RankGap(u.p, u.q)' = RankGap(t.p, t.q)
      BY <2>3, <3>1 DEF RankGap, Rank, score
    <3>5. CreateSoFar(u)'
      BY <2>6, <3>1, <3>2, <3>3, <3>4 DEF CreateSoFar, InFlight
    <3>6. QED BY <3>2, <3>5
  <2>7. QED BY <2>2, <2>5, <2>6 DEF CheckRanks
<1>2. CASE t.todo = <<"insertChallenge", "countSent", "enqueueExpire">>
  <2>1. /\ run[h].todo # <<>> /\ Tail(run[h].todo) # <<>>
        /\ Tail(run[h].todo) = <<"countSent", "enqueueExpire">>
    BY <1>2
  <2>2. InsertChallenge(h) /\ Returns(h)
    BY <1>2, CallIs DEF InsertChallenge
  <2>3. /\ u.todo = <<"countSent", "enqueueExpire">> /\ u.op = t.op /\ u.c = t.c /\ u.p = t.p
        /\ u.q = t.q /\ u.o = t.o /\ u.challenge = t.challenge /\ u.match = t.match
        /\ u.report = t.report
    BY <2>1, <2>2, Advances
  <2>4. InFlight(h)
    BY <2>1, <2>3, Settling
  <2>5. /\ WrittenIn({}) /\ RankGap(t.p, t.q) <= MaxRankDiff
    BY <1>2 DEF CreateSoFar
  <2>6. WrittenIn({1, 7})'
    BY <2>2, <2>4, <2>5 DEF WrittenIn, InFlight, InsertChallenge, rows, limits, score
  <2>7. /\ sent' = settled[7] /\ challenge' = ChallengeSaved(t, "PENDING", 0)
    BY <2>2, <2>5, Unwritten
       DEF WrittenIn, InsertChallenge, ChallengeSaved, rows, limits, score
  <2>8. /\ challenge' = ChallengeSaved(u, "PENDING", 0)'
    BY <2>3, <2>4, <2>7, SavedStay DEF InFlight
  <2>9. RankGap(u.p, u.q)' = RankGap(t.p, t.q)
    BY <2>2, <2>3 DEF RankGap, Rank, rows, score, InsertChallenge
  <2>10. CreateSoFar(u)'
    BY <2>3, <2>4, <2>5, <2>6, <2>7, <2>8, <2>9 DEF CreateSoFar, InFlight
  <2>11. QED BY <2>4, <2>10
<1>3. CASE t.todo = <<"countSent", "enqueueExpire">>
  <2>1. /\ run[h].todo # <<>> /\ Tail(run[h].todo) # <<>>
        /\ Tail(run[h].todo) = <<"enqueueExpire">>
    BY <1>3
  <2>2. CountChallenge(h) /\ Returns(h)
    BY <1>3, CallIs DEF CountChallenge
  <2>3. Calling(h, "countSent") /\ ~Calling(h, "countAccepted")
    BY <1>3 DEF Calling
  <2>4. /\ u.todo = <<"enqueueExpire">> /\ u.op = t.op /\ u.c = t.c /\ u.p = t.p /\ u.q = t.q
        /\ u.o = t.o /\ u.challenge = t.challenge /\ u.match = t.match /\ u.report = t.report
    BY <2>1, <2>2, Advances
  <2>5. InFlight(h)
    BY <2>1, <2>4, Settling
  <2>6. /\ WrittenIn({1, 7}) /\ RankGap(t.p, t.q) <= MaxRankDiff
        /\ challenge = ChallengeSaved(t, "PENDING", 0) /\ sent = settled[7]
    BY <1>3 DEF CreateSoFar
  <2>7. WrittenIn({1, 7})'
    BY <2>2, <2>3, <2>5, <2>6 DEF WrittenIn, InFlight, CountChallenge, rows, limits, score
  <2>8. /\ challenge' = ChallengeSaved(t, "PENDING", 0)
        /\ sent' = [settled[7] EXCEPT ![t.p] = @ + 1]
    BY <2>2, <2>3, <2>6, Unwritten
       DEF WrittenIn, CountChallenge, ChallengeSaved, rows, limits, score
  <2>9. /\ challenge' = ChallengeSaved(u, "PENDING", 0)'
    BY <2>4, <2>5, <2>8, SavedStay DEF InFlight
  <2>10. RankGap(u.p, u.q)' = RankGap(t.p, t.q)
    BY <2>2, <2>4 DEF RankGap, Rank, rows, score, CountChallenge
  <2>11. CreateSoFar(u)'
    BY <2>4, <2>5, <2>6, <2>7, <2>8, <2>9, <2>10 DEF CreateSoFar, InFlight
  <2>12. QED BY <2>5, <2>11
<1>4. CASE t.todo = <<"enqueueExpire">>
  <2>1. run[h].todo # <<>> /\ Tail(run[h].todo) = <<>>
    BY <1>4
  <2>2. EnqueueJob(h) /\ Returns(h)
    BY <1>4, CallIs DEF EnqueueJob
  <2>3. Calling(h, "enqueueExpire") /\ ~Calling(h, "enqueueAgenda")
    BY <1>4 DEF Calling
  <2>4. Returned(h) /\ overdue' = overdue
    BY <2>1, <2>2, Finishes, Settling
  <2>5. /\ WrittenIn({1, 7}) /\ RankGap(t.p, t.q) <= MaxRankDiff
        /\ t.op = "create" /\ t.p # t.q /\ settled[1][t.c].status = "none"
        /\ challenge = ChallengeSaved(t, "PENDING", 0)
        /\ sent = [settled[7] EXCEPT ![t.p] = @ + 1]
    BY <1>4 DEF CreateSoFar
  <2>6. /\ settled'[2] = settled[2] /\ settled'[3] = settled[3] /\ settled'[4] = settled[4]
        /\ settled'[5] = settled[5] /\ settled'[6] = settled[6] /\ settled'[8] = settled[8]
        /\ settled'[10] = settled[10] /\ settled'[11] = settled[11]
    BY <2>2, <2>3, <2>4, <2>5, SettlesAt
       DEF WrittenIn, Returned, EnqueueJob, rows, limits, score
  <2>7. /\ settled'[1] = ChallengeSaved(t, "PENDING", 0)
        /\ settled'[7] = [settled[7] EXCEPT ![t.p] = @ + 1]
        /\ settled'[9] \in Enqueue(settled[9], t.c)
    BY <2>2, <2>3, <2>4, <2>5, SettlesAt
       DEF WrittenIn, Returned, EnqueueJob, rows, limits, score
  <2>8. Serial!RankGap(t.p, t.q) <= MaxRankDiff
    BY <2>5, SameRankGap DEF WrittenIn
  <2>9. Serial!CreateChallenge(t.c, t.p, t.q)
    BY <2>4, <2>5, <2>6, <2>7, <2>8
       DEF Serial!CreateChallenge, ChallengeSaved, Serial!Enqueue, Enqueue, Serial!score
  <2>10. QED BY <2>4, <2>9
<1>5. QED BY <1>1, <1>2, <1>3, <1>4 DEF CreateSoFar

LEMMA AcceptSteps ==
    ASSUME HandlersTypeOK, NEW h, Handler = {h}, SettledOK, NEW t, t = run[h], NEW u,
           u = run'[h], AcceptSoFar(t), Continue(h), t.c \in Challenge
    PROVE  \/ InFlight(h) /\ AcceptSoFar(u)'
           \/ /\ Returned(h)
              /\ Serial!AcceptChallenge(t.c, t.q)
<1> h \in Handler
  OBVIOUS
<1>0. PICK g : g = RankGap(t.p, t.q)
  OBVIOUS
<1>a. /\ t.op = "accept" /\ settled[1][t.c].status = "PENDING" /\ WrittenIn({1, 2, 8})
      /\ t.p = settled[1][t.c].challenger /\ t.q = settled[1][t.c].challenged
  BY DEF AcceptSoFar
<1>1. CASE t.todo = <<"readRanks", "saveChallenge", "countAccepted", "insertMatch",
         "enqueueAgenda">>
  <2>1. /\ run[h].todo # <<>> /\ Tail(run[h].todo) # <<>>
        /\ Tail(run[h].todo) = <<"saveChallenge", "countAccepted", "insertMatch",
           "enqueueAgenda">>
    BY <1>1
  <2>2. ReadRanks(h)
    BY <1>1, CallIs
  <2>3. /\ u.todo = <<"saveChallenge", "countAccepted", "insertMatch", "enqueueAgenda">>
        /\ u.op = t.op /\ u.c = t.c /\ u.p = t.p /\ u.q = t.q
        /\ u.challenge = [t.challenge EXCEPT !.rankDiff = RankGap(t.p, t.q)]
    BY <2>1, <2>2, RanksAreRead
  <2>4. InFlight(h)
    BY <2>1, <2>3, Settling
  <2>5. /\ WrittenIn({}) /\ t.challenge = settled[1][t.c]
    BY <1>1, <1>0 DEF AcceptSoFar
  <2>6. WrittenIn({})' /\ WrittenIn({1, 2, 8})'
    BY <2>2, <2>4, <2>5 DEF WrittenIn, InFlight, ReadRanks, rows, limits, score
  <2>7. RankGap(u.p, u.q)' = g
    BY <1>0, <2>2, <2>3 DEF RankGap, Rank, rows, score, ReadRanks
  <2>8. u.challenge = [settled[1][t.c] EXCEPT !.rankDiff = g]
    BY <1>0, <2>3, <2>5
  <2>9. AcceptSoFar(u)'
    BY <2>8, <2>3, <2>4, <2>5, <2>6, <2>7 DEF AcceptSoFar, InFlight
  <2>10. QED BY <2>4, <2>9
<1>2. CASE t.todo = <<"saveChallenge", "countAccepted", "insertMatch", "enqueueAgenda">>
  <2>1. /\ run[h].todo # <<>> /\ Tail(run[h].todo) # <<>>
        /\ Tail(run[h].todo) = <<"countAccepted", "insertMatch", "enqueueAgenda">>
    BY <1>2
  <2>2. SaveChallenge(h) /\ Returns(h)
    BY <1>2, CallIs DEF SaveChallenge
  <2>3. /\ u.todo = <<"countAccepted", "insertMatch", "enqueueAgenda">> /\ u.op = t.op
        /\ u.c = t.c /\ u.p = t.p /\ u.q = t.q /\ u.o = t.o /\ u.challenge = t.challenge
        /\ u.match = t.match /\ u.report = t.report
    BY <2>1, <2>2, Advances
  <2>4. InFlight(h)
    BY <2>1, <2>3, Settling
  <2>5. /\ WrittenIn({})
        /\ t.challenge = [settled[1][t.c] EXCEPT !.rankDiff = g]
    BY <1>2, <1>0 DEF AcceptSoFar
  <2>6. WrittenIn({1})' /\ WrittenIn({1, 2, 8})'
    BY <2>2, <2>4, <2>5 DEF WrittenIn, InFlight, SaveChallenge, rows, limits, score
  <2>7. challenge' = WithChallenge(challenge, t.c, t.challenge, "ACCEPTED")
    BY <1>a, <2>2, <2>5, NewStatusAre DEF SaveChallenge, WithChallenge
  <2>8. ChallengeSaved(t, "ACCEPTED", g) = WithChallenge(settled[1], t.c, t.challenge, "ACCEPTED")
    BY <1>a, <2>5, ChallengeSavedIs
  <2>9. /\ challenge' = ChallengeSaved(t, "ACCEPTED", g)
    BY <2>2, <2>5, Unwritten, <2>7, <2>8
       DEF WrittenIn, SaveChallenge, rows, limits, score
  <2>10. /\ challenge' = ChallengeSaved(u, "ACCEPTED", g)'
    BY <2>3, <2>4, <2>9, SavedStay DEF InFlight
  <2>11. RankGap(u.p, u.q)' = g
    BY <1>0, <2>2, <2>3 DEF RankGap, Rank, rows, score, SaveChallenge
  <2>12. AcceptSoFar(u)'
    BY <2>3, <2>4, <2>5, <2>6, <2>9, <2>10, <2>11 DEF AcceptSoFar, InFlight
  <2>13. QED BY <2>4, <2>12
<1>3. CASE t.todo = <<"countAccepted", "insertMatch", "enqueueAgenda">>
  <2>1. /\ run[h].todo # <<>> /\ Tail(run[h].todo) # <<>>
        /\ Tail(run[h].todo) = <<"insertMatch", "enqueueAgenda">>
    BY <1>3
  <2>2. CountChallenge(h) /\ Returns(h)
    BY <1>3, CallIs DEF CountChallenge
  <2>3. Calling(h, "countAccepted") /\ ~Calling(h, "countSent")
    BY <1>3 DEF Calling
  <2>4. /\ u.todo = <<"insertMatch", "enqueueAgenda">> /\ u.op = t.op /\ u.c = t.c /\ u.p = t.p
        /\ u.q = t.q /\ u.o = t.o /\ u.challenge = t.challenge /\ u.match = t.match
        /\ u.report = t.report
    BY <2>1, <2>2, Advances
  <2>5. InFlight(h)
    BY <2>1, <2>4, Settling
  <2>6. /\ WrittenIn({1})
        /\ challenge = ChallengeSaved(t, "ACCEPTED", g)
    BY <1>3, <1>0 DEF AcceptSoFar
  <2>7. WrittenIn({1, 8})' /\ WrittenIn({1, 2, 8})'
    BY <2>2, <2>3, <2>5, <2>6 DEF WrittenIn, InFlight, CountChallenge, rows, limits, score
  <2>8. /\ challenge' = ChallengeSaved(t, "ACCEPTED", g)
        /\ accepted' = [settled[8] EXCEPT ![t.q] = @ + 1]
    BY <2>2, <2>3, <2>6, Unwritten
       DEF WrittenIn, CountChallenge, rows, limits, score
  <2>9. /\ challenge' = ChallengeSaved(u, "ACCEPTED", g)'
    BY <2>4, <2>5, <2>8, SavedStay DEF InFlight
  <2>10. RankGap(u.p, u.q)' = g
    BY <1>0, <2>2, <2>4 DEF RankGap, Rank, rows, score, CountChallenge
  <2>11. AcceptSoFar(u)'
    BY <2>4, <2>5, <2>6, <2>7, <2>8, <2>9, <2>10 DEF AcceptSoFar, InFlight
  <2>12. QED BY <2>5, <2>11
<1>4. CASE t.todo = <<"insertMatch", "enqueueAgenda">>
  <2>1. /\ run[h].todo # <<>> /\ Tail(run[h].todo) # <<>>
        /\ Tail(run[h].todo) = <<"enqueueAgenda">>
    BY <1>4
  <2>2. /\ WrittenIn({1, 8})
        /\ challenge = ChallengeSaved(t, "ACCEPTED", g)
        /\ accepted = [settled[8] EXCEPT ![t.q] = @ + 1]
    BY <1>4, <1>0 DEF AcceptSoFar
  <2>3. match[t.c].status = "none"
    <3>1. match = settled[2]
      BY <2>2 DEF WrittenIn
    <3>2. QED BY <1>a, <3>1 DEF SettledOK
  <2>4. /\ InsertMatch(h) /\ Returns(h)
        /\ match' = [match EXCEPT ![t.c].status = "PENDING_SCHEDULE"]
    BY <1>4, <2>3, CallIs DEF InsertMatch
  <2>5. /\ u.todo = <<"enqueueAgenda">> /\ u.op = t.op /\ u.c = t.c /\ u.p = t.p /\ u.q = t.q
        /\ u.o = t.o /\ u.challenge = t.challenge /\ u.match = t.match /\ u.report = t.report
    BY <2>1, <2>4, Advances
  <2>6. InFlight(h)
    BY <2>1, <2>5, Settling
  <2>7. WrittenIn({1, 2, 8})'
    BY <2>4, <2>6, <2>2 DEF WrittenIn, InFlight, InsertMatch, rows, limits, score
  <2>8. /\ challenge' = ChallengeSaved(t, "ACCEPTED", g)
        /\ accepted' = [settled[8] EXCEPT ![t.q] = @ + 1]
        /\ match' = [settled[2] EXCEPT ![t.c].status = "PENDING_SCHEDULE"]
    <3>1. challenge' = challenge /\ accepted' = accepted
      BY <2>4 DEF InsertMatch, limits
    <3>2. match = settled[2]
      BY <2>2 DEF WrittenIn
    <3>3. QED BY <2>4, <2>2, <3>1, <3>2
  <2>9. /\ challenge' = ChallengeSaved(u, "ACCEPTED", g)'
    BY <2>5, <2>6, <2>8, SavedStay DEF InFlight
  <2>10. RankGap(u.p, u.q)' = g
    BY <1>0, <2>4, <2>5 DEF RankGap, Rank, rows, score, InsertMatch
  <2>11. AcceptSoFar(u)'
    BY <2>5, <2>6, <2>2, <2>7, <2>8, <2>9, <2>10 DEF AcceptSoFar, InFlight
  <2>12. QED BY <2>6, <2>11
<1>5. CASE t.todo = <<"enqueueAgenda">>
  <2>1. run[h].todo # <<>> /\ Tail(run[h].todo) = <<>>
    BY <1>5
  <2>2. EnqueueJob(h) /\ Returns(h)
    BY <1>5, CallIs DEF EnqueueJob
  <2>3. Calling(h, "enqueueAgenda") /\ ~Calling(h, "enqueueExpire")
    BY <1>5 DEF Calling
  <2>4. Returned(h) /\ overdue' = overdue
    BY <2>1, <2>2, Finishes, Settling
  <2>5. /\ challenge = ChallengeSaved(t, "ACCEPTED", g)
        /\ accepted = [settled[8] EXCEPT ![t.q] = @ + 1]
        /\ match = [settled[2] EXCEPT ![t.c].status = "PENDING_SCHEDULE"]
    BY <1>5, <1>0 DEF AcceptSoFar
  <2>6. /\ settled'[3] = settled[3] /\ settled'[4] = settled[4] /\ settled'[5] = settled[5]
        /\ settled'[6] = settled[6] /\ settled'[7] = settled[7] /\ settled'[9] = settled[9]
        /\ settled'[11] = settled[11]
    BY <2>2, <2>3, <2>4, <1>a, <2>5, SettlesAt
       DEF WrittenIn, Returned, EnqueueJob, rows, limits, score
  <2>7. /\ settled'[1] = ChallengeSaved(t, "ACCEPTED", g)
        /\ settled'[2] = [settled[2] EXCEPT ![t.c].status = "PENDING_SCHEDULE"]
        /\ settled'[8] = [settled[8] EXCEPT ![t.q] = @ + 1]
        /\ settled'[10] \in Enqueue(settled[10], t.c)
    BY <2>2, <2>3, <2>4, <1>a, <2>5, SettlesAt
       DEF WrittenIn, Returned, EnqueueJob, rows, limits, score
  <2>8. Serial!RankGap(settled[1][t.c].challenger, t.q) = g
    BY <1>0, <1>a, SameRankGap DEF WrittenIn
  <2>9. ChallengeSaved(t, "ACCEPTED", g) = WithAnswer(settled[1], t.c, "ACCEPTED", g)
    BY <1>a, ChallengeSavedIs
  <2>10. settled'[1] = [settled[1] EXCEPT ![t.c].status = "ACCEPTED", ![t.c].rankDiff = g]
    BY <2>7, <2>9 DEF WithAnswer
  <2>11. Serial!AcceptChallenge(t.c, t.q)
    BY <1>a, <2>4, <2>6, <2>7, <2>8, <2>10
       DEF Serial!AcceptChallenge, Serial!Enqueue, Enqueue, Serial!score
  <2>12. QED BY <2>4, <2>11
<1>6. QED BY <1>1, <1>2, <1>3, <1>4, <1>5 DEF AcceptSoFar

LEMMA DeclineSteps ==
    ASSUME HandlersTypeOK, NEW h, Handler = {h}, SettledOK, NEW t, t = run[h], NEW u,
           u = run'[h], DeclineSoFar(t), Continue(h), t.c \in Challenge
    PROVE  \/ InFlight(h) /\ DeclineSoFar(u)'
           \/ /\ Returned(h)
              /\ Serial!RejectChallenge(t.c, t.q)
<1> h \in Handler
  OBVIOUS
<1>1. CASE t.todo = <<"saveChallenge">>
  <2>1. run[h].todo # <<>> /\ Tail(run[h].todo) = <<>>
    BY <1>1
  <2>2. SaveChallenge(h) /\ Returns(h)
    BY <1>1, CallIs DEF SaveChallenge
  <2>3. Returned(h) /\ overdue' = overdue
    BY <2>1, <2>2, Finishes, Settling
  <2>4. /\ WrittenIn({}) /\ t.op = "decline" /\ settled[1][t.c].status = "PENDING"
        /\ t.q = settled[1][t.c].challenged /\ t.challenge = settled[1][t.c]
    BY <1>1 DEF DeclineSoFar
  <2>5. /\ settled'[2] = settled[2] /\ settled'[3] = settled[3] /\ settled'[4] = settled[4]
        /\ settled'[5] = settled[5] /\ settled'[6] = settled[6] /\ settled'[7] = settled[7]
        /\ settled'[8] = settled[8] /\ settled'[9] = settled[9] /\ settled'[10] = settled[10]
        /\ settled'[11] = settled[11]
    BY <2>2, <2>3, <2>4, SettlesAt
       DEF WrittenIn, Returned, SaveChallenge, rows, limits, score
  <2>6. /\ settled'[1] = challenge'
    BY <2>2, <2>3, <2>4, SettlesAt
       DEF WrittenIn, Returned, SaveChallenge, rows, limits, score
  <2>7. challenge' = WithChallenge(challenge, t.c, t.challenge, "REJECTED")
    BY <2>2, <2>4, NewStatusAre DEF SaveChallenge, WithChallenge
  <2>8. settled'[1] = WithStatus(settled[1], t.c, "REJECTED")
    BY <2>4, <2>6, <2>7, Unwritten, RowSaved
  <2>9. settled'[1] = [settled[1] EXCEPT ![t.c].status = "REJECTED"]
    BY <2>8 DEF WithStatus
  <2>10. Serial!RejectChallenge(t.c, t.q)
    BY <2>3, <2>4, <2>5, <2>9
       DEF Serial!RejectChallenge, Serial!limits, Serial!jobs, Serial!score
  <2>11. QED BY <2>3, <2>10
<1>2. QED BY <1>1 DEF DeclineSoFar

LEMMA ProposeSteps ==
    ASSUME HandlersTypeOK, NEW h, Handler = {h}, SettledOK, NEW t, t = run[h], NEW u,
           u = run'[h], ProposeSoFar(t), Continue(h), t.c \in Challenge
    PROVE  \/ InFlight(h) /\ ProposeSoFar(u)'
           \/ /\ Returned(h)
              /\ Serial!ProposeSchedule(t.c, t.p, t.o)
<1> h \in Handler
  OBVIOUS
<1>1. CASE t.todo = <<"insertProposal">>
  <2>1. run[h].todo # <<>> /\ Tail(run[h].todo) = <<>>
    BY <1>1
  <2>2. InsertProposal(h) /\ Returns(h)
    BY <1>1, CallIs DEF InsertProposal
  <2>3. Returned(h) /\ overdue' = overdue
    BY <2>1, <2>2, Finishes, Settling
  <2>4. /\ WrittenIn({}) /\ settled[2][t.c].status = "PENDING_SCHEDULE"
        /\ t.p = settled[1][t.c].challenger /\ settled[3][t.o].status = "none"
    BY <1>1 DEF ProposeSoFar
  <2>5. /\ settled'[1] = settled[1] /\ settled'[2] = settled[2] /\ settled'[4] = settled[4]
        /\ settled'[5] = settled[5] /\ settled'[6] = settled[6] /\ settled'[7] = settled[7]
        /\ settled'[8] = settled[8] /\ settled'[9] = settled[9] /\ settled'[10] = settled[10]
        /\ settled'[11] = settled[11]
    BY <2>2, <2>3, <2>4, SettlesAt
       DEF WrittenIn, Returned, InsertProposal, rows, limits, score
  <2>6. /\ settled'[3] = [settled[3] EXCEPT ![t.o] = [status |-> "OPEN", match |-> t.c]]
    BY <2>2, <2>3, <2>4, SettlesAt
       DEF WrittenIn, Returned, InsertProposal, rows, limits, score
  <2>7. Serial!ProposeSchedule(t.c, t.p, t.o)
    BY <2>3, <2>4, <2>5, <2>6
       DEF Serial!ProposeSchedule, Serial!limits, Serial!jobs, Serial!score
  <2>8. QED BY <2>3, <2>7
<1>2. QED BY <1>1 DEF ProposeSoFar

LEMMA SelectSteps ==
    ASSUME HandlersTypeOK, NEW h, Handler = {h}, SettledOK, NEW t, t = run[h], NEW u,
           u = run'[h], SelectSoFar(t), Continue(h), t.c \in Challenge
    PROVE  \/ InFlight(h) /\ SelectSoFar(u)'
           \/ /\ Returned(h)
              /\ Serial!SelectOption(t.o, t.q)
<1> h \in Handler
  OBVIOUS
<1>1. CASE t.todo = <<"saveMatch", "replaceOpen", "selectProposal">>
  <2>1. /\ run[h].todo # <<>> /\ Tail(run[h].todo) # <<>>
        /\ Tail(run[h].todo) = <<"replaceOpen", "selectProposal">>
    BY <1>1
  <2>2. SaveMatch(h) /\ Returns(h)
    BY <1>1, CallIs DEF SaveMatch
  <2>3. /\ u.todo = <<"replaceOpen", "selectProposal">> /\ u.op = t.op /\ u.c = t.c
        /\ u.p = t.p /\ u.q = t.q /\ u.o = t.o /\ u.challenge = t.challenge
        /\ u.match = t.match /\ u.report = t.report
    BY <2>1, <2>2, Advances
  <2>4. InFlight(h)
    BY <2>1, <2>3, Settling
  <2>5. /\ WrittenIn({}) /\ t.op = "select"
    BY <1>1 DEF SelectSoFar
  <2>6. WrittenIn({2})' /\ WrittenIn({2, 3})'
    BY <2>2, <2>4, <2>5 DEF WrittenIn, InFlight, SaveMatch, rows, limits, score
  <2>7. /\ match' = [settled[2] EXCEPT ![t.c] = [status |-> "SCHEDULED", selected |-> t.o]]
    BY <2>2, <2>5, Unwritten, NewStatusAre
       DEF WrittenIn, SaveMatch, rows, limits, score
  <2>8. /\ match' = [settled[2] EXCEPT ![u.c] = [status |-> "SCHEDULED", selected |-> u.o]]
    BY <2>3, <2>4, <2>7, SavedStay DEF InFlight
  <2>9. SelectSoFar(u)'
    BY <2>3, <2>4, <2>5, <2>6, <2>7, <2>8 DEF SelectSoFar, InFlight
  <2>10. QED BY <2>4, <2>9
<1>2. CASE t.todo = <<"replaceOpen", "selectProposal">>
  <2>1. /\ run[h].todo # <<>> /\ Tail(run[h].todo) # <<>>
        /\ Tail(run[h].todo) = <<"selectProposal">>
    BY <1>2
  <2>2. UpdateProposals(h) /\ Returns(h)
    BY <1>2, CallIs DEF UpdateProposals
  <2>3. Calling(h, "replaceOpen") /\ ~Calling(h, "selectProposal")
    BY <1>2 DEF Calling
  <2>4. /\ u.todo = <<"selectProposal">> /\ u.op = t.op /\ u.c = t.c /\ u.p = t.p /\ u.q = t.q
        /\ u.o = t.o /\ u.challenge = t.challenge /\ u.match = t.match /\ u.report = t.report
    BY <2>1, <2>2, Advances
  <2>5. InFlight(h)
    BY <2>1, <2>4, Settling
  <2>6. /\ WrittenIn({2}) /\ t.op = "select"
        /\ match = [settled[2] EXCEPT ![t.c] = [status |-> "SCHEDULED", selected |-> t.o]]
    BY <1>2 DEF SelectSoFar
  <2>7. WrittenIn({2, 3})'
    BY <2>2, <2>3, <2>5, <2>6 DEF WrittenIn, InFlight, UpdateProposals, rows, limits, score
  <2>8. /\ match' = [settled[2] EXCEPT ![t.c] = [status |-> "SCHEDULED", selected |-> t.o]]
        /\ proposal' = [x \in Proposal |->
              IF settled[3][x].match = t.c /\ settled[3][x].status = "OPEN"
              THEN [settled[3][x] EXCEPT !.status = "REPLACED"] ELSE settled[3][x]]
    BY <2>2, <2>3, <2>6, Unwritten
       DEF WrittenIn, UpdateProposals, rows, limits, score
  <2>9. /\ match' = [settled[2] EXCEPT ![u.c] = [status |-> "SCHEDULED", selected |-> u.o]]
    BY <2>4, <2>5, <2>8, SavedStay DEF InFlight
  <2>10. SelectSoFar(u)'
    BY <2>4, <2>5, <2>6, <2>7, <2>8, <2>9 DEF SelectSoFar, InFlight
  <2>11. QED BY <2>5, <2>10
<1>3. CASE t.todo = <<"selectProposal">>
  <2>1. run[h].todo # <<>> /\ Tail(run[h].todo) = <<>>
    BY <1>3
  <2>2. UpdateProposals(h) /\ Returns(h)
    BY <1>3, CallIs DEF UpdateProposals
  <2>3. Calling(h, "selectProposal") /\ ~Calling(h, "replaceOpen")
    BY <1>3 DEF Calling
  <2>4. Returned(h) /\ overdue' = overdue
    BY <2>1, <2>2, Finishes, Settling
  <2>5. /\ WrittenIn({2, 3}) /\ settled[2][t.c].status = "PENDING_SCHEDULE"
        /\ t.q # settled[1][t.c].challenger /\ t.o \in Proposal
        /\ settled[3][t.o].status # "none" /\ settled[3][t.o].match = t.c
        /\ match = [settled[2] EXCEPT ![t.c] = [status |-> "SCHEDULED", selected |-> t.o]]
        /\ proposal = [x \in Proposal |->
              IF settled[3][x].match = t.c /\ settled[3][x].status = "OPEN"
              THEN [settled[3][x] EXCEPT !.status = "REPLACED"] ELSE settled[3][x]]
    BY <1>3 DEF SelectSoFar
  <2>6. /\ settled'[1] = settled[1] /\ settled'[4] = settled[4] /\ settled'[5] = settled[5]
        /\ settled'[6] = settled[6] /\ settled'[7] = settled[7] /\ settled'[8] = settled[8]
        /\ settled'[9] = settled[9] /\ settled'[10] = settled[10] /\ settled'[11] = settled[11]
    BY <2>2, <2>3, <2>4, <2>5, SettlesAt
       DEF WrittenIn, Returned, UpdateProposals, rows, limits, score
  <2>7. /\ settled'[2] = [settled[2] EXCEPT ![t.c] = [status |-> "SCHEDULED", selected |-> t.o]]
        /\ settled'[3] = [proposal EXCEPT ![t.o].status = "SELECTED"]
    BY <2>2, <2>3, <2>4, <2>5, SettlesAt
       DEF WrittenIn, Returned, UpdateProposals, rows, limits, score
  <2>8. settled'[3] = [x \in Proposal |->
                CASE x = t.o -> [settled[3][x] EXCEPT !.status = "SELECTED"]
                  [] x # t.o /\ settled[3][x].match = t.c /\ settled[3][x].status = "OPEN"
                       -> [settled[3][x] EXCEPT !.status = "REPLACED"]
                  [] OTHER -> settled[3][x]]
    <3>1. PICK f \in [Proposal -> ProposalRow] : f = settled[3]
      BY DEF SettledOK
    <3>2. PICK i \in Proposal : i = t.o
      BY <2>5
    <3>3. PICK a, m : f[i] = [status |-> a, match |-> m]
      BY DEF ProposalRow
    <3>4. [proposal[i] EXCEPT !.status = "SELECTED"] = [f[i] EXCEPT !.status = "SELECTED"]
      <4>1. PICK x : x = proposal[i]
        OBVIOUS
      <4>2. x = [f[i] EXCEPT !.status = "REPLACED"] \/ x = f[i]
        BY <2>5, <3>1, <3>2, <4>1
      <4>3. \E b : x = [status |-> b, match |-> m]
        BY <3>3, <4>2
      <4>4. [x EXCEPT !.status = "SELECTED"] = [status |-> "SELECTED", match |-> m]
        BY <4>3
      <4>5. [f[i] EXCEPT !.status = "SELECTED"] = [status |-> "SELECTED", match |-> m]
        BY <3>3
      <4>6. QED BY <4>1, <4>4, <4>5
    <3>5. settled'[3] = [proposal EXCEPT ![i] = [f[i] EXCEPT !.status = "SELECTED"]]
      BY <2>7, <3>2, <3>4
    <3>6. QED BY <2>5, <3>1, <3>2, <3>5
  <2>9. Serial!SelectOption(t.o, t.q)
    BY <2>4, <2>5, <2>6, <2>7, <2>8
       DEF Serial!SelectOption, Serial!limits, Serial!jobs, Serial!score
  <2>10. QED BY <2>4, <2>9
<1>4. QED BY <1>1, <1>2, <1>3 DEF SelectSoFar

LEMMA ReportSteps ==
    ASSUME HandlersTypeOK, NEW h, Handler = {h}, SettledOK, NEW t, t = run[h], NEW u,
           u = run'[h], ReportSoFar(t), Continue(h), t.c \in Challenge
    PROVE  \/ InFlight(h) /\ ReportSoFar(u)'
           \/ /\ Returned(h)
              /\ UNCHANGED Serial!vars \/ Serial!ReportResult(t.c, t.p)
<1> h \in Handler
  OBVIOUS
<1>a. /\ t.op = "report" /\ settled[2][t.c].status = "SCHEDULED" /\ t.match = settled[2][t.c]
      /\ t.p \in {settled[1][t.c].challenger, settled[1][t.c].challenged}
      /\ WrittenIn({2, 4})
  BY DEF ReportSoFar
<1>1. CASE t.todo = <<"checkReport", "insertReport", "saveMatch", "ask">>
  <2>1. /\ run[h].todo # <<>> /\ Tail(run[h].todo) # <<>>
        /\ Tail(run[h].todo) = <<"insertReport", "saveMatch", "ask">>
    BY <1>1
  <2>2. CheckReport(h)
    BY <1>1, CallIs
  <2>3. UNCHANGED <<rows, limits, challengeJobs, scheduleJobs, score>>
    BY <2>2 DEF CheckReport
  <2>4. WrittenIn({})
    BY <1>1 DEF ReportSoFar
  <2>5. CASE Aborts(h)
    BY <2>3, <2>4, <2>5, GivesUp, Settling, NothingDone DEF Returned
  <2>6. CASE Returns(h)
    <3>1. /\ u.todo = <<"insertReport", "saveMatch", "ask">>
          /\ u.op = t.op /\ u.c = t.c /\ u.p = t.p /\ u.match = t.match
      BY <2>1, <2>6, Advances
    <3>2. InFlight(h)
      BY <2>1, <3>1, Settling
    <3>3. WrittenIn({})' /\ WrittenIn({2, 4})'
      BY <2>3, <2>4, <3>2 DEF WrittenIn, InFlight, rows, limits, score
    <3>4. ReportSoFar(u)'
      BY <3>1, <3>2, <3>3 DEF ReportSoFar, InFlight
    <3>5. QED BY <3>2, <3>4
  <2>7. QED BY <2>2, <2>5, <2>6 DEF CheckReport
<1>2. CASE t.todo = <<"insertReport", "saveMatch", "ask">>
  <2>1. CASE report[t.c].status # "none"
    <3>1. InsertReport(h) /\ WrittenIn({})
      BY <1>2, CallIs DEF ReportSoFar
    <3>2. Aborts(h) /\ UNCHANGED <<rows, limits, challengeJobs, scheduleJobs, score>>
      BY <2>1, <3>1 DEF InsertReport, rows
    <3>3. QED BY <3>1, <3>2, GivesUp, Settling, NothingDone DEF Returned
  <2>2. CASE report[t.c].status = "none"
    <3>1. /\ run[h].todo # <<>> /\ Tail(run[h].todo) # <<>>
          /\ Tail(run[h].todo) = <<"saveMatch", "ask">>
      BY <1>2
    <3>2. InsertReport(h) /\ Returns(h)
      BY <1>2, <2>2, CallIs DEF InsertReport
    <3>3. /\ u.todo = <<"saveMatch", "ask">> /\ u.op = t.op /\ u.c = t.c /\ u.p = t.p
          /\ u.q = t.q /\ u.o = t.o /\ u.challenge = t.challenge /\ u.match = t.match
          /\ u.report = t.report
      BY <3>1, <3>2, Advances
    <3>4. InFlight(h)
      BY <3>1, <3>3, Settling
    <3>5. /\ WrittenIn({})
          /\ report[t.c].status = "none" /\ settled[4][t.c].status = "none"
      BY <1>2, <2>2, Unwritten DEF ReportSoFar
    <3>6. WrittenIn({4})' /\ WrittenIn({2, 4})'
      BY <3>2, <3>4, <3>5 DEF WrittenIn, InFlight, InsertReport, rows, limits, score
    <3>7. /\ report' = ReportSaved(t, "PENDING_CONFIRMATION", None)
      BY <3>2, <3>5, Unwritten
         DEF WrittenIn, InsertReport, rows, limits, score, ReportSaved
    <3>8. /\ report' = ReportSaved(u, "PENDING_CONFIRMATION", None)'
      BY <3>3, <3>4, <3>7, SavedStay DEF InFlight
    <3>9. ReportSoFar(u)'
      BY <3>3, <3>4, <3>5, <3>6, <3>7, <3>8 DEF ReportSoFar, InFlight
    <3>10. QED BY <3>4, <3>9
  <2>3. QED BY <2>2, <2>1
<1>3. CASE t.todo = <<"saveMatch", "ask">>
  <2>1. /\ run[h].todo # <<>> /\ Tail(run[h].todo) # <<>>
        /\ Tail(run[h].todo) = <<"ask">>
    BY <1>3
  <2>2. SaveMatch(h) /\ Returns(h)
    BY <1>3, CallIs DEF SaveMatch
  <2>3. /\ u.todo = <<"ask">> /\ u.op = t.op /\ u.c = t.c /\ u.p = t.p /\ u.q = t.q
        /\ u.o = t.o /\ u.challenge = t.challenge /\ u.match = t.match /\ u.report = t.report
    BY <2>1, <2>2, Advances
  <2>4. InFlight(h)
    BY <2>1, <2>3, Settling
  <2>5. /\ WrittenIn({4}) /\ settled[4][t.c].status = "none"
        /\ report = ReportSaved(t, "PENDING_CONFIRMATION", None)
    BY <1>3 DEF ReportSoFar
  <2>6. WrittenIn({2, 4})'
    BY <2>2, <2>4, <2>5 DEF WrittenIn, InFlight, SaveMatch, rows, limits, score
  <2>7. /\ report' = ReportSaved(t, "PENDING_CONFIRMATION", None)
        /\ match' = MatchSaved(t, "PENDING_RESULT_CONFIRMATION")
    BY <2>2, <2>5, Unwritten, NewStatusAre, <1>a
       DEF WrittenIn, SaveMatch, rows, limits, score, MatchSaved
  <2>8. /\ report' = ReportSaved(u, "PENDING_CONFIRMATION", None)'
        /\ match' = MatchSaved(u, "PENDING_RESULT_CONFIRMATION")'
    BY <2>3, <2>4, <2>7, SavedStay DEF InFlight
  <2>9. ReportSoFar(u)'
    BY <2>3, <2>4, <2>5, <2>6, <2>7, <2>8 DEF ReportSoFar, InFlight
  <2>10. QED BY <2>4, <2>9
<1>4. CASE t.todo = <<"ask">>
  <2>1. run[h].todo # <<>> /\ Tail(run[h].todo) = <<>>
    BY <1>4
  <2>2. Ask(h) /\ Returns(h)
    BY <1>4, CallIs DEF Ask
  <2>3. Returned(h) /\ overdue' = overdue
    BY <2>1, <2>2, Finishes, Settling
  <2>4. /\ settled[4][t.c].status = "none"
        /\ report = ReportSaved(t, "PENDING_CONFIRMATION", None)
        /\ match = MatchSaved(t, "PENDING_RESULT_CONFIRMATION")
    BY <1>4 DEF ReportSoFar
  <2>5. /\ settled'[1] = settled[1] /\ settled'[3] = settled[3] /\ settled'[5] = settled[5]
        /\ settled'[6] = settled[6] /\ settled'[7] = settled[7] /\ settled'[8] = settled[8]
        /\ settled'[9] = settled[9] /\ settled'[10] = settled[10] /\ settled'[11] = settled[11]
    BY <2>2, <2>3, <1>a, <2>4, SettlesAt, MatchSavedIs
       DEF WrittenIn, Returned, Ask, rows, limits, score
  <2>6. /\ settled'[2] = WithStatus(settled[2], t.c, "PENDING_RESULT_CONFIRMATION")
        /\ settled'[4] = ReportSaved(t, "PENDING_CONFIRMATION", None)
    BY <2>2, <2>3, <1>a, <2>4, SettlesAt, MatchSavedIs
       DEF WrittenIn, Returned, Ask, rows, limits, score
  <2>7. settled'[2] = [settled[2] EXCEPT ![t.c].status = "PENDING_RESULT_CONFIRMATION"]
    BY <2>6 DEF WithStatus
  <2>8. Serial!ReportResult(t.c, t.p)
    BY <1>a, <2>3, <2>4, <2>5, <2>6, <2>7
       DEF Serial!ReportResult, ReportSaved, Serial!limits, Serial!jobs, Serial!score
  <2>9. QED BY <2>3, <2>8
<1>5. QED BY <1>1, <1>2, <1>3, <1>4 DEF ReportSoFar

LEMMA ConfirmSteps ==
    ASSUME HandlersTypeOK, NEW h, Handler = {h}, SettledOK, NEW t, t = run[h], NEW u,
           u = run'[h], ConfirmSoFar(t), Continue(h), t.c \in Challenge
    PROVE  \/ InFlight(h) /\ ConfirmSoFar(u)'
           \/ /\ Returned(h)
              /\ Serial!ConfirmResult(t.c, t.q)
<1> h \in Handler
  OBVIOUS
<1>a. /\ t.op = "confirm" /\ settled[4][t.c].status = "PENDING_CONFIRMATION"
      /\ t.q \in Player /\ t.p = settled[4][t.c].reporter /\ t.p # t.q
      /\ t.report = settled[4][t.c] /\ WrittenIn({2, 4})
  BY DEF ConfirmSoFar
<1>1. CASE t.todo = <<"readMatch", "saveReport", "saveMatch", "award">>
  <2>1. /\ run[h].todo # <<>> /\ Tail(run[h].todo) # <<>>
        /\ Tail(run[h].todo) = <<"saveReport", "saveMatch", "award">>
    BY <1>1
  <2>2. ReadMatch(h)
    BY <1>1, CallIs
  <2>3. /\ u.todo = <<"saveReport", "saveMatch", "award">> /\ u.op = t.op /\ u.c = t.c
        /\ u.p = t.p /\ u.q = t.q /\ u.report = t.report /\ u.match = match[t.c]
    BY <2>1, <2>2, MatchIsRead
  <2>4. InFlight(h)
    BY <2>1, <2>3, Settling
  <2>5. /\ WrittenIn({})
    BY <1>1 DEF ConfirmSoFar
  <2>6. WrittenIn({})' /\ WrittenIn({2, 4})'
    BY <2>2, <2>4, <2>5 DEF WrittenIn, InFlight, ReadMatch, rows, limits, score
  <2>7. u.match = settled[2][t.c]
    BY <2>3, <2>5, Unwritten
  <2>8. ConfirmSoFar(u)'
    BY <2>3, <2>4, <2>5, <2>6, <2>7 DEF ConfirmSoFar, InFlight
  <2>9. QED BY <2>4, <2>8
<1>2. CASE t.todo = <<"saveReport", "saveMatch", "award">>
  <2>1. /\ run[h].todo # <<>> /\ Tail(run[h].todo) # <<>>
        /\ Tail(run[h].todo) = <<"saveMatch", "award">>
    BY <1>2
  <2>2. SaveReport(h)
    BY <1>2, CallIs
  <2>3. SaveReport(h) /\ Returns(h)
    BY <2>2 DEF SaveReport
  <2>4. Calling(h, "saveReport") /\ ~Calling(h, "saveLoser")
    BY <1>2 DEF Calling
  <2>5. /\ u.todo = <<"saveMatch", "award">> /\ u.op = t.op /\ u.c = t.c /\ u.p = t.p
        /\ u.q = t.q /\ u.o = t.o /\ u.challenge = t.challenge /\ u.match = t.match
        /\ u.report = t.report
    BY <2>1, <2>3, Advances
  <2>6. InFlight(h)
    BY <2>1, <2>5, Settling
  <2>7. /\ WrittenIn({}) /\ t.match = settled[2][t.c]
    BY <1>2 DEF ConfirmSoFar
  <2>8. WrittenIn({4})' /\ WrittenIn({2, 4})'
    BY <2>3, <2>4, <2>6, <2>7 DEF WrittenIn, InFlight, SaveReport, rows, limits, score
  <2>9. report' = WithReport(report, t.c, t.report, "CONFIRMED", t.q)
    BY <1>a, <2>4, <2>3, NewStatusAre DEF SaveReport, WithReport
  <2>10. ReportSaved(t, "CONFIRMED", t.q) = WithReport(settled[4], t.c, t.report, "CONFIRMED",
            t.q)
    BY <1>a, ReportSavedIs
  <2>11. report' = ReportSaved(t, "CONFIRMED", t.q)
    BY <2>7, <2>9, <2>10, Unwritten
  <2>12. /\ report' = ReportSaved(u, "CONFIRMED", u.q)'
    BY <2>5, <2>6, <2>11, SavedStay DEF InFlight
  <2>13. ConfirmSoFar(u)'
    BY <2>5, <2>6, <2>7, <2>8, <2>11, <2>12 DEF ConfirmSoFar, InFlight
  <2>14. QED BY <2>6, <2>13
<1>3. CASE t.todo = <<"saveMatch", "award">>
  <2>1. /\ run[h].todo # <<>> /\ Tail(run[h].todo) # <<>>
        /\ Tail(run[h].todo) = <<"award">>
    BY <1>3
  <2>2. SaveMatch(h) /\ Returns(h)
    BY <1>3, CallIs DEF SaveMatch
  <2>3. /\ u.todo = <<"award">> /\ u.op = t.op /\ u.c = t.c /\ u.p = t.p /\ u.q = t.q
        /\ u.o = t.o /\ u.challenge = t.challenge /\ u.match = t.match /\ u.report = t.report
    BY <2>1, <2>2, Advances
  <2>4. InFlight(h)
    BY <2>1, <2>3, Settling
  <2>5. /\ WrittenIn({4}) /\ t.match = settled[2][t.c]
        /\ report = ReportSaved(t, "CONFIRMED", t.q)
    BY <1>3 DEF ConfirmSoFar
  <2>6. WrittenIn({2, 4})'
    BY <2>2, <2>4, <2>5 DEF WrittenIn, InFlight, SaveMatch, rows, limits, score
  <2>7. /\ report' = ReportSaved(t, "CONFIRMED", t.q)
        /\ match' = MatchSaved(t, "CLOSED")
    <3>1. report' = report /\ match = settled[2]
      BY <2>2, <2>5 DEF SaveMatch, WrittenIn
    <3>2. match' = MatchSaved(t, "CLOSED")
      BY <1>a, <2>2, <2>5, <3>1, NewStatusAre DEF SaveMatch, MatchSaved
    <3>3. QED BY <2>5, <3>1, <3>2
  <2>8. /\ report' = ReportSaved(u, "CONFIRMED", u.q)'
        /\ match' = MatchSaved(u, "CLOSED")'
    BY <2>3, <2>4, <2>7, SavedStay DEF InFlight
  <2>9. ConfirmSoFar(u)'
    BY <2>3, <2>4, <2>5, <2>6, <2>7, <2>8 DEF ConfirmSoFar, InFlight
  <2>10. QED BY <2>4, <2>9
<1>4. CASE t.todo = <<"award">>
  <2>1. run[h].todo # <<>> /\ Tail(run[h].todo) = <<>>
    BY <1>4
  <2>2. Award(h) /\ Returns(h)
    BY <1>4, CallIs DEF Award
  <2>3. Returned(h) /\ overdue' = overdue
    BY <2>1, <2>2, Finishes, Settling
  <2>4. /\ report = ReportSaved(t, "CONFIRMED", t.q)
        /\ match = MatchSaved(t, "CLOSED")
    BY <1>4 DEF ConfirmSoFar
  <2>5. /\ settled'[1] = settled[1] /\ settled'[3] = settled[3] /\ settled'[5] = settled[5]
        /\ settled'[7] = settled[7] /\ settled'[8] = settled[8] /\ settled'[9] = settled[9]
        /\ settled'[10] = settled[10]
    BY <2>2, <2>3, <2>4, <1>a, SettlesAt
       DEF WrittenIn, Returned, Award, rows, limits, score
  <2>6. /\ settled'[2] = WithStatus(settled[2], t.c, "CLOSED")
        /\ settled'[4] = WithVerdict(settled[4], t.c, "CONFIRMED", t.q)
    BY <2>2, <2>3, <2>4, <1>a, MatchSavedIs, ReportSavedIs, SettlesAt
       DEF WrittenIn, Returned, Award, rows, limits, score
  <2>7. /\ settled'[2] = [settled[2] EXCEPT ![t.c].status = "CLOSED"]
        /\ settled'[4] = [settled[4] EXCEPT ![t.c].status = "CONFIRMED", ![t.c].confirmer = t.q]
    BY <2>6 DEF WithStatus, WithVerdict
  <2>8. /\ points = settled[6] /\ awards = settled[11] /\ challenge = settled[1]
    BY <1>a DEF WrittenIn
  <2>9. Serial!AwardPoints(t.c, t.p, t.q)
    BY <2>2, <2>3, <2>8, SettlesAt
       DEF Award, AwardPoints, Serial!AwardPoints, WinnerPoints, Serial!WinnerPoints,
           LoserPoints, Serial!LoserPoints, Returned
  <2>10. Serial!ConfirmResult(t.c, t.q)
    BY <1>a, <2>3, <2>5, <2>7, <2>9
       DEF Serial!ConfirmResult, Serial!limits, Serial!jobs
  <2>11. QED BY <2>3, <2>10
<1>5. QED BY <1>1, <1>2, <1>3, <1>4 DEF ConfirmSoFar

LEMMA RefuseSteps ==
    ASSUME HandlersTypeOK, NEW h, Handler = {h}, SettledOK, NEW t, t = run[h], NEW u,
           u = run'[h], RefuseSoFar(t), Continue(h), t.c \in Challenge
    PROVE  \/ InFlight(h) /\ RefuseSoFar(u)'
           \/ /\ Returned(h)
              /\ Serial!RejectResult(t.c, t.q)
<1> h \in Handler
  OBVIOUS
<1>a. /\ t.op = "refuse" /\ settled[4][t.c].status = "PENDING_CONFIRMATION"
      /\ t.q \in Player /\ t.p = settled[4][t.c].reporter /\ t.p # t.q
      /\ t.report = settled[4][t.c] /\ WrittenIn({2, 4})
  BY DEF RefuseSoFar
<1>1. CASE t.todo = <<"readMatch", "saveReport", "saveMatch", "insertDispute">>
  <2>1. /\ run[h].todo # <<>> /\ Tail(run[h].todo) # <<>>
        /\ Tail(run[h].todo) = <<"saveReport", "saveMatch", "insertDispute">>
    BY <1>1
  <2>2. ReadMatch(h)
    BY <1>1, CallIs
  <2>3. /\ u.todo = <<"saveReport", "saveMatch", "insertDispute">> /\ u.op = t.op /\ u.c = t.c
        /\ u.p = t.p /\ u.q = t.q /\ u.report = t.report /\ u.match = match[t.c]
    BY <2>1, <2>2, MatchIsRead
  <2>4. InFlight(h)
    BY <2>1, <2>3, Settling
  <2>5. /\ WrittenIn({})
    BY <1>1 DEF RefuseSoFar
  <2>6. WrittenIn({})' /\ WrittenIn({2, 4})'
    BY <2>2, <2>4, <2>5 DEF WrittenIn, InFlight, ReadMatch, rows, limits, score
  <2>7. u.match = settled[2][t.c]
    BY <2>3, <2>5, Unwritten
  <2>8. RefuseSoFar(u)'
    BY <2>3, <2>4, <2>5, <2>6, <2>7 DEF RefuseSoFar, InFlight
  <2>9. QED BY <2>4, <2>8
<1>2. CASE t.todo = <<"saveReport", "saveMatch", "insertDispute">>
  <2>1. /\ run[h].todo # <<>> /\ Tail(run[h].todo) # <<>>
        /\ Tail(run[h].todo) = <<"saveMatch", "insertDispute">>
    BY <1>2
  <2>2. SaveReport(h)
    BY <1>2, CallIs
  <2>3. SaveReport(h) /\ Returns(h)
    BY <2>2 DEF SaveReport
  <2>4. Calling(h, "saveReport") /\ ~Calling(h, "saveLoser")
    BY <1>2 DEF Calling
  <2>5. /\ u.todo = <<"saveMatch", "insertDispute">> /\ u.op = t.op /\ u.c = t.c /\ u.p = t.p
        /\ u.q = t.q /\ u.o = t.o /\ u.challenge = t.challenge /\ u.match = t.match
        /\ u.report = t.report
    BY <2>1, <2>3, Advances
  <2>6. InFlight(h)
    BY <2>1, <2>5, Settling
  <2>7. /\ WrittenIn({}) /\ t.match = settled[2][t.c]
    BY <1>2 DEF RefuseSoFar
  <2>8. WrittenIn({4})' /\ WrittenIn({2, 4})'
    BY <2>3, <2>4, <2>6, <2>7 DEF WrittenIn, InFlight, SaveReport, rows, limits, score
  <2>9. report' = WithReport(report, t.c, t.report, "REJECTED", settled[4][t.c].confirmer)
    <3>1. PICK x : x = [t.report EXCEPT !.status = "REJECTED"]
      OBVIOUS
    <3>2. x.confirmer = settled[4][t.c].confirmer
      <4>1. PICK r \in ReportRow : r = t.report
        BY <1>a DEF SettledOK
      <4>2. QED BY <1>a, <3>1, <4>1 DEF ReportRow
    <3>3. report' = [report EXCEPT ![t.c] = [x EXCEPT !.confirmer = x.confirmer]]
      BY <1>a, <2>4, <2>3, <3>1, NewStatusAre DEF SaveReport
    <3>4. QED BY <3>1, <3>2, <3>3 DEF WithReport
  <2>10. ReportSaved(t, "REJECTED", settled[4][t.c].confirmer) = WithReport(settled[4], t.c,
            t.report, "REJECTED", settled[4][t.c].confirmer)
    BY <1>a, ReportSavedIs
  <2>11. report' = ReportSaved(t, "REJECTED", settled[4][t.c].confirmer)
    BY <2>7, <2>9, <2>10, Unwritten
  <2>12. /\ report' = ReportSaved(u, "REJECTED", settled[4][u.c].confirmer)'
    BY <2>5, <2>6, <2>11, SavedStay DEF InFlight
  <2>13. RefuseSoFar(u)'
    BY <2>5, <2>6, <2>7, <2>8, <2>11, <2>12 DEF RefuseSoFar, InFlight
  <2>14. QED BY <2>6, <2>13
<1>3. CASE t.todo = <<"saveMatch", "insertDispute">>
  <2>1. /\ run[h].todo # <<>> /\ Tail(run[h].todo) # <<>>
        /\ Tail(run[h].todo) = <<"insertDispute">>
    BY <1>3
  <2>2. SaveMatch(h) /\ Returns(h)
    BY <1>3, CallIs DEF SaveMatch
  <2>3. /\ u.todo = <<"insertDispute">> /\ u.op = t.op /\ u.c = t.c /\ u.p = t.p /\ u.q = t.q
        /\ u.o = t.o /\ u.challenge = t.challenge /\ u.match = t.match /\ u.report = t.report
    BY <2>1, <2>2, Advances
  <2>4. InFlight(h)
    BY <2>1, <2>3, Settling
  <2>5. /\ WrittenIn({4}) /\ t.match = settled[2][t.c]
        /\ report = ReportSaved(t, "REJECTED", settled[4][t.c].confirmer)
    BY <1>3 DEF RefuseSoFar
  <2>6. WrittenIn({2, 4})'
    BY <2>2, <2>4, <2>5 DEF WrittenIn, InFlight, SaveMatch, rows, limits, score
  <2>7. /\ report' = ReportSaved(t, "REJECTED", settled[4][t.c].confirmer)
        /\ match' = MatchSaved(t, "DISPUTED")
    <3>1. report' = report /\ match = settled[2]
      BY <2>2, <2>5 DEF SaveMatch, WrittenIn
    <3>2. match' = MatchSaved(t, "DISPUTED")
      BY <1>a, <2>2, <2>5, <3>1, NewStatusAre DEF SaveMatch, MatchSaved
    <3>3. QED BY <2>5, <3>1, <3>2
  <2>8. /\ report' = ReportSaved(u, "REJECTED", settled[4][u.c].confirmer)'
        /\ match' = MatchSaved(u, "DISPUTED")'
    BY <2>3, <2>4, <2>7, SavedStay DEF InFlight
  <2>9. RefuseSoFar(u)'
    BY <2>3, <2>4, <2>5, <2>6, <2>7, <2>8 DEF RefuseSoFar, InFlight
  <2>10. QED BY <2>4, <2>9
<1>4. CASE t.todo = <<"insertDispute">>
  <2>1. run[h].todo # <<>> /\ Tail(run[h].todo) = <<>>
    BY <1>4
  <2>2. Calling(h, "insertDispute") /\ ~Calling(h, "saveDispute")
    BY <1>4 DEF Calling
  <2>3. dispute = settled[5] /\ dispute[t.c] = "none"
    BY <1>a DEF WrittenIn, SettledOK
  <2>4. WriteDispute(h) /\ Returns(h) /\ dispute' = [settled[5] EXCEPT ![t.c] = "OPEN"]
    BY <1>4, <2>2, <2>3, CallIs DEF WriteDispute
  <2>5. Returned(h) /\ overdue' = overdue
    BY <2>1, <2>4, Finishes, Settling
  <2>6. /\ report = ReportSaved(t, "REJECTED", settled[4][t.c].confirmer)
        /\ match = MatchSaved(t, "DISPUTED")
    BY <1>4 DEF RefuseSoFar
  <2>7. /\ settled'[1] = settled[1] /\ settled'[3] = settled[3] /\ settled'[6] = settled[6]
        /\ settled'[7] = settled[7] /\ settled'[8] = settled[8] /\ settled'[9] = settled[9]
        /\ settled'[10] = settled[10] /\ settled'[11] = settled[11]
    BY <2>4, <2>5, <2>6, <1>a, SettlesAt
       DEF WrittenIn, Returned, WriteDispute, rows, limits, score
  <2>8. /\ settled'[2] = WithStatus(settled[2], t.c, "DISPUTED")
        /\ settled'[4] = WithStatus(settled[4], t.c, "REJECTED")
        /\ settled'[5] = [settled[5] EXCEPT ![t.c] = "OPEN"]
    BY <2>4, <2>5, <2>6, <1>a, MatchSavedIs, ReportSavedIs, SettlesAt
       DEF WrittenIn, Returned, WriteDispute, rows, limits, score
  <2>9. /\ settled'[2] = [settled[2] EXCEPT ![t.c].status = "DISPUTED"]
        /\ settled'[4] = [settled[4] EXCEPT ![t.c].status = "REJECTED"]
    BY <2>8 DEF WithStatus
  <2>10. Serial!RejectResult(t.c, t.q)
    BY <1>a, <2>5, <2>7, <2>8, <2>9
       DEF Serial!RejectResult, Serial!limits, Serial!jobs, Serial!score
  <2>11. QED BY <2>5, <2>10
<1>5. QED BY <1>1, <1>2, <1>3, <1>4 DEF RefuseSoFar

LEMMA CourtSteps ==
    ASSUME HandlersTypeOK, NEW h, Handler = {h}, SettledOK, NEW t, t = run[h], NEW u,
           u = run'[h], CourtSoFar(t), Continue(h), t.c \in Challenge
    PROVE  \/ InFlight(h) /\ CourtSoFar(u)'
           \/ /\ Returned(h)
              /\ Serial!ConfirmCourt(t.c) \/ Serial!CancelMatch(t.c)
<1> h \in Handler
  OBVIOUS
<1>a. /\ t.todo = <<"saveMatch">> /\ t.op \in Admin \cap {"cancha", "cancelar"}
      /\ settled[2][t.c].status # "none" /\ t.match = settled[2][t.c] /\ WrittenIn({})
  BY DEF CourtSoFar
<1>1. run[h].todo # <<>> /\ Tail(run[h].todo) = <<>>
  BY <1>a
<1>2. SaveMatch(h) /\ Returns(h)
  BY <1>a, CallIs DEF SaveMatch
<1>3. Returned(h) /\ overdue' = overdue
  BY <1>1, <1>2, Finishes, Settling
<1>4. /\ settled'[1] = settled[1] /\ settled'[3] = settled[3] /\ settled'[4] = settled[4]
      /\ settled'[5] = settled[5] /\ settled'[6] = settled[6] /\ settled'[7] = settled[7]
      /\ settled'[8] = settled[8] /\ settled'[9] = settled[9] /\ settled'[10] = settled[10]
      /\ settled'[11] = settled[11]
  BY <1>a, <1>2, <1>3, SettlesAt DEF WrittenIn, Returned, SaveMatch, rows, limits, score
<1>5. settled'[2] = MatchSaved(t, NewMatchStatus[t.op])
  <2>1. match = settled[2] /\ settled'[2] = match'
    BY <1>a, <1>3, SettlesAt DEF WrittenIn, Returned
  <2>2. match' = [match EXCEPT ![t.c] = [status |-> NewMatchStatus[t.op],
                                         selected |-> t.match.selected]]
    BY <1>a, <1>2 DEF SaveMatch
  <2>3. QED BY <1>a, <2>1, <2>2 DEF MatchSaved
<1>6. settled'[2] = WithStatus(settled[2], t.c, NewMatchStatus[t.op])
  BY <1>5, MatchSavedIs
<1>7. settled'[2] = [settled[2] EXCEPT ![t.c].status = NewMatchStatus[t.op]]
  BY <1>6 DEF WithStatus
<1>8. CASE t.op = "cancha"
  <2>1. Serial!ConfirmCourt(t.c)
    BY <1>8, <1>a, <1>3, <1>4, <1>7, NewStatusAre
       DEF Serial!ConfirmCourt, Serial!limits, Serial!jobs, Serial!score
  <2>2. QED BY <1>3, <2>1
<1>9. CASE t.op = "cancelar"
  <2>1. Serial!CancelMatch(t.c)
    BY <1>9, <1>a, <1>3, <1>4, <1>7, NewStatusAre
       DEF Serial!CancelMatch, Serial!limits, Serial!jobs, Serial!score
  <2>2. QED BY <1>3, <2>1
<1>10. QED BY <1>a, <1>8, <1>9

LEMMA WalkoverSteps ==
    ASSUME HandlersTypeOK, NEW h, Handler = {h}, SettledOK, NEW t, t = run[h], NEW u,
           u = run'[h], WalkoverSoFar(t), Continue(h), t.c \in Challenge
    PROVE  \/ InFlight(h) /\ WalkoverSoFar(u)'
           \/ /\ Returned(h)
              /\ Serial!ApplyWalkover(t.c, t.p)
<1> h \in Handler
  OBVIOUS
<1>a. /\ t.op = "walkover" /\ "walkover" \in Admin /\ settled[2][t.c].status # "none"
      /\ settled[11][t.c] < MaxAwards /\ t.q = Opponent(t.c, t.p)
      /\ t.match = settled[2][t.c] /\ WrittenIn({6, 11})
  BY DEF WalkoverSoFar
<1>1. CASE t.todo = <<"award", "saveMatch">>
  <2>1. /\ run[h].todo # <<>> /\ Tail(run[h].todo) # <<>>
        /\ Tail(run[h].todo) = <<"saveMatch">>
    BY <1>1
  <2>2. Award(h) /\ Returns(h)
    BY <1>1, CallIs DEF Award
  <2>3. /\ u.todo = <<"saveMatch">> /\ u.op = t.op /\ u.c = t.c /\ u.p = t.p /\ u.q = t.q
        /\ u.o = t.o /\ u.challenge = t.challenge /\ u.match = t.match /\ u.report = t.report
    BY <2>1, <2>2, Advances
  <2>4. InFlight(h)
    BY <2>1, <2>3, Settling
  <2>5. /\ WrittenIn({})
    BY <1>1 DEF WalkoverSoFar
  <2>6. WrittenIn({6, 11})'
    BY <2>2, <2>4, <2>5 DEF WrittenIn, InFlight, Award, rows, limits, score
  <2>7. Awarded(u)'
    <3>1. points = settled[6] /\ awards = settled[11] /\ challenge = settled[1]
      BY <2>5 DEF WrittenIn
    <3>2. AwardPoints(t.c, t.p, t.q)
      BY <2>2 DEF Award
    <3>3. QED BY <2>3, <2>4, <3>1, <3>2
              DEF AwardPoints, Awarded, InFlight, WinnerPoints, LoserPoints
  <2>8. Opponent(u.c, u.p)' = Opponent(t.c, t.p)
    BY <2>2, <2>3 DEF Award, Opponent, rows
  <2>9. WalkoverSoFar(u)'
    BY <2>3, <2>4, <2>5, <2>6, <2>7, <2>8 DEF WalkoverSoFar, InFlight
  <2>10. QED BY <2>4, <2>9
<1>2. CASE t.todo = <<"saveMatch">>
  <2>1. run[h].todo # <<>> /\ Tail(run[h].todo) = <<>>
    BY <1>2
  <2>2. SaveMatch(h) /\ Returns(h)
    BY <1>2, CallIs DEF SaveMatch
  <2>3. Returned(h) /\ overdue' = overdue
    BY <2>1, <2>2, Finishes, Settling
  <2>4. /\ Awarded(t)
    BY <1>2 DEF WalkoverSoFar
  <2>5. /\ settled'[1] = settled[1] /\ settled'[3] = settled[3] /\ settled'[4] = settled[4]
        /\ settled'[5] = settled[5] /\ settled'[7] = settled[7] /\ settled'[8] = settled[8]
        /\ settled'[9] = settled[9] /\ settled'[10] = settled[10]
    BY <2>2, <2>3, <2>4, <1>a, SettlesAt
       DEF WrittenIn, Returned, SaveMatch, rows, limits, score
  <2>6. settled'[2] = WithStatus(settled[2], t.c, "CLOSED")
    <3>1. match = settled[2] /\ settled'[2] = match'
      BY <1>a, <2>3, SettlesAt DEF WrittenIn, Returned
    <3>2. match' = MatchSaved(t, "CLOSED")
      BY <1>a, <2>2, <3>1, NewStatusAre DEF SaveMatch, MatchSaved
    <3>3. QED BY <3>1, <3>2, MatchSavedIs
  <2>7. settled'[2] = [settled[2] EXCEPT ![t.c].status = "CLOSED"]
    BY <2>6 DEF WithStatus
  <2>8. points' = points /\ awards' = awards /\ challenge = settled[1]
    BY <1>a, <2>2 DEF WrittenIn, SaveMatch, score
  <2>9. Serial!AwardPoints(t.c, t.p, t.q)
    BY <2>3, <2>4, <2>8, SettlesAt
       DEF Awarded, Serial!AwardPoints, WinnerPoints, Serial!WinnerPoints,
           LoserPoints, Serial!LoserPoints, Returned
  <2>10. t.q = Serial!Opponent(t.c, t.p)
    BY <1>a, <2>8 DEF Opponent, Serial!Opponent
  <2>11. Serial!ApplyWalkover(t.c, t.p)
    BY <1>a, <2>3, <2>5, <2>7, <2>9, <2>10
       DEF Serial!ApplyWalkover, Serial!limits, Serial!jobs
  <2>12. QED BY <2>3, <2>11
<1>3. QED BY <1>1, <1>2 DEF WalkoverSoFar

LEMMA DisputaSteps ==
    ASSUME HandlersTypeOK, NEW h, Handler = {h}, SettledOK, NEW t, t = run[h], NEW u,
           u = run'[h], DisputaSoFar(t), Continue(h), t.c \in Challenge
    PROVE  \/ InFlight(h) /\ DisputaSoFar(u)'
           \/ /\ Returned(h)
              /\ Serial!ResolveDispute(t.c)
<1> h \in Handler
  OBVIOUS
<1>a. /\ t.op = "disputa" /\ "disputa" \in Admin /\ settled[4][t.c].status # "none"
      /\ settled[11][t.c] < MaxAwards /\ t.p = settled[4][t.c].reporter
      /\ t.q = Opponent(t.c, t.p) /\ t.report = settled[4][t.c] /\ WrittenIn({2, 4, 5})
  BY DEF DisputaSoFar
<1>b. PICK e : e = settled[4][t.c].confirmer
  OBVIOUS
<1>1. CASE t.todo = <<"saveReport", "readMatch", "saveMatch", "saveDispute", "saveLoser",
         "award">>
  <2>1. /\ run[h].todo # <<>> /\ Tail(run[h].todo) # <<>>
        /\ Tail(run[h].todo) = <<"readMatch", "saveMatch", "saveDispute", "saveLoser", "award">>
    BY <1>1
  <2>2. SaveReport(h)
    BY <1>1, CallIs
  <2>3. SaveReport(h) /\ Returns(h)
    BY <2>2 DEF SaveReport
  <2>4. WrittenIn({})
    BY <1>1 DEF DisputaSoFar
  <2>5. Calling(h, "saveReport") /\ ~Calling(h, "saveLoser")
    BY <1>1 DEF Calling
  <2>6. /\ u.todo = <<"readMatch", "saveMatch", "saveDispute", "saveLoser", "award">>
        /\ u.op = t.op /\ u.c = t.c /\ u.p = t.p /\ u.q = t.q /\ u.o = t.o
        /\ u.challenge = t.challenge /\ u.match = t.match /\ u.report = t.report
    BY <2>1, <2>3, Advances
  <2>7. InFlight(h)
    BY <2>1, <2>6, Settling
  <2>8. WrittenIn({4})' /\ WrittenIn({2, 4, 5})'
    BY <2>3, <2>5, <2>7, <2>4 DEF WrittenIn, InFlight, SaveReport, rows, limits, score
  <2>9. /\ report' = ReportSaved(t, "CONFIRMED", e)
    <3>1. PICK x : x = [t.report EXCEPT !.status = "CONFIRMED"]
      OBVIOUS
    <3>2. x.confirmer = e
      <4>1. PICK r \in ReportRow : r = t.report
        BY <1>a DEF SettledOK
      <4>2. QED BY <1>a, <1>b, <3>1, <4>1 DEF ReportRow
    <3>3. report' = [report EXCEPT ![t.c] = [x EXCEPT !.confirmer = x.confirmer]]
      BY <1>a, <2>5, <2>3, <3>1, NewStatusAre DEF SaveReport
    <3>4. report' = WithReport(report, t.c, t.report, "CONFIRMED", e)
      BY <3>1, <3>2, <3>3 DEF WithReport
    <3>5. ReportSaved(t, "CONFIRMED", e) = WithReport(settled[4], t.c, t.report, "CONFIRMED", e)
      BY <1>a, ReportSavedIs
    <3>6. QED BY <2>4, <3>4, <3>5, Unwritten
  <2>10. /\ report' = ReportSaved(u, "CONFIRMED", e)'
    BY <2>6, <2>7, <2>9, SavedStay DEF InFlight
  <2>11. Opponent(u.c, u.p)' = Opponent(t.c, t.p)
    BY <2>3, <2>6 DEF SaveReport, Opponent, rows
  <2>12. DisputaSoFar(u)'
    BY <1>a, <1>b, <2>11, <2>6, <2>7, <2>4, <2>8, <2>9, <2>10 DEF DisputaSoFar, InFlight
  <2>13. QED BY <2>7, <2>12
<1>2. CASE t.todo = <<"readMatch", "saveMatch", "saveDispute", "saveLoser", "award">>
  <2>1. /\ run[h].todo # <<>> /\ Tail(run[h].todo) # <<>>
        /\ Tail(run[h].todo) = <<"saveMatch", "saveDispute", "saveLoser", "award">>
    BY <1>2
  <2>2. ReadMatch(h)
    BY <1>2, CallIs
  <2>3. /\ u.todo = <<"saveMatch", "saveDispute", "saveLoser", "award">> /\ u.op = t.op
        /\ u.c = t.c /\ u.p = t.p /\ u.q = t.q /\ u.report = t.report /\ u.match = match[t.c]
    BY <2>1, <2>2, MatchIsRead
  <2>4. InFlight(h)
    BY <2>1, <2>3, Settling
  <2>5. /\ WrittenIn({4})
        /\ report = ReportSaved(t, "CONFIRMED", e)
    BY <1>2, <1>b DEF DisputaSoFar
  <2>6. WrittenIn({4})' /\ WrittenIn({2, 4, 5})'
    BY <2>2, <2>4, <2>5 DEF WrittenIn, InFlight, ReadMatch, rows, limits, score
  <2>7. /\ report' = ReportSaved(t, "CONFIRMED", e)
    BY <2>2, <2>5 DEF ReadMatch, rows
  <2>8. /\ report' = ReportSaved(u, "CONFIRMED", e)'
    BY <2>3, <2>4, <2>7, SavedStay DEF InFlight
  <2>9. u.match = settled[2][t.c]
    <3>1. match = settled[2]
      BY <2>5 DEF WrittenIn
    <3>2. QED BY <2>3, <3>1
  <2>10. Opponent(u.c, u.p)' = Opponent(t.c, t.p)
    BY <2>2, <2>3 DEF ReadMatch, Opponent, rows
  <2>11. DisputaSoFar(u)'
    BY <1>a, <1>b, <2>10, <2>9, <2>3, <2>4, <2>5, <2>6, <2>7, <2>8 DEF DisputaSoFar, InFlight
  <2>12. QED BY <2>4, <2>11
<1>3. CASE t.todo = <<"saveMatch", "saveDispute", "saveLoser", "award">>
  <2>1. /\ run[h].todo # <<>> /\ Tail(run[h].todo) # <<>>
        /\ Tail(run[h].todo) = <<"saveDispute", "saveLoser", "award">>
    BY <1>3
  <2>2. SaveMatch(h) /\ Returns(h)
    BY <1>3, CallIs DEF SaveMatch
  <2>3. /\ u.todo = <<"saveDispute", "saveLoser", "award">> /\ u.op = t.op /\ u.c = t.c
        /\ u.p = t.p /\ u.q = t.q /\ u.o = t.o /\ u.challenge = t.challenge
        /\ u.match = t.match /\ u.report = t.report
    BY <2>1, <2>2, Advances
  <2>4. InFlight(h)
    BY <2>1, <2>3, Settling
  <2>5. /\ WrittenIn({4}) /\ t.match = settled[2][t.c]
        /\ report = ReportSaved(t, "CONFIRMED", e)
    BY <1>3, <1>b DEF DisputaSoFar
  <2>6. WrittenIn({2, 4})' /\ WrittenIn({2, 4, 5})'
    BY <2>2, <2>4, <2>5 DEF WrittenIn, InFlight, SaveMatch, rows, limits, score
  <2>7. /\ report' = ReportSaved(t, "CONFIRMED", e)
        /\ match' = MatchSaved(t, "CLOSED")
    <3>1. report' = report /\ match = settled[2]
      BY <2>2, <2>5 DEF SaveMatch, WrittenIn
    <3>2. match' = MatchSaved(t, "CLOSED")
      BY <1>a, <2>2, <2>5, <3>1, NewStatusAre DEF SaveMatch, MatchSaved
    <3>3. QED BY <2>5, <3>1, <3>2
  <2>8. /\ report' = ReportSaved(u, "CONFIRMED", e)'
        /\ match' = MatchSaved(u, "CLOSED")'
    BY <2>3, <2>4, <2>7, SavedStay DEF InFlight
  <2>9. Opponent(u.c, u.p)' = Opponent(t.c, t.p)
    BY <2>2, <2>3 DEF SaveMatch, Opponent, rows
  <2>10. DisputaSoFar(u)'
    BY <1>a, <1>b, <2>9, <2>3, <2>4, <2>5, <2>6, <2>7, <2>8 DEF DisputaSoFar, InFlight
  <2>11. QED BY <2>4, <2>10
<1>4. CASE t.todo = <<"saveDispute", "saveLoser", "award">>
  <2>1. /\ run[h].todo # <<>> /\ Tail(run[h].todo) # <<>>
        /\ Tail(run[h].todo) = <<"saveLoser", "award">>
    BY <1>4
  <2>2. Calling(h, "saveDispute") /\ ~Calling(h, "insertDispute")
    BY <1>4 DEF Calling
  <2>3. WriteDispute(h)
    BY <1>4, CallIs
  <2>4. WriteDispute(h) /\ Returns(h)
    BY <2>2, <2>3 DEF WriteDispute
  <2>5. /\ WrittenIn({2, 4})
        /\ report = ReportSaved(t, "CONFIRMED", e) /\ match = MatchSaved(t, "CLOSED")
    BY <1>4, <1>b DEF DisputaSoFar
  <2>6. /\ u.todo = <<"saveLoser", "award">> /\ u.op = t.op /\ u.c = t.c /\ u.p = t.p
        /\ u.q = t.q /\ u.o = t.o /\ u.challenge = t.challenge /\ u.match = t.match
        /\ u.report = t.report
    BY <2>1, <2>4, Advances
  <2>7. InFlight(h)
    BY <2>1, <2>6, Settling
  <2>8. WrittenIn({2, 4, 5})'
    BY <2>4, <2>2, <2>7, <2>5 DEF WrittenIn, InFlight, WriteDispute, rows, limits, score
  <2>9. /\ report' = ReportSaved(t, "CONFIRMED", e)
        /\ match' = MatchSaved(t, "CLOSED")
        /\ dispute' = DisputeSaved(t)
    <3>1. report' = report /\ match' = match /\ dispute = settled[5]
      BY <2>4, <2>5 DEF WriteDispute, WrittenIn
    <3>2. dispute' = DisputeSaved(t)
      BY <2>2, <2>3, <3>1 DEF WriteDispute, DisputeSaved
    <3>3. QED BY <2>5, <3>1, <3>2
  <2>10. /\ report' = ReportSaved(u, "CONFIRMED", e)'
        /\ match' = MatchSaved(u, "CLOSED")'
        /\ dispute' = DisputeSaved(u)'
    BY <2>6, <2>7, <2>9, SavedStay DEF InFlight
  <2>11. Opponent(u.c, u.p)' = Opponent(t.c, t.p)
    BY <2>4, <2>6 DEF WriteDispute, Opponent, rows
  <2>12. DisputaSoFar(u)'
    BY <1>a, <1>b, <2>11, <2>6, <2>7, <2>5, <2>8, <2>9, <2>10 DEF DisputaSoFar, InFlight
  <2>13. QED BY <2>7, <2>12
<1>5. CASE t.todo = <<"saveLoser", "award">>
  <2>1. /\ run[h].todo # <<>> /\ Tail(run[h].todo) # <<>>
        /\ Tail(run[h].todo) = <<"award">>
    BY <1>5
  <2>2. SaveReport(h)
    BY <1>5, CallIs
  <2>3. SaveReport(h) /\ Returns(h)
    BY <2>2 DEF SaveReport
  <2>4. /\ WrittenIn({2, 4, 5}) /\ report = ReportSaved(t, "CONFIRMED", e)
        /\ match = MatchSaved(t, "CLOSED") /\ dispute = DisputeSaved(t)
    BY <1>5, <1>a, <1>b DEF DisputaSoFar
  <2>5. Calling(h, "saveLoser") /\ ~Calling(h, "saveReport")
    BY <1>5 DEF Calling
  <2>6. /\ u.todo = <<"award">> /\ u.op = t.op /\ u.c = t.c /\ u.p = t.p /\ u.q = t.q
        /\ u.o = t.o /\ u.challenge = t.challenge /\ u.match = t.match /\ u.report = t.report
    BY <2>1, <2>3, Advances
  <2>7. InFlight(h)
    BY <2>1, <2>6, Settling
  <2>8. WrittenIn({2, 4, 5})'
    BY <2>3, <2>5, <2>7, <2>4 DEF WrittenIn, InFlight, SaveReport, rows, limits, score
  <2>9. /\ report' = ReportSaved(t, "CONFIRMED", t.q)
        /\ match' = MatchSaved(t, "CLOSED")
        /\ dispute' = DisputeSaved(t)
    <3>1. match' = match /\ dispute' = dispute
      BY <2>3 DEF SaveReport
    <3>2. report' = WithReport(report, t.c, t.report, "CONFIRMED", t.q)
      BY <1>a, <2>5, <2>3, NewStatusAre DEF SaveReport, WithReport
    <3>3. WithReport(report, t.c, t.report, "CONFIRMED", t.q)
             = WithReport(settled[4], t.c, t.report, "CONFIRMED", t.q)
      BY <2>4 DEF ReportSaved, WithReport
    <3>4. ReportSaved(t, "CONFIRMED", t.q)
             = WithReport(settled[4], t.c, t.report, "CONFIRMED", t.q)
      BY <1>a, ReportSavedIs
    <3>5. QED BY <2>4, <3>1, <3>2, <3>3, <3>4
  <2>10. /\ report' = ReportSaved(u, "CONFIRMED", t.q)'
        /\ match' = MatchSaved(u, "CLOSED")'
        /\ dispute' = DisputeSaved(u)'
    BY <2>6, <2>7, <2>9, SavedStay DEF InFlight
  <2>11. Opponent(u.c, u.p)' = Opponent(t.c, t.p)
    BY <2>3, <2>6 DEF SaveReport, Opponent, rows
  <2>12. DisputaSoFar(u)'
    BY <1>a, <1>b, <2>11, <2>6, <2>7, <2>4, <2>8, <2>9, <2>10 DEF DisputaSoFar, InFlight
  <2>13. QED BY <2>7, <2>12
<1>6. CASE t.todo = <<"award">>
  <2>1. run[h].todo # <<>> /\ Tail(run[h].todo) = <<>>
    BY <1>6
  <2>2. Award(h) /\ Returns(h)
    BY <1>6, CallIs DEF Award
  <2>3. Returned(h) /\ overdue' = overdue
    BY <2>1, <2>2, Finishes, Settling
  <2>4. /\ report = ReportSaved(t, "CONFIRMED", t.q)
        /\ match = MatchSaved(t, "CLOSED")
        /\ dispute = DisputeSaved(t)
    BY <1>6 DEF DisputaSoFar
  <2>5. /\ settled'[1] = settled[1] /\ settled'[3] = settled[3] /\ settled'[7] = settled[7]
        /\ settled'[8] = settled[8] /\ settled'[9] = settled[9] /\ settled'[10] = settled[10]
    BY <2>2, <2>3, <2>4, <1>a, SettlesAt
       DEF WrittenIn, Returned, Award, rows, limits, score
  <2>6. /\ settled'[2] = WithStatus(settled[2], t.c, "CLOSED")
        /\ settled'[4] = WithVerdict(settled[4], t.c, "CONFIRMED", t.q)
        /\ settled'[5] = DisputeSaved(t)
    BY <2>2, <2>3, <2>4, <1>a, MatchSavedIs, ReportSavedIs, SettlesAt
       DEF WrittenIn, Returned, Award, rows, limits, score
  <2>7. /\ settled'[2] = [settled[2] EXCEPT ![t.c].status = "CLOSED"]
        /\ settled'[4] = [settled[4] EXCEPT ![t.c].status = "CONFIRMED", ![t.c].confirmer = t.q]
    BY <2>6 DEF WithStatus, WithVerdict
  <2>8. points = settled[6] /\ awards = settled[11] /\ challenge = settled[1]
    BY <1>a DEF WrittenIn
  <2>9. Serial!AwardPoints(t.c, t.p, t.q)
    BY <2>2, <2>3, <2>8, SettlesAt
       DEF Award, AwardPoints, Serial!AwardPoints, WinnerPoints, Serial!WinnerPoints,
           LoserPoints, Serial!LoserPoints, Returned
  <2>10. t.q = Serial!Opponent(t.c, t.p)
    BY <1>a, <2>8 DEF Opponent, Serial!Opponent
  <2>11. Serial!ResolveDispute(t.c)
    BY <1>a, <2>3, <2>5, <2>6, <2>7, <2>9, <2>10
       DEF Serial!ResolveDispute, DisputeSaved, Serial!limits, Serial!jobs
  <2>12. QED BY <2>3, <2>11
<1>7. QED BY <1>1, <1>2, <1>3, <1>4, <1>5, <1>6 DEF DisputaSoFar

LEMMA ExpireSteps ==
    ASSUME HandlersTypeOK, NEW h, Handler = {h}, SettledOK, NEW t, t = run[h], NEW u,
           u = run'[h], ExpireSoFar(t), Continue(h), t.c \in Challenge
    PROVE  \/ InFlight(h) /\ ExpireSoFar(u)'
           \/ /\ Returned(h)
              /\ Serial!ExpireChallenge(t.c)
<1> h \in Handler
  OBVIOUS
<1>a. t.op = "expire" /\ t.c \in settled[9] /\ t.c \in overdue
  BY DEF ExpireSoFar
<1>1. CASE t.todo = <<"saveChallenge", "ackExpire">>
  <2>1. /\ run[h].todo # <<>> /\ Tail(run[h].todo) # <<>>
        /\ Tail(run[h].todo) = <<"ackExpire">>
    BY <1>1
  <2>2. SaveChallenge(h) /\ Returns(h)
    BY <1>1, CallIs DEF SaveChallenge
  <2>3. /\ u.todo = <<"ackExpire">> /\ u.op = t.op /\ u.c = t.c /\ u.p = t.p /\ u.q = t.q
        /\ u.o = t.o /\ u.challenge = t.challenge /\ u.match = t.match /\ u.report = t.report
    BY <2>1, <2>2, Advances
  <2>4. InFlight(h)
    BY <2>1, <2>3, Settling
  <2>5. /\ WrittenIn({}) /\ settled[1][t.c].status = "PENDING"
        /\ t.challenge = settled[1][t.c]
    BY <1>1 DEF ExpireSoFar
  <2>6. WrittenIn({1})'
    BY <2>2, <2>4, <2>5 DEF WrittenIn, InFlight, SaveChallenge, rows, limits, score
  <2>7. challenge' = IF settled[1][t.c].status = "PENDING"
                     THEN [settled[1] EXCEPT ![t.c].status = "EXPIRED"] ELSE settled[1]
    <3>1. challenge' = WithChallenge(challenge, t.c, t.challenge, "EXPIRED")
      BY <1>a, <2>2, NewStatusAre DEF SaveChallenge, WithChallenge
    <3>2. challenge' = WithStatus(settled[1], t.c, "EXPIRED")
      BY <2>5, <3>1, Unwritten, RowSaved
    <3>3. QED BY <2>5, <3>2 DEF WithStatus
  <2>8. overdue' = overdue
    BY Settling
  <2>9. ExpireSoFar(u)'
    BY <1>a, <2>3, <2>4, <2>5, <2>6, <2>7, <2>8 DEF ExpireSoFar, InFlight
  <2>10. QED BY <2>4, <2>9
<1>2. CASE t.todo = <<"ackExpire">>
  <2>1. run[h].todo # <<>> /\ Tail(run[h].todo) = <<>>
    BY <1>2
  <2>2. AckJob(h) /\ Returns(h)
    BY <1>2, CallIs DEF AckJob
  <2>3. Calling(h, "ackExpire") /\ ~Calling(h, "ackAgenda")
    BY <1>2 DEF Calling
  <2>4. Returned(h) /\ overdue' = overdue
    BY <2>1, <2>2, Finishes, Settling
  <2>5. /\ WrittenIn({1})
        /\ challenge = IF settled[1][t.c].status = "PENDING"
                     THEN [settled[1] EXCEPT ![t.c].status = "EXPIRED"] ELSE settled[1]
    BY <1>2 DEF ExpireSoFar
  <2>6. /\ settled'[2] = settled[2] /\ settled'[3] = settled[3] /\ settled'[4] = settled[4]
        /\ settled'[5] = settled[5] /\ settled'[6] = settled[6] /\ settled'[7] = settled[7]
        /\ settled'[8] = settled[8] /\ settled'[10] = settled[10] /\ settled'[11] = settled[11]
    BY <2>2, <2>3, <2>4, <2>5, SettlesAt
       DEF WrittenIn, Returned, AckJob, rows, limits, score
  <2>7. /\ settled'[1] = IF settled[1][t.c].status = "PENDING"
                     THEN [settled[1] EXCEPT ![t.c].status = "EXPIRED"] ELSE settled[1]
        /\ settled'[9] = settled[9] \ {t.c}
    BY <2>2, <2>3, <2>4, <2>5, SettlesAt
       DEF WrittenIn, Returned, AckJob, rows, limits, score
  <2>8. Serial!ExpireChallenge(t.c)
    BY <1>a, <2>4, <2>6, <2>7
       DEF Serial!ExpireChallenge, Serial!limits, Serial!score
  <2>9. QED BY <2>4, <2>8
<1>3. QED BY <1>1, <1>2 DEF ExpireSoFar

LEMMA AgendaSteps ==
    ASSUME HandlersTypeOK, NEW h, Handler = {h}, SettledOK, NEW t, t = run[h], NEW u,
           u = run'[h], AgendaSoFar(t), Continue(h), t.c \in Challenge
    PROVE  \/ InFlight(h) /\ AgendaSoFar(u)'
           \/ /\ Returned(h)
              /\ Serial!ExpireSchedule(t.c)
<1> h \in Handler
  OBVIOUS
<1>a. t.op = "agenda" /\ t.c \in settled[10]
  BY DEF AgendaSoFar
<1>1. CASE t.todo = <<"saveMatch", "ackAgenda">>
  <2>1. /\ run[h].todo # <<>> /\ Tail(run[h].todo) # <<>>
        /\ Tail(run[h].todo) = <<"ackAgenda">>
    BY <1>1
  <2>2. SaveMatch(h) /\ Returns(h)
    BY <1>1, CallIs DEF SaveMatch
  <2>3. /\ u.todo = <<"ackAgenda">> /\ u.op = t.op /\ u.c = t.c /\ u.p = t.p /\ u.q = t.q
        /\ u.o = t.o /\ u.challenge = t.challenge /\ u.match = t.match /\ u.report = t.report
    BY <2>1, <2>2, Advances
  <2>4. InFlight(h)
    BY <2>1, <2>3, Settling
  <2>5. /\ WrittenIn({}) /\ settled[2][t.c].status = "PENDING_SCHEDULE"
        /\ t.match = settled[2][t.c]
    BY <1>1 DEF AgendaSoFar
  <2>6. WrittenIn({2})'
    BY <2>2, <2>4, <2>5 DEF WrittenIn, InFlight, SaveMatch, rows, limits, score
  <2>7. match' = IF settled[2][t.c].status = "PENDING_SCHEDULE"
                     THEN [settled[2] EXCEPT ![t.c].status = "CANCELLED"] ELSE settled[2]
    <3>1. match' = MatchSaved(t, "CANCELLED")
      BY <1>a, <2>2, <2>5, NewStatusAre, Unwritten DEF SaveMatch, MatchSaved
    <3>2. match' = WithStatus(settled[2], t.c, "CANCELLED")
      BY <3>1, MatchSavedIs
    <3>3. QED BY <2>5, <3>2 DEF WithStatus
  <2>8. overdue' = overdue
    BY Settling
  <2>9. AgendaSoFar(u)'
    BY <1>a, <2>3, <2>4, <2>5, <2>6, <2>7, <2>8 DEF AgendaSoFar, InFlight
  <2>10. QED BY <2>4, <2>9
<1>2. CASE t.todo = <<"ackAgenda">>
  <2>1. run[h].todo # <<>> /\ Tail(run[h].todo) = <<>>
    BY <1>2
  <2>2. AckJob(h) /\ Returns(h)
    BY <1>2, CallIs DEF AckJob
  <2>3. Calling(h, "ackAgenda") /\ ~Calling(h, "ackExpire")
    BY <1>2 DEF Calling
  <2>4. Returned(h) /\ overdue' = overdue
    BY <2>1, <2>2, Finishes, Settling
  <2>5. /\ WrittenIn({2})
        /\ match = IF settled[2][t.c].status = "PENDING_SCHEDULE"
                     THEN [settled[2] EXCEPT ![t.c].status = "CANCELLED"] ELSE settled[2]
    BY <1>2 DEF AgendaSoFar
  <2>6. /\ settled'[1] = settled[1] /\ settled'[3] = settled[3] /\ settled'[4] = settled[4]
        /\ settled'[5] = settled[5] /\ settled'[6] = settled[6] /\ settled'[7] = settled[7]
        /\ settled'[8] = settled[8] /\ settled'[9] = settled[9] /\ settled'[11] = settled[11]
    BY <2>2, <2>3, <2>4, <2>5, SettlesAt
       DEF WrittenIn, Returned, AckJob, rows, limits, score
  <2>7. /\ settled'[2] = IF settled[2][t.c].status = "PENDING_SCHEDULE"
                     THEN [settled[2] EXCEPT ![t.c].status = "CANCELLED"] ELSE settled[2]
        /\ settled'[10] = settled[10] \ {t.c}
    BY <2>2, <2>3, <2>4, <2>5, SettlesAt
       DEF WrittenIn, Returned, AckJob, rows, limits, score
  <2>8. Serial!ExpireSchedule(t.c)
    BY <1>a, <2>4, <2>6, <2>7
       DEF Serial!ExpireSchedule, Serial!limits, Serial!score
  <2>9. QED BY <2>4, <2>8
<1>3. QED BY <1>1, <1>2 DEF AgendaSoFar

-----------------------------------------------------------------------------
(* A handler starts: it has written nothing over the settled tables.        *)
LEMMA Started ==
    ASSUME settled = tables, NEW h, NEW task, Start(h, task)
    PROVE  /\ \A S : WrittenIn(S)'
           /\ settled' = settled /\ settled' = tables' /\ overdue' = overdue
           /\ crashes' = crashes
           /\ settled[1] = challenge /\ settled[2] = match /\ settled[3] = proposal
           /\ settled[4] = report /\ settled[9] = challengeJobs
           /\ settled[10] = scheduleJobs /\ settled[11] = awards
<1>1. /\ challenge' = challenge /\ match' = match /\ proposal' = proposal /\ report' = report
      /\ dispute' = dispute /\ points' = points /\ sent' = sent /\ accepted' = accepted
      /\ overdue' = overdue /\ challengeJobs' = challengeJobs
      /\ scheduleJobs' = scheduleJobs /\ awards' = awards /\ settled' = settled
      /\ crashes' = crashes
  BY DEF Start, vars, rows, limits, jobs, score
<1>2. settled' = tables'
  BY <1>1 DEF tables
<1>3. \A S : WrittenIn(S)'
  BY <1>2, SettlesAt DEF WrittenIn
<1>4. QED BY <1>1, <1>2, <1>3 DEF tables

LEMMA CreateStarts ==
    ASSUME HandlersTypeOK, settled = tables, NEW h \in Handler, NEW c, NEW p \in Player,
           NEW q \in Player \ {p}, challenge[c].status = "none",
           Start(h, Task("create", c, p, q, None)), NEW u, u = run'[h]
    PROVE  SoFar(u)'
<1>1. /\ u.op = "create" /\ u.c = c /\ u.p = p /\ u.q = q
      /\ u.todo = <<"checkRanks", "insertChallenge", "countSent", "enqueueExpire">>
  BY FreshTask, CallsAre
<1>2. (\A S : WrittenIn(S)') /\ settled'[1][c].status = "none"
  BY Started
<1>3. CreateSoFar(u)'
  BY <1>1, <1>2 DEF CreateSoFar
<1>4. QED BY <1>3 DEF SoFar

LEMMA AnswerStarts ==
    ASSUME HandlersTypeOK, settled = tables, NEW h \in Handler, NEW c, NEW p \in Player,
           challenge[c].status = "PENDING", challenge[c].challenged = p,
           NEW op \in {"accept", "decline"},
           Start(h, Task(op, c, challenge[c].challenger, p, None)), NEW u, u = run'[h]
    PROVE  SoFar(u)'
<1>1. /\ u.op = op /\ u.c = c /\ u.p = challenge[c].challenger /\ u.q = p
      /\ u.challenge = challenge[c] /\ u.todo = Calls(op)
  BY FreshTask
<1>2. /\ \A S : WrittenIn(S)'
      /\ settled'[1] = challenge
  BY Started
<1>3. CASE op = "accept"
  <2>1. AcceptSoFar(u)'
    BY <1>1, <1>2, <1>3, CallsAre DEF AcceptSoFar
  <2>2. QED BY <2>1 DEF SoFar
<1>4. CASE op = "decline"
  <2>1. DeclineSoFar(u)'
    BY <1>1, <1>2, <1>4, CallsAre DEF DeclineSoFar
  <2>2. QED BY <2>1 DEF SoFar
<1>5. QED BY <1>3, <1>4

LEMMA ProposeStarts ==
    ASSUME HandlersTypeOK, settled = tables, NEW h \in Handler, NEW c, NEW p \in Player,
           NEW o \in Proposal, match[c].status = "PENDING_SCHEDULE",
           challenge[c].challenger = p, proposal[o].status = "none",
           Start(h, Task("propose", c, p, None, o)), NEW u, u = run'[h]
    PROVE  SoFar(u)'
<1>1. /\ u.op = "propose" /\ u.c = c /\ u.p = p /\ u.o = o /\ u.todo = <<"insertProposal">>
  BY FreshTask, CallsAre
<1>2. /\ \A S : WrittenIn(S)'
      /\ settled'[1] = challenge /\ settled'[2] = match /\ settled'[3] = proposal
  BY Started
<1>3. ProposeSoFar(u)'
  BY <1>1, <1>2 DEF ProposeSoFar
<1>4. QED BY <1>3 DEF SoFar

LEMMA SelectStarts ==
    ASSUME HandlersTypeOK, settled = tables, NEW h \in Handler, NEW c, NEW p \in Player,
           NEW o \in Proposal, match[c].status = "PENDING_SCHEDULE",
           challenge[c].challenger # p, proposal[o].status # "none", proposal[o].match = c,
           Start(h, Task("select", c, None, p, o)), NEW u, u = run'[h]
    PROVE  SoFar(u)'
<1>1. /\ u.op = "select" /\ u.c = c /\ u.q = p /\ u.o = o
      /\ u.todo = <<"saveMatch", "replaceOpen", "selectProposal">>
  BY FreshTask, CallsAre
<1>2. /\ \A S : WrittenIn(S)'
      /\ settled'[1] = challenge /\ settled'[2] = match /\ settled'[3] = proposal
  BY Started
<1>3. SelectSoFar(u)'
  BY <1>1, <1>2 DEF SelectSoFar
<1>4. QED BY <1>3 DEF SoFar

LEMMA ReportStarts ==
    ASSUME HandlersTypeOK, settled = tables, NEW h \in Handler, NEW c, NEW p \in Player,
           match[c].status = "SCHEDULED",
           p \in {challenge[c].challenger, challenge[c].challenged},
           Start(h, Task("report", c, p, None, None)), NEW u, u = run'[h]
    PROVE  SoFar(u)'
<1>1. /\ u.op = "report" /\ u.c = c /\ u.p = p /\ u.match = match[c]
      /\ u.todo = <<"checkReport", "insertReport", "saveMatch", "ask">>
  BY FreshTask, CallsAre
<1>2. /\ \A S : WrittenIn(S)'
      /\ settled'[1] = challenge /\ settled'[2] = match
  BY Started
<1>3. ReportSoFar(u)'
  BY <1>1, <1>2 DEF ReportSoFar
<1>4. QED BY <1>3 DEF SoFar

LEMMA VerdictStarts ==
    ASSUME HandlersTypeOK, settled = tables, NEW h \in Handler, NEW c, NEW p \in Player,
           report[c].status = "PENDING_CONFIRMATION", report[c].reporter # p,
           NEW op \in {"confirm", "refuse"},
           Start(h, Task(op, c, report[c].reporter, p, None)), NEW u, u = run'[h]
    PROVE  SoFar(u)'
<1>1. /\ u.op = op /\ u.c = c /\ u.p = report[c].reporter /\ u.q = p
      /\ u.report = report[c] /\ u.todo = Calls(op)
  BY FreshTask
<1>2. /\ \A S : WrittenIn(S)'
      /\ settled'[4] = report
  BY Started
<1>3. CASE op = "confirm"
  <2>1. ConfirmSoFar(u)'
    BY <1>1, <1>2, <1>3, CallsAre DEF ConfirmSoFar
  <2>2. QED BY <2>1 DEF SoFar
<1>4. CASE op = "refuse"
  <2>1. RefuseSoFar(u)'
    BY <1>1, <1>2, <1>4, CallsAre DEF RefuseSoFar
  <2>2. QED BY <2>1 DEF SoFar
<1>5. QED BY <1>3, <1>4

LEMMA CourtStarts ==
    ASSUME HandlersTypeOK, settled = tables, NEW h \in Handler, NEW c,
           match[c].status # "none", NEW op \in Admin \cap {"cancha", "cancelar"},
           Start(h, Task(op, c, None, None, None)), NEW u, u = run'[h]
    PROVE  SoFar(u)'
<1>1. u.op = op /\ u.c = c /\ u.match = match[c] /\ u.todo = Calls(op)
  BY FreshTask
<1>2. u.todo = <<"saveMatch">>
  BY <1>1, CallsAre
<1>3. (\A S : WrittenIn(S)') /\ settled'[2] = match
  BY Started
<1>4. CourtSoFar(u)'
  BY <1>1, <1>2, <1>3 DEF CourtSoFar
<1>5. QED BY <1>4 DEF SoFar

LEMMA WalkoverStarts ==
    ASSUME HandlersTypeOK, settled = tables, NEW h \in Handler, NEW c, NEW p \in Player,
           match[c].status # "none", "walkover" \in Admin, awards[c] < MaxAwards,
           Start(h, Task("walkover", c, p, Opponent(c, p), None)), NEW u, u = run'[h]
    PROVE  SoFar(u)'
<1>1. PICK q : q = Opponent(c, p)
  OBVIOUS
<1>2. /\ u.op = "walkover" /\ u.c = c /\ u.p = p /\ u.q = q /\ u.match = match[c]
      /\ u.todo = <<"award", "saveMatch">>
  BY <1>1, FreshTask, CallsAre
<1>3. /\ \A S : WrittenIn(S)'
      /\ settled'[2] = match /\ settled'[11] = awards
  BY Started
<1>4. Opponent(u.c, u.p)' = q
  BY <1>1, <1>2 DEF Opponent, Start, vars, rows
<1>5. WalkoverSoFar(u)'
  BY <1>2, <1>3, <1>4 DEF WalkoverSoFar
<1>6. QED BY <1>5 DEF SoFar

LEMMA DisputaStarts ==
    ASSUME HandlersTypeOK, settled = tables, NEW h \in Handler, NEW c,
           report[c].status # "none", "disputa" \in Admin, awards[c] < MaxAwards,
           Start(h, Task("disputa", c, report[c].reporter, Opponent(c, report[c].reporter),
                         None)),
           NEW u, u = run'[h]
    PROVE  SoFar(u)'
<1>1. PICK p, q : p = report[c].reporter /\ q = Opponent(c, p)
  OBVIOUS
<1>2. Start(h, Task("disputa", c, p, q, None))
  BY <1>1
<1>3. /\ u.op = "disputa" /\ u.c = c /\ u.p = p /\ u.q = q /\ u.report = report[c]
      /\ u.todo = <<"saveReport", "readMatch", "saveMatch", "saveDispute", "saveLoser",
                    "award">>
  BY <1>2, FreshTask, CallsAre
<1>4. /\ \A S : WrittenIn(S)'
      /\ settled'[4] = report /\ settled'[11] = awards
  BY <1>2, Started
<1>5. Opponent(u.c, u.p)' = q
  BY <1>1, <1>2, <1>3 DEF Opponent, Start, vars, rows
<1>6. DisputaSoFar(u)'
  BY <1>1, <1>3, <1>4, <1>5 DEF DisputaSoFar
<1>7. QED BY <1>6 DEF SoFar

LEMMA ExpireStarts ==
    ASSUME HandlersTypeOK, settled = tables, NEW h \in Handler, NEW c \in Challenge,
           c \in challengeJobs, c \in overdue,
           \/ /\ challenge[c].status = "PENDING"
              /\ Start(h, Task("expire", c, None, None, None))
           \/ /\ challenge[c].status # "PENDING"
              /\ Start(h, [Task("expire", c, None, None, None)
                              EXCEPT !.todo = <<"ackExpire">>]),
           NEW u, u = run'[h]
    PROVE  SoFar(u)' /\ settled' = settled /\ overdue' = overdue /\ crashes' = crashes
<1>1. /\ \A S : WrittenIn(S)'
      /\ settled'[1] = challenge /\ settled'[9] = challengeJobs /\ overdue' = overdue
      /\ settled' = settled /\ crashes' = crashes
  BY Started
<1>2. challenge' = challenge
  BY DEF Start, vars, rows
<1>3. CASE challenge[c].status = "PENDING"
  <2>1. /\ u.op = "expire" /\ u.c = c /\ u.challenge = challenge[c]
        /\ u.todo = <<"saveChallenge", "ackExpire">>
    BY <1>3, FreshTask, CallsAre
  <2>2. ExpireSoFar(u)'
    BY <1>1, <1>3, <2>1 DEF ExpireSoFar
  <2>3. QED BY <1>1, <2>2 DEF SoFar
<1>4. CASE challenge[c].status # "PENDING"
  <2>1. /\ u.op = "expire" /\ u.c = c /\ u.todo = <<"ackExpire">>
    BY <1>4, FreshJob DEF Op
  <2>2. ExpireSoFar(u)'
    BY <1>1, <1>2, <1>4, <2>1 DEF ExpireSoFar
  <2>3. QED BY <1>1, <2>2 DEF SoFar
<1>5. QED BY <1>3, <1>4

LEMMA AgendaStarts ==
    ASSUME HandlersTypeOK, settled = tables, NEW h \in Handler, NEW c \in Challenge,
           c \in scheduleJobs,
           \/ /\ match[c].status = "PENDING_SCHEDULE"
              /\ Start(h, Task("agenda", c, None, None, None))
           \/ /\ match[c].status # "PENDING_SCHEDULE"
              /\ Start(h, [Task("agenda", c, None, None, None)
                              EXCEPT !.todo = <<"ackAgenda">>]),
           NEW u, u = run'[h]
    PROVE  SoFar(u)' /\ settled' = settled /\ overdue' = overdue /\ crashes' = crashes
<1>1. /\ \A S : WrittenIn(S)'
      /\ settled'[2] = match /\ settled'[10] = scheduleJobs
      /\ settled' = settled /\ overdue' = overdue /\ crashes' = crashes
  BY Started
<1>2. match' = match
  BY DEF Start, vars, rows
<1>3. CASE match[c].status = "PENDING_SCHEDULE"
  <2>1. /\ u.op = "agenda" /\ u.c = c /\ u.match = match[c]
        /\ u.todo = <<"saveMatch", "ackAgenda">>
    BY <1>3, FreshTask, CallsAre
  <2>2. AgendaSoFar(u)'
    BY <1>1, <1>3, <2>1 DEF AgendaSoFar
  <2>3. QED BY <1>1, <2>2 DEF SoFar
<1>4. CASE match[c].status # "PENDING_SCHEDULE"
  <2>1. /\ u.op = "agenda" /\ u.c = c /\ u.todo = <<"ackAgenda">>
    BY <1>4, FreshJob DEF Op
  <2>2. AgendaSoFar(u)'
    BY <1>1, <1>2, <1>4, <2>1 DEF AgendaSoFar
  <2>3. QED BY <1>1, <2>2 DEF SoFar
<1>5. QED BY <1>3, <1>4

(* Whoever starts, starts from the settled tables.                          *)
LEMMA StartsSoFar ==
    ASSUME HandlersTypeOK, settled = tables, NEW h \in Handler, NEW c \in Challenge,
           \/ StartJob(h, c)
           \/ StartAdmin(h, c)
           \/ \E p \in Player : PlayerStarts(h, c, p),
           NEW u, u = run'[h]
    PROVE  SoFar(u)' /\ settled' = settled /\ overdue' = overdue /\ crashes' = crashes
<1>1. ASSUME NEW task, Start(h, task)
      PROVE  settled' = settled /\ overdue' = overdue /\ crashes' = crashes
  BY <1>1, Started
<1>2. CASE StartJob(h, c)
  BY <1>2, ExpireStarts, AgendaStarts DEF StartJob
<1>3. CASE StartAdmin(h, c)
  BY <1>1, <1>3, CourtStarts, WalkoverStarts, DisputaStarts DEF StartAdmin
<1>4. ASSUME NEW p \in Player, StartChallenge(h, c, p)
      PROVE  SoFar(u)' /\ settled' = settled /\ overdue' = overdue /\ crashes' = crashes
  BY <1>1, <1>4, CreateStarts, AnswerStarts DEF StartChallenge
<1>5. ASSUME NEW p \in Player, NEW o \in Proposal, StartSchedule(h, c, p, o)
      PROVE  SoFar(u)' /\ settled' = settled /\ overdue' = overdue /\ crashes' = crashes
  BY <1>1, <1>5, ProposeStarts, SelectStarts DEF StartSchedule
<1>6. ASSUME NEW p \in Player, StartResult(h, c, p)
      PROVE  SoFar(u)' /\ settled' = settled /\ overdue' = overdue /\ crashes' = crashes
  BY <1>1, <1>6, ReportStarts, VerdictStarts DEF StartResult
<1>7. QED BY <1>2, <1>3, <1>4, <1>5, <1>6 DEF PlayerStarts

(* The task is the one in the table.                                        *)
LEMMA SoFarNow ==
    ASSUME NEW h, NEW u, u = run'[h], SoFar(u)'
    PROVE  SoFar(run[h])'
<1>1. CASE CreateSoFar(u)'
  <2>1. CreateSoFar(run[h])'
    BY <1>1 DEF CreateSoFar, WrittenIn, ChallengeSaved, RankGap, Rank
  <2>2. QED BY <2>1 DEF SoFar
<1>2. CASE AcceptSoFar(u)'
  <2>1. PICK g : g = RankGap(u.p, u.q)'
    OBVIOUS
  <2>2. RankGap(run[h].p, run[h].q)' = g
    BY <2>1 DEF RankGap, Rank
  <2>3. \A s, d : ChallengeSaved(run[h], s, d)' = ChallengeSaved(u, s, d)'
    BY DEF ChallengeSaved
  <2>4. AcceptSoFar(run[h])'
    BY <1>2, <2>1, <2>2, <2>3 DEF AcceptSoFar
  <2>5. QED BY <2>4 DEF SoFar
<1>3. CASE DeclineSoFar(u)'
  <2>1. DeclineSoFar(run[h])'
    BY <1>3 DEF DeclineSoFar, WrittenIn
  <2>2. QED BY <2>1 DEF SoFar
<1>4. CASE ProposeSoFar(u)'
  <2>1. ProposeSoFar(run[h])'
    BY <1>4 DEF ProposeSoFar, WrittenIn
  <2>2. QED BY <2>1 DEF SoFar
<1>5. CASE SelectSoFar(u)'
  <2>1. SelectSoFar(run[h])'
    BY <1>5 DEF SelectSoFar, WrittenIn
  <2>2. QED BY <2>1 DEF SoFar
<1>6. CASE ReportSoFar(u)'
  <2>1. ReportSoFar(run[h])'
    BY <1>6 DEF ReportSoFar, WrittenIn, ReportSaved, MatchSaved
  <2>2. QED BY <2>1 DEF SoFar
<1>7. CASE ConfirmSoFar(u)'
  <2>1. ConfirmSoFar(run[h])'
    BY <1>7 DEF ConfirmSoFar, WrittenIn, ReportSaved, MatchSaved
  <2>2. QED BY <2>1 DEF SoFar
<1>8. CASE RefuseSoFar(u)'
  <2>1. RefuseSoFar(run[h])'
    BY <1>8 DEF RefuseSoFar, WrittenIn, ReportSaved, MatchSaved
  <2>2. QED BY <2>1 DEF SoFar
<1>9. CASE CourtSoFar(u)'
  <2>1. CourtSoFar(run[h])'
    BY <1>9 DEF CourtSoFar, WrittenIn
  <2>2. QED BY <2>1 DEF SoFar
<1>10. CASE WalkoverSoFar(u)'
  <2>1. WalkoverSoFar(run[h])'
    BY <1>10 DEF WalkoverSoFar, WrittenIn, Opponent, Awarded
  <2>2. QED BY <2>1 DEF SoFar
<1>11. CASE DisputaSoFar(u)'
  <2>1. DisputaSoFar(run[h])'
    BY <1>11 DEF DisputaSoFar, WrittenIn, Opponent, ReportSaved, MatchSaved, DisputeSaved
  <2>2. QED BY <2>1 DEF SoFar
<1>12. CASE ExpireSoFar(u)'
  <2>1. ExpireSoFar(run[h])'
    BY <1>12 DEF ExpireSoFar, WrittenIn
  <2>2. QED BY <2>1 DEF SoFar
<1>13. CASE AgendaSoFar(u)'
  <2>1. AgendaSoFar(run[h])'
    BY <1>13 DEF AgendaSoFar, WrittenIn
  <2>2. QED BY <2>1 DEF SoFar
<1>14. QED BY <1>1, <1>2, <1>3, <1>4, <1>5, <1>6, <1>7, <1>8, <1>9, <1>10, <1>11, <1>12,
          <1>13 DEF SoFar

(* Nothing is called, perhaps time passes.                                  *)
LEMMA SoFarStays ==
    ASSUME NEW t, SoFar(t), UNCHANGED <<tables, settled>>, overdue \subseteq overdue'
    PROVE  SoFar(t)'
<1>0. /\ challenge' = challenge /\ match' = match /\ proposal' = proposal /\ report' = report
      /\ dispute' = dispute /\ points' = points /\ sent' = sent /\ accepted' = accepted
      /\ challengeJobs' = challengeJobs /\ scheduleJobs' = scheduleJobs
      /\ awards' = awards /\ settled' = settled
  BY DEF tables
<1>w. ASSUME NEW S, WrittenIn(S) PROVE WrittenIn(S)'
  BY <1>0, <1>w DEF WrittenIn
<1>g. ASSUME NEW p, NEW q PROVE RankGap(p, q)' = RankGap(p, q) /\ Opponent(p, q)' = Opponent(p, q)
  BY <1>0 DEF RankGap, Rank, Opponent
<1>1. CASE CreateSoFar(t)
  <2>1. CreateSoFar(t)'
    BY <1>0, <1>w, <1>g, <1>1 DEF CreateSoFar, ChallengeSaved
  <2>2. QED BY <2>1 DEF SoFar
<1>2. CASE AcceptSoFar(t)
  <2>1. AcceptSoFar(t)'
    BY <1>0, <1>w, <1>g, <1>2 DEF AcceptSoFar, ChallengeSaved
  <2>2. QED BY <2>1 DEF SoFar
<1>3. CASE DeclineSoFar(t)
  <2>1. DeclineSoFar(t)'
    BY <1>0, <1>w, <1>g, <1>3 DEF DeclineSoFar
  <2>2. QED BY <2>1 DEF SoFar
<1>4. CASE ProposeSoFar(t)
  <2>1. ProposeSoFar(t)'
    BY <1>0, <1>w, <1>g, <1>4 DEF ProposeSoFar
  <2>2. QED BY <2>1 DEF SoFar
<1>5. CASE SelectSoFar(t)
  <2>1. SelectSoFar(t)'
    BY <1>0, <1>w, <1>g, <1>5 DEF SelectSoFar
  <2>2. QED BY <2>1 DEF SoFar
<1>6. CASE ReportSoFar(t)
  <2>1. ReportSoFar(t)'
    BY <1>0, <1>w, <1>g, <1>6 DEF ReportSoFar, ReportSaved, MatchSaved
  <2>2. QED BY <2>1 DEF SoFar
<1>7. CASE ConfirmSoFar(t)
  <2>1. ConfirmSoFar(t)'
    BY <1>0, <1>w, <1>g, <1>7 DEF ConfirmSoFar, ReportSaved, MatchSaved
  <2>2. QED BY <2>1 DEF SoFar
<1>8. CASE RefuseSoFar(t)
  <2>1. RefuseSoFar(t)'
    BY <1>0, <1>w, <1>g, <1>8 DEF RefuseSoFar, ReportSaved, MatchSaved
  <2>2. QED BY <2>1 DEF SoFar
<1>9. CASE CourtSoFar(t)
  <2>1. CourtSoFar(t)'
    BY <1>0, <1>w, <1>g, <1>9 DEF CourtSoFar
  <2>2. QED BY <2>1 DEF SoFar
<1>10. CASE WalkoverSoFar(t)
  <2>1. WalkoverSoFar(t)'
    BY <1>0, <1>w, <1>g, <1>10 DEF WalkoverSoFar, Awarded
  <2>2. QED BY <2>1 DEF SoFar
<1>11. CASE DisputaSoFar(t)
  <2>1. DisputaSoFar(t)'
    BY <1>0, <1>w, <1>g, <1>11 DEF DisputaSoFar, ReportSaved, MatchSaved, DisputeSaved
  <2>2. QED BY <2>1 DEF SoFar
<1>12. CASE ExpireSoFar(t)
  <2>1. ExpireSoFar(t)'
    BY <1>0, <1>w, <1>g, <1>12 DEF ExpireSoFar
  <2>2. QED BY <2>1 DEF SoFar
<1>13. CASE AgendaSoFar(t)
  <2>1. AgendaSoFar(t)'
    BY <1>0, <1>w, <1>g, <1>13 DEF AgendaSoFar
  <2>2. QED BY <2>1 DEF SoFar
<1>14. QED BY <1>1, <1>2, <1>3, <1>4, <1>5, <1>6, <1>7, <1>8, <1>9, <1>10, <1>11, <1>12,
          <1>13 DEF SoFar

-----------------------------------------------------------------------------
(* The calls of a handler add up to one step of MatchLifecycle.             *)
LEMMA CallsAddUp ==
    ASSUME HandlersTypeOK, NEW h, Handler = {h}, SettledOK, SoFar(run[h]), Continue(h),
           NEW u, u = run'[h]
    PROVE  \/ InFlight(h) /\ SoFar(u)'
           \/ Returned(h) /\ (Serial!Next \/ UNCHANGED Serial!vars)
<1>0. PICK t : t = run[h]
  OBVIOUS
<1>a. SoFar(t) /\ t.c \in Challenge
  <2>1. h \in Handler
    OBVIOUS
  <2>2. run[h].todo # <<>>
    BY <2>1, ContinueRun
  <2>3. QED BY <1>0, <2>1, <2>2, HeadOwned
<1>1. CASE CreateSoFar(t)
  <2>1. t.p \in Player /\ t.q \in Player
    BY <1>1 DEF CreateSoFar
  <2>2. \/ InFlight(h) /\ CreateSoFar(u)'
        \/ Returned(h) /\ (Serial!Next \/ UNCHANGED Serial!vars)
    BY <1>0, <1>a, <1>1, <2>1, CreateSteps DEF Serial!Next, Serial!PlayerStep
  <2>3. QED BY <2>2 DEF SoFar
<1>2. CASE AcceptSoFar(t)
  <2>1. t.q \in Player
    BY <1>2 DEF AcceptSoFar
  <2>2. \/ InFlight(h) /\ AcceptSoFar(u)'
        \/ Returned(h) /\ (Serial!Next \/ UNCHANGED Serial!vars)
    BY <1>0, <1>a, <1>2, <2>1, AcceptSteps DEF Serial!Next, Serial!PlayerStep
  <2>3. QED BY <2>2 DEF SoFar
<1>3. CASE DeclineSoFar(t)
  <2>1. t.q \in Player
    BY <1>3 DEF DeclineSoFar
  <2>2. \/ InFlight(h) /\ DeclineSoFar(u)'
        \/ Returned(h) /\ (Serial!Next \/ UNCHANGED Serial!vars)
    BY <1>0, <1>a, <1>3, <2>1, DeclineSteps DEF Serial!Next, Serial!PlayerStep
  <2>3. QED BY <2>2 DEF SoFar
<1>4. CASE ProposeSoFar(t)
  <2>1. t.p \in Player /\ t.o \in Proposal
    BY <1>4 DEF ProposeSoFar
  <2>2. \/ InFlight(h) /\ ProposeSoFar(u)'
        \/ Returned(h) /\ (Serial!Next \/ UNCHANGED Serial!vars)
    BY <1>0, <1>a, <1>4, <2>1, ProposeSteps DEF Serial!Next, Serial!PlayerStep
  <2>3. QED BY <2>2 DEF SoFar
<1>5. CASE SelectSoFar(t)
  <2>1. t.q \in Player /\ t.o \in Proposal
    BY <1>5 DEF SelectSoFar
  <2>2. \/ InFlight(h) /\ SelectSoFar(u)'
        \/ Returned(h) /\ (Serial!Next \/ UNCHANGED Serial!vars)
    BY <1>0, <1>a, <1>5, <2>1, SelectSteps DEF Serial!Next
  <2>3. QED BY <2>2 DEF SoFar
<1>6. CASE ReportSoFar(t)
  <2>1. t.p \in Player
    BY <1>6 DEF ReportSoFar
  <2>2. \/ InFlight(h) /\ ReportSoFar(u)'
        \/ Returned(h) /\ (Serial!Next \/ UNCHANGED Serial!vars)
    BY <1>0, <1>a, <1>6, <2>1, ReportSteps DEF Serial!Next, Serial!PlayerStep
  <2>3. QED BY <2>2 DEF SoFar
<1>7. CASE ConfirmSoFar(t)
  <2>1. t.q \in Player
    BY <1>7 DEF ConfirmSoFar
  <2>2. \/ InFlight(h) /\ ConfirmSoFar(u)'
        \/ Returned(h) /\ (Serial!Next \/ UNCHANGED Serial!vars)
    BY <1>0, <1>a, <1>7, <2>1, ConfirmSteps DEF Serial!Next, Serial!PlayerStep
  <2>3. QED BY <2>2 DEF SoFar
<1>8. CASE RefuseSoFar(t)
  <2>1. t.q \in Player
    BY <1>8 DEF RefuseSoFar
  <2>2. \/ InFlight(h) /\ RefuseSoFar(u)'
        \/ Returned(h) /\ (Serial!Next \/ UNCHANGED Serial!vars)
    BY <1>0, <1>a, <1>8, <2>1, RefuseSteps DEF Serial!Next, Serial!PlayerStep
  <2>3. QED BY <2>2 DEF SoFar
<1>9. CASE CourtSoFar(t)
  <2>2. \/ InFlight(h) /\ CourtSoFar(u)'
        \/ Returned(h) /\ (Serial!Next \/ UNCHANGED Serial!vars)
    BY <1>0, <1>a, <1>9, CourtSteps DEF Serial!Next, Serial!AdminStep
  <2>3. QED BY <2>2 DEF SoFar
<1>10. CASE WalkoverSoFar(t)
  <2>1. t.p \in Player
    BY <1>10 DEF WalkoverSoFar
  <2>2. \/ InFlight(h) /\ WalkoverSoFar(u)'
        \/ Returned(h) /\ (Serial!Next \/ UNCHANGED Serial!vars)
    BY <1>0, <1>a, <1>10, <2>1, WalkoverSteps DEF Serial!Next, Serial!AdminStep
  <2>3. QED BY <2>2 DEF SoFar
<1>11. CASE DisputaSoFar(t)
  <2>2. \/ InFlight(h) /\ DisputaSoFar(u)'
        \/ Returned(h) /\ (Serial!Next \/ UNCHANGED Serial!vars)
    BY <1>0, <1>a, <1>11, DisputaSteps DEF Serial!Next, Serial!AdminStep
  <2>3. QED BY <2>2 DEF SoFar
<1>12. CASE ExpireSoFar(t)
  <2>2. \/ InFlight(h) /\ ExpireSoFar(u)'
        \/ Returned(h) /\ (Serial!Next \/ UNCHANGED Serial!vars)
    BY <1>0, <1>a, <1>12, ExpireSteps DEF Serial!Next, Serial!JobStep
  <2>3. QED BY <2>2 DEF SoFar
<1>13. CASE AgendaSoFar(t)
  <2>2. \/ InFlight(h) /\ AgendaSoFar(u)'
        \/ Returned(h) /\ (Serial!Next \/ UNCHANGED Serial!vars)
    BY <1>0, <1>a, <1>13, AgendaSteps DEF Serial!Next, Serial!JobStep
  <2>3. QED BY <2>2 DEF SoFar
<1>14. QED BY <1>a, <1>1, <1>2, <1>3, <1>4, <1>5, <1>6, <1>7, <1>8, <1>9, <1>10, <1>11, <1>12,
          <1>13 DEF SoFar

LEMMA SerialKeeps ==
    ASSUME SettledOK, Serial!Next \/ UNCHANGED Serial!vars,
           settled'[1] \in [Challenge -> ChallengeRow], settled'[2] \in [Challenge -> MatchRow],
           settled'[3] \in [Proposal -> ProposalRow], settled'[4] \in [Challenge -> ReportRow],
           settled'[5] \in [Challenge -> {"none", "OPEN", "RESOLVED"}]
    PROVE  SettledOK'
<1> DEFINE Kept(d) ==
        /\ settled'[2][d].status # "none" => settled'[1][d].status = "ACCEPTED"
        /\ settled'[4][d].status # "none" => settled'[2][d].status # "none"
        /\ settled'[5][d] # "none" => settled'[4][d].status \in {"CONFIRMED", "REJECTED"}
<1>0. \A d \in Challenge :
          /\ settled[2][d].status # "none" => settled[1][d].status = "ACCEPTED"
          /\ settled[4][d].status # "none" => settled[2][d].status # "none"
          /\ settled[5][d] # "none" => settled[4][d].status \in {"CONFIRMED", "REJECTED"}
  BY DEF SettledOK
<1>a. /\ settled[1] \in [Challenge -> ChallengeRow] /\ settled[2] \in [Challenge -> MatchRow]
      /\ settled[4] \in [Challenge -> ReportRow]
      /\ settled[5] \in [Challenge -> {"none", "OPEN", "RESOLVED"}]
  BY DEF SettledOK
<1>1. ASSUME NEW c \in Challenge, NEW p \in Player, NEW q \in Player, Serial!CreateChallenge(c,
         p, q),
             NEW d \in Challenge
      PROVE  Kept(d)
  BY <1>0, <1>a, <1>1 DEF Serial!CreateChallenge
<1>2. ASSUME NEW c \in Challenge, NEW p \in Player, Serial!AcceptChallenge(c, p),
             NEW d \in Challenge
      PROVE  Kept(d)
  BY <1>0, <1>a, <1>2 DEF Serial!AcceptChallenge
<1>3. ASSUME NEW c \in Challenge, NEW p \in Player, Serial!RejectChallenge(c, p),
             NEW d \in Challenge
      PROVE  Kept(d)
  BY <1>0, <1>a, <1>3 DEF Serial!RejectChallenge
<1>4. ASSUME NEW c \in Challenge, NEW p \in Player, NEW o \in Proposal, Serial!ProposeSchedule(c,
         p, o),
             NEW d \in Challenge
      PROVE  Kept(d)
  BY <1>0, <1>a, <1>4 DEF Serial!ProposeSchedule
<1>5. ASSUME NEW c \in Challenge, NEW p \in Player, Serial!ReportResult(c, p),
             NEW d \in Challenge
      PROVE  Kept(d)
  BY <1>0, <1>a, <1>5 DEF Serial!ReportResult
<1>6. ASSUME NEW c \in Challenge, NEW p \in Player, Serial!ConfirmResult(c, p),
             NEW d \in Challenge
      PROVE  Kept(d)
  BY <1>0, <1>a, <1>6 DEF Serial!ConfirmResult
<1>7. ASSUME NEW c \in Challenge, NEW p \in Player, Serial!RejectResult(c, p),
             NEW d \in Challenge
      PROVE  Kept(d)
  BY <1>0, <1>a, <1>7 DEF Serial!RejectResult
<1>8. ASSUME NEW o \in Proposal, NEW p \in Player, Serial!SelectOption(o, p),
             NEW d \in Challenge
      PROVE  Kept(d)
  BY <1>0, <1>a, <1>8 DEF Serial!SelectOption
<1>9. ASSUME NEW c \in Challenge, Serial!PassExpiry(c),
             NEW d \in Challenge
      PROVE  Kept(d)
  BY <1>0, <1>a, <1>9 DEF Serial!PassExpiry, Serial!rows
<1>10. ASSUME NEW c \in Challenge, Serial!ExpireChallenge(c),
             NEW d \in Challenge
      PROVE  Kept(d)
  BY <1>0, <1>a, <1>10 DEF Serial!ExpireChallenge
<1>11. ASSUME NEW c \in Challenge, Serial!ExpireSchedule(c),
             NEW d \in Challenge
      PROVE  Kept(d)
  BY <1>0, <1>a, <1>11 DEF Serial!ExpireSchedule
<1>12. ASSUME NEW c \in Challenge, Serial!ConfirmCourt(c),
             NEW d \in Challenge
      PROVE  Kept(d)
  BY <1>0, <1>a, <1>12 DEF Serial!ConfirmCourt
<1>13. ASSUME NEW c \in Challenge, NEW p \in Player, Serial!ApplyWalkover(c, p),
             NEW d \in Challenge
      PROVE  Kept(d)
  BY <1>0, <1>a, <1>13 DEF Serial!ApplyWalkover
<1>14. ASSUME NEW c \in Challenge, Serial!ResolveDispute(c),
             NEW d \in Challenge
      PROVE  Kept(d)
  BY <1>0, <1>a, <1>14 DEF Serial!ResolveDispute
<1>15. ASSUME NEW c \in Challenge, Serial!CancelMatch(c),
             NEW d \in Challenge
      PROVE  Kept(d)
  BY <1>0, <1>a, <1>15 DEF Serial!CancelMatch
<1>16. ASSUME UNCHANGED Serial!vars, NEW d \in Challenge
      PROVE  Kept(d)
  BY <1>0, <1>16 DEF Serial!vars, Serial!rows
<1>17. \A d \in Challenge : Kept(d)
  BY <1>1, <1>2, <1>3, <1>4, <1>5, <1>6, <1>7, <1>8, <1>9, <1>10, <1>11, <1>12, <1>13, <1>14,
     <1>15, <1>16
     DEF Serial!Next, Serial!PlayerStep, Serial!AdminStep, Serial!JobStep
<1>18. QED BY <1>17 DEF SettledOK

(* A challenge the running handler is not just creating was there already.  *)
LEMMA ChallengeKnown ==
    ASSUME SettledOK, NEW t, SoFar(t), NEW c \in Challenge, challenge[c].status # "none",
           ~(t.op = "create" /\ t.c = c)
    PROVE  settled[1][c].status # "none"
<1>1. settled[1] \in [Challenge -> ChallengeRow]
  BY DEF SettledOK
<1>2. CASE challenge = settled[1]
  BY <1>2
<1>3. CASE t.c # c
  <2>1. ASSUME NEW s, NEW d PROVE ChallengeSaved(t, s, d)[c] = settled[1][c]
    BY <1>1, <1>3 DEF ChallengeSaved
  <2>2. [settled[1] EXCEPT ![t.c].status = "EXPIRED"][c] = settled[1][c]
    BY <1>1, <1>3
  <2>3. \/ challenge = settled[1]
        \/ \E s, d : challenge = ChallengeSaved(t, s, d)
        \/ challenge = [settled[1] EXCEPT ![t.c].status = "EXPIRED"]
    BY DEF SoFar, CreateSoFar, AcceptSoFar, DeclineSoFar, ProposeSoFar, SelectSoFar,
           ReportSoFar, ConfirmSoFar, RefuseSoFar, CourtSoFar, WalkoverSoFar, DisputaSoFar,
           ExpireSoFar, AgendaSoFar, WrittenIn
  <2>4. challenge[c] = settled[1][c]
    BY <2>1, <2>2, <2>3
  <2>5. QED BY <2>4
<1>4. CASE t.c = c /\ challenge # settled[1]
  <2>1. AcceptSoFar(t) \/ ExpireSoFar(t)
    BY <1>4 DEF SoFar, CreateSoFar, DeclineSoFar, ProposeSoFar, SelectSoFar,
           ReportSoFar, ConfirmSoFar, RefuseSoFar, CourtSoFar, WalkoverSoFar, DisputaSoFar,
           AgendaSoFar, WrittenIn
  <2>2. settled[1][t.c].status = "PENDING"
    BY <1>4, <2>1 DEF AcceptSoFar, ExpireSoFar, WrittenIn
  <2>3. QED BY <1>4, <2>2
<1>5. QED BY <1>2, <1>3, <1>4

LEMMA OneByOneStep ==
    ASSUME NEW h, Handler = {h}, MaxCrashes = 0, HandlersTypeOK, HandlersTypeOK', OneByOne,
           [NextHandlers]_handlerVars
    PROVE  OneByOne' /\ [Serial!Next]_(Serial!vars)
<1>0. /\ h \in Handler /\ SettledOK /\ crashes \in Nat
      /\ IF run[h] = Idle THEN settled = tables ELSE SoFar(run[h])
  BY DEF OneByOne
<1>a. \A x \in Handler : x = h
  OBVIOUS
<1>b. PICK u : u = run'[h]
  OBVIOUS
<1>1. CASE Continue(h)
  <2>1. run[h] # Idle
    BY <1>0, <1>1, ContinueRun DEF Idle
  <2>2. \/ InFlight(h) /\ SoFar(u)'
        \/ Returned(h) /\ (Serial!Next \/ UNCHANGED Serial!vars)
    BY <1>0, <1>1, <1>b, <2>1, CallsAddUp
  <2>3. overdue' = overdue /\ crashes' = crashes
    BY <1>1, Settling
  <2>4. CASE InFlight(h) /\ SoFar(u)'
    <3>1. settled' = settled /\ run'[h] # Idle
      BY <2>4 DEF InFlight
    <3>2. SoFar(run[h])'
      BY <1>b, <2>4, SoFarNow
    <3>3. SettledOK'
      BY <1>0, <3>1 DEF SettledOK
    <3>4. OneByOne'
      BY <1>0, <1>a, <2>3, <3>1, <3>2, <3>3 DEF OneByOne
    <3>5. UNCHANGED Serial!vars
      BY <2>3, <3>1 DEF Serial!vars, Serial!rows, Serial!limits, Serial!jobs, Serial!score
    <3>6. QED BY <3>4, <3>5
  <2>5. CASE Returned(h) /\ (Serial!Next \/ UNCHANGED Serial!vars)
    <3>1. run'[h] = Idle /\ settled' = tables'
      BY <2>5 DEF Returned
    <3>2. /\ settled'[1] \in [Challenge -> ChallengeRow]
          /\ settled'[2] \in [Challenge -> MatchRow]
          /\ settled'[3] \in [Proposal -> ProposalRow]
          /\ settled'[4] \in [Challenge -> ReportRow]
          /\ settled'[5] \in [Challenge -> {"none", "OPEN", "RESOLVED"}]
      BY <3>1, SettlesAt DEF HandlersTypeOK, TypeOK
    <3>3. SettledOK'
      BY <1>0, <2>5, <3>2, SerialKeeps
    <3>4. OneByOne'
      BY <1>0, <1>a, <2>3, <3>1, <3>3 DEF OneByOne
    <3>5. QED BY <2>5, <3>4
  <2>6. QED BY <2>2, <2>4, <2>5
<1>2. ASSUME NEW c \in Challenge,
             \/ StartJob(h, c)
             \/ StartAdmin(h, c)
             \/ \E p \in Player : PlayerStarts(h, c, p)
      PROVE  OneByOne' /\ [Serial!Next]_(Serial!vars)
  <2>1. run[h] = Idle /\ UNCHANGED vars
    BY <1>2 DEF StartJob, StartAdmin, PlayerStarts, StartChallenge, StartSchedule,
                StartResult, Start
  <2>2. SoFar(u)' /\ settled' = settled /\ overdue' = overdue /\ crashes' = crashes
    BY <1>0, <1>2, <1>b, <2>1, StartsSoFar
  <2>3. SoFar(run[h])'
    BY <1>b, <2>2, SoFarNow
  <2>4. settled' = tables'
    BY <1>0, <2>1, <2>2 DEF tables, vars, rows, limits, jobs, score
  <2>5. SettledOK'
    BY <1>0, <2>2 DEF SettledOK
  <2>6. OneByOne'
    BY <1>0, <1>a, <2>2, <2>3, <2>4, <2>5 DEF OneByOne
  <2>7. UNCHANGED Serial!vars
    BY <2>2 DEF Serial!vars, Serial!rows, Serial!limits, Serial!jobs, Serial!score
  <2>8. QED BY <2>6, <2>7
<1>3. ASSUME UNCHANGED <<tables, run, settled, crashes>>, overdue \subseteq overdue'
      PROVE  OneByOne'
  <2>1. IF run'[h] = Idle THEN settled' = tables' ELSE SoFar(u)'
    <3>1. CASE run[h] = Idle
      BY <1>0, <1>3, <3>1
    <3>2. CASE run[h] # Idle
      <4>1. u = run[h] /\ SoFar(u)
        BY <1>0, <1>3, <1>b, <3>2
      <4>2. SoFar(u)'
        BY <1>3, <4>1, SoFarStays
      <4>3. QED BY <1>3, <3>2, <4>2
    <3>3. QED BY <3>1, <3>2
  <2>2. IF run'[h] = Idle THEN settled' = tables' ELSE SoFar(run[h])'
    BY <1>b, <2>1, SoFarNow
  <2>3. SettledOK'
    BY <1>0, <1>3 DEF SettledOK
  <2>4. QED BY <1>0, <1>a, <1>3, <2>2, <2>3 DEF OneByOne
<1>4. ASSUME NEW c \in Challenge, Wait(c)
      PROVE  OneByOne' /\ [Serial!Next]_(Serial!vars)
  <2>1. /\ UNCHANGED <<tables, run, settled, crashes>> /\ overdue' = overdue \cup {c}
        /\ c \notin overdue /\ challenge[c].status # "none" /\ ~Running("create", c)
    BY <1>4 DEF Wait, PassExpiry, tables, rows, limits, score
  <2>2. OneByOne'
    BY <1>3, <2>1
  <2>3. settled[1][c].status # "none"
    <3>1. CASE run[h] = Idle
      BY <1>0, <2>1, <3>1 DEF tables
    <3>2. CASE run[h] # Idle
      <4>1. PICK t : t = run[h]
        OBVIOUS
      <4>2. SoFar(t) /\ ~(t.op = "create" /\ t.c = c)
        BY <1>0, <2>1, <3>2, <4>1 DEF Running
      <4>3. QED BY <1>0, <2>1, <4>2, ChallengeKnown
    <3>3. QED BY <3>1, <3>2
  <2>4. Serial!PassExpiry(c)
    BY <2>1, <2>3 DEF Serial!PassExpiry, Serial!rows, Serial!limits, Serial!score
  <2>5. QED BY <2>2, <2>4 DEF Serial!Next
<1>5. ~Die
  BY <1>0 DEF Die
<1>6. CASE UNCHANGED handlerVars
  <2>1. UNCHANGED <<tables, run, settled, crashes>> /\ overdue' = overdue
    BY <1>6 DEF handlerVars, vars, rows, limits, jobs, score, tables
  <2>2. UNCHANGED Serial!vars
    BY <2>1 DEF Serial!vars, Serial!rows, Serial!limits, Serial!jobs, Serial!score
  <2>3. QED BY <1>3, <2>1, <2>2
<1>7. QED BY <1>a, <1>1, <1>2, <1>4, <1>5, <1>6 DEF NextHandlers

LEMMA OneByOneInit == InitHandlers => OneByOne /\ Serial!Init
<1> SUFFICES ASSUME InitHandlers PROVE OneByOne /\ Serial!Init
  OBVIOUS
<1>1. HandlersTypeOK
  BY HandlersTypeInit
<1>2. settled = tables /\ crashes = 0 /\ \A h \in Handler : run[h] = Idle
  BY DEF InitHandlers
<1>3. /\ settled[1] = challenge /\ settled[2] = match /\ settled[3] = proposal
      /\ settled[4] = report /\ settled[5] = dispute /\ settled[6] = points
      /\ settled[7] = sent /\ settled[8] = accepted /\ settled[9] = challengeJobs
      /\ settled[10] = scheduleJobs /\ settled[11] = awards
  BY <1>2 DEF tables
<1>4. \A c \in Challenge : match[c].status = "none" /\ dispute[c] = "none"
                           /\ report[c].status = "none"
  BY DEF InitHandlers, Init
<1>5. SettledOK
  BY <1>1, <1>3, <1>4 DEF SettledOK, HandlersTypeOK, TypeOK
<1>6. OneByOne
  BY <1>2, <1>5 DEF OneByOne
<1>7. Serial!Init
  BY <1>3 DEF InitHandlers, Init, Serial!Init
<1>8. QED BY <1>6, <1>7

(* With one handler in flight at a time and no crash, the calls of each     *)
(* handler, its early returns, its exceptions and a queue that throws add   *)
(* up to one step of MatchLifecycle taken when it returns, or to none.      *)
THEOREM SerialHandlersImplement ==
    ASSUME NEW h, Handler = {h}, MaxCrashes = 0
    PROVE  HandlersSpec => ImplementsLifecycle
<1>1. InitHandlers => OneByOne /\ Serial!Init
  BY OneByOneInit
<1>2. HandlersTypeOK /\ HandlersTypeOK' /\ OneByOne /\ [NextHandlers]_handlerVars
         => OneByOne' /\ [Serial!Next]_(Serial!vars)
  BY OneByOneStep
<1>3. HandlersSpec => []HandlersTypeOK
  BY HandlersTyped
<1>4. QED BY <1>1, <1>2, <1>3, PTL DEF HandlersSpec, ImplementsLifecycle, Serial!Spec
===============================================================================
