--------------------------- MODULE MatchLifecycle ---------------------------
(***************************************************************************)
(* The tennis ladder of src/src/modules/tenis: a challenge, the match it   *)
(* turns into, the schedule proposals, the result report and the dispute.  *)
(* One action is one handler (a service method with every call it makes),  *)
(* run from its first read to its last write with no other handler in      *)
(* between: the promise each handler was written to keep.                  *)
(*                                                                         *)
(* Matches, reports and disputes are indexed by challenge: their tables    *)
(* carry UNIQUE (challenge_id) and UNIQUE (match_id) constraints.          *)
(***************************************************************************)
EXTENDS Integers, FiniteSets

CONSTANTS
    Player,     \* player ids, numbered in their ORDER BY player_id order
    Challenge,  \* challenge ids the database can hand out
    Proposal,   \* schedule proposal ids the database can hand out
    None,       \* a NULL column
    MaxRankDiff,\* 10 in the code
    Admin,      \* the admin commands in use
    Queue,      \* "on", "off" (feature flags) or "flaky" (queue.add may throw)
    MaxAwards   \* bound on how often one match may award points

AdminCommand == {"cancha", "walkover", "disputa", "cancelar"}

ASSUME PlayerAssumption == Player \subseteq Nat /\ IsFiniteSet(Player)
ASSUME NoneAssumption == None \notin Player \cup Challenge \cup Proposal
ASSUME ParameterAssumption ==
    /\ MaxRankDiff \in Nat
    /\ Admin \subseteq AdminCommand
    /\ Queue \in {"on", "off", "flaky"}
    /\ MaxAwards \in Nat

VARIABLES
    challenge,      \* tenis_challenges
    match,          \* tenis_matches, by challenge
    proposal,       \* tenis_schedule_proposals with their options
    report,         \* tenis_result_reports, by challenge
    dispute,        \* tenis_disputes, by challenge
    points,         \* tenis_player_stats.points
    sent, accepted, \* tenis_monthly_limits of the current period
    overdue,        \* challenges whose expires_at has passed
    challengeJobs,  \* delayed jobs of queue tenis-expire-challenge
    scheduleJobs,   \* delayed jobs of queue tenis-expire-schedule
    awards          \* history: how often a match has awarded points

rows == <<challenge, match, proposal, report, dispute>>
limits == <<sent, accepted>>
jobs == <<overdue, challengeJobs, scheduleJobs>>
score == <<points, awards>>
vars == <<rows, limits, jobs, score>>

ChallengeStatus == {"PENDING", "ACCEPTED", "REJECTED", "EXPIRED"}
MatchStatus == {"PENDING_SCHEDULE", "SCHEDULED", "PENDING_RESULT_CONFIRMATION",
                "DISPUTED", "CLOSED", "CANCELLED"}

(* A row that has not been inserted yet has status "none". *)
ChallengeRow == [status : ChallengeStatus \cup {"none"},
                 challenger : Player \cup {None},
                 challenged : Player \cup {None},
                 rankDiff : Nat]
MatchRow == [status : MatchStatus \cup {"none"}, selected : Proposal \cup {None}]
ProposalRow == [status : {"none", "OPEN", "SELECTED", "REPLACED"},
                match : Challenge \cup {None}]
ReportRow == [status : {"none", "PENDING_CONFIRMATION", "CONFIRMED", "REJECTED"},
              reporter : Player \cup {None},
              confirmer : Player \cup {None}]

(* The one type invariant: every row has the columns its entity declares. *)
TypeOK ==
    /\ challenge \in [Challenge -> ChallengeRow]
    /\ match \in [Challenge -> MatchRow]
    /\ proposal \in [Proposal -> ProposalRow]
    /\ report \in [Challenge -> ReportRow]
    /\ dispute \in [Challenge -> {"none", "OPEN", "RESOLVED"}]
    /\ points \in [Player -> Nat]
    /\ sent \in [Player -> Nat]
    /\ accepted \in [Player -> Nat]
    /\ overdue \subseteq Challenge
    /\ challengeJobs \subseteq Challenge
    /\ scheduleJobs \subseteq Challenge
    /\ awards \in [Challenge -> Nat]

Init ==
    /\ challenge = [c \in Challenge |-> [status |-> "none", challenger |-> None,
                                         challenged |-> None, rankDiff |-> 0]]
    /\ match = [c \in Challenge |-> [status |-> "none", selected |-> None]]
    /\ proposal = [o \in Proposal |-> [status |-> "none", match |-> None]]
    /\ report = [c \in Challenge |-> [status |-> "none", reporter |-> None,
                                      confirmer |-> None]]
    /\ dispute = [c \in Challenge |-> "none"]
    /\ points = [p \in Player |-> 0]
    /\ sent = [p \in Player |-> 0]
    /\ accepted = [p \in Player |-> 0]
    /\ overdue = {}
    /\ challengeJobs = {}
    /\ scheduleJobs = {}
    /\ awards = [c \in Challenge |-> 0]

-----------------------------------------------------------------------------
(* Ranking                                                                 *)

(* recalculateRanking orders by points DESC, player_id ASC; a rank is a    *)
(* 1-based position in that order.                                         *)
Rank(p) == 1 + Cardinality({q \in Player : \/ points[q] > points[p]
                                           \/ points[q] = points[p] /\ q < p})

(* Mutation: the difference without Math.abs. *)
SignedRankGap(p, q) == Rank(p) - Rank(q)

RankGap(p, q) == IF Rank(p) >= Rank(q) THEN Rank(p) - Rank(q) ELSE Rank(q) - Rank(p)

WinnerPoints(diff) == 125 + 5 * diff
LoserPoints == 25

(* Mutation: the ranks of the moment in place of the snapshot. *)
AwardByCurrentRanks(c, winner, loser) ==
    /\ points' = [points EXCEPT ![winner] = @ + WinnerPoints(RankGap(winner, loser)),
                                ![loser] = @ + LoserPoints]
    /\ awards' = [awards EXCEPT ![c] = @ + 1]

(* applyMatchPoints, on the rank snapshot taken at acceptance. The winner  *)
(* and the loser are two players in every caller.                          *)
AwardPoints(c, winner, loser) ==
    /\ points' = [p \in Player |->
                    points[p] + CASE p = winner -> WinnerPoints(challenge[c].rankDiff)
                                  [] p = loser  -> LoserPoints
                                  [] OTHER      -> 0]
    /\ awards' = [awards EXCEPT ![c] = @ + 1]

Opponent(c, p) == IF challenge[c].challenger = p THEN challenge[c].challenged
                                                 ELSE challenge[c].challenger

(* Mutation: a jobId that does not name the challenge, so that the queue   *)
(* ignores a second job.                                                   *)
EnqueueSharedId(pending, c) == IF pending = {} THEN {{c}} ELSE {pending}

(* scheduleExpire of either job: nothing without a queue; queue.add may    *)
(* throw, and the rows its caller has already saved stay.                  *)
Enqueue(pending, c) ==
    CASE Queue = "on"    -> {pending \cup {c}}
      [] Queue = "off"   -> {pending}
      [] Queue = "flaky" -> {pending, pending \cup {c}}

-----------------------------------------------------------------------------
(* Challenges                                                              *)

CreateChallenge(c, p, q) ==
    /\ challenge[c].status = "none"
    /\ p # q
    /\ RankGap(p, q) <= MaxRankDiff
    /\ challenge' = [challenge EXCEPT ![c] = [status |-> "PENDING", challenger |-> p,
                                              challenged |-> q, rankDiff |-> 0]]
    /\ sent' = [sent EXCEPT ![p] = @ + 1]
    /\ challengeJobs' \in Enqueue(challengeJobs, c)
    /\ UNCHANGED <<match, proposal, report, dispute, accepted, overdue,
                   scheduleJobs, score>>

(* Accepting does not look at expires_at: a challenge that is overdue but  *)
(* not yet expired by its job can still be accepted.                       *)
AcceptChallenge(c, q) ==
    /\ challenge[c].status = "PENDING"
    /\ challenge[c].challenged = q
    /\ challenge' = [challenge EXCEPT
                        ![c].status = "ACCEPTED",
                        ![c].rankDiff = RankGap(challenge[c].challenger, q)]
    /\ accepted' = [accepted EXCEPT ![q] = @ + 1]
    /\ match' = [match EXCEPT ![c].status = "PENDING_SCHEDULE"]
    /\ scheduleJobs' \in Enqueue(scheduleJobs, c)
    /\ UNCHANGED <<proposal, report, dispute, sent, overdue, challengeJobs, score>>

(* Mutation: any challenge of the player can be rejected. *)
RejectAnyChallenge(c, q) ==
    /\ challenge[c].challenged = q
    /\ challenge' = [challenge EXCEPT ![c].status = "REJECTED"]
    /\ UNCHANGED <<match, proposal, report, dispute, limits, jobs, score>>

(* Mutation: the answer is counted before it is known to be an acceptance. *)
RejectCounted(c, q) ==
    /\ challenge[c].status = "PENDING"
    /\ challenge[c].challenged = q
    /\ challenge' = [challenge EXCEPT ![c].status = "REJECTED"]
    /\ accepted' = [accepted EXCEPT ![q] = @ + 1]
    /\ UNCHANGED <<match, proposal, report, dispute, sent, jobs, score>>

RejectChallenge(c, q) ==
    /\ challenge[c].status = "PENDING"
    /\ challenge[c].challenged = q
    /\ challenge' = [challenge EXCEPT ![c].status = "REJECTED"]
    /\ UNCHANGED <<match, proposal, report, dispute, limits, jobs, score>>

(* 48 hours pass: now >= expires_at from here on. *)
PassExpiry(c) ==
    /\ challenge[c].status # "none"
    /\ c \notin overdue
    /\ overdue' = overdue \cup {c}
    /\ UNCHANGED <<rows, limits, challengeJobs, scheduleJobs, score>>

(* Mutation: a job without its delay, which finds now < expires_at. *)
ExpireChallengeEarly(c) ==
    /\ c \in challengeJobs
    /\ challengeJobs' = challengeJobs \ {c}
    /\ challenge' = IF challenge[c].status = "PENDING" /\ c \in overdue
                    THEN [challenge EXCEPT ![c].status = "EXPIRED"]
                    ELSE challenge
    /\ UNCHANGED <<match, proposal, report, dispute, limits, overdue,
                   scheduleJobs, score>>

(* The queue delivers the job once its delay, which ends at expires_at, is *)
(* over; the handler re-reads the challenge and leaves a decided one alone.*)
ExpireChallenge(c) ==
    /\ c \in challengeJobs
    /\ c \in overdue
    /\ challengeJobs' = challengeJobs \ {c}
    /\ challenge' = IF challenge[c].status = "PENDING"
                    THEN [challenge EXCEPT ![c].status = "EXPIRED"]
                    ELSE challenge
    /\ UNCHANGED <<match, proposal, report, dispute, limits, overdue,
                   scheduleJobs, score>>

-----------------------------------------------------------------------------
(* Schedule                                                                *)

(* Mutation: a match takes proposals whatever its status. *)
ProposeAnytime(c, p, o) ==
    /\ match[c].status # "none"
    /\ challenge[c].challenger = p
    /\ proposal[o].status = "none"
    /\ proposal' = [proposal EXCEPT ![o] = [status |-> "OPEN", match |-> c]]
    /\ UNCHANGED <<challenge, match, report, dispute, limits, jobs, score>>

(* A proposal carries one to three options; an option is identified with   *)
(* the proposal it belongs to.                                             *)
ProposeSchedule(c, p, o) ==
    /\ match[c].status = "PENDING_SCHEDULE"
    /\ challenge[c].challenger = p
    /\ proposal[o].status = "none"
    /\ proposal' = [proposal EXCEPT ![o] = [status |-> "OPEN", match |-> c]]
    /\ UNCHANGED <<challenge, match, report, dispute, limits, jobs, score>>

(* Any earlier proposal's option may be picked, whatever its status; the   *)
(* selector is only required not to be the challenger.                     *)
SelectOption(o, q) ==
    LET c == proposal[o].match IN
    /\ proposal[o].status # "none"
    /\ challenge[c].challenger # q
    /\ match[c].status = "PENDING_SCHEDULE"
    /\ match' = [match EXCEPT ![c] = [status |-> "SCHEDULED", selected |-> o]]
    /\ proposal' = [x \in Proposal |->
                      CASE x = o -> [proposal[x] EXCEPT !.status = "SELECTED"]
                        [] x # o /\ proposal[x].match = c /\ proposal[x].status = "OPEN"
                             -> [proposal[x] EXCEPT !.status = "REPLACED"]
                        [] OTHER -> proposal[x]]
    /\ UNCHANGED <<challenge, report, dispute, limits, jobs, score>>

(* Mutation: the job cancels the match without looking at its status. *)
ExpireAnySchedule(c) ==
    /\ c \in scheduleJobs
    /\ scheduleJobs' = scheduleJobs \ {c}
    /\ match' = [match EXCEPT ![c].status = "CANCELLED"]
    /\ UNCHANGED <<challenge, proposal, report, dispute, limits, overdue,
                   challengeJobs, score>>

(* Runs 48 hours after the match was created; only its status is checked.  *)
ExpireSchedule(c) ==
    /\ c \in scheduleJobs
    /\ scheduleJobs' = scheduleJobs \ {c}
    /\ match' = IF match[c].status = "PENDING_SCHEDULE"
                THEN [match EXCEPT ![c].status = "CANCELLED"]
                ELSE match
    /\ UNCHANGED <<challenge, proposal, report, dispute, limits, overdue,
                   challengeJobs, score>>

-----------------------------------------------------------------------------
(* Results                                                                 *)

(* The insert violates UNIQUE (match_id) when the match has a report that  *)
(* is already decided: the handler throws before it changes anything.      *)
ReportResult(c, p) ==
    /\ match[c].status = "SCHEDULED"
    /\ p \in {challenge[c].challenger, challenge[c].challenged}
    /\ report[c].status = "none"
    /\ report' = [report EXCEPT ![c] = [status |-> "PENDING_CONFIRMATION",
                                        reporter |-> p, confirmer |-> None]]
    /\ match' = [match EXCEPT ![c].status = "PENDING_RESULT_CONFIRMATION"]
    /\ UNCHANGED <<challenge, proposal, dispute, limits, jobs, score>>

(* Mutation: a report that is decided already can be confirmed. *)
ConfirmAnyReport(c, q) ==
    /\ report[c].status # "none"
    /\ report[c].reporter # q
    /\ report' = [report EXCEPT ![c].status = "CONFIRMED", ![c].confirmer = q]
    /\ match' = [match EXCEPT ![c].status = "CLOSED"]
    /\ awards[c] < 2
    /\ AwardPoints(c, report[c].reporter, q)
    /\ UNCHANGED <<challenge, proposal, dispute, limits, jobs>>

(* Neither handler looks at the status of the match, and the player is     *)
(* only required not to be the reporter.                                   *)
ConfirmResult(c, q) ==
    /\ report[c].status = "PENDING_CONFIRMATION"
    /\ report[c].reporter # q
    /\ report' = [report EXCEPT ![c].status = "CONFIRMED", ![c].confirmer = q]
    /\ match' = [match EXCEPT ![c].status = "CLOSED"]
    /\ AwardPoints(c, report[c].reporter, q)
    /\ UNCHANGED <<challenge, proposal, dispute, limits, jobs>>

(* Mutation: a report that is decided already can be rejected. *)
RejectAnyReport(c, q) ==
    /\ report[c].status # "none"
    /\ report[c].reporter # q
    /\ report' = [report EXCEPT ![c].status = "REJECTED"]
    /\ match' = [match EXCEPT ![c].status = "DISPUTED"]
    /\ dispute' = [dispute EXCEPT ![c] = "OPEN"]
    /\ UNCHANGED <<challenge, proposal, limits, jobs, score>>

RejectResult(c, q) ==
    /\ report[c].status = "PENDING_CONFIRMATION"
    /\ report[c].reporter # q
    /\ report' = [report EXCEPT ![c].status = "REJECTED"]
    /\ match' = [match EXCEPT ![c].status = "DISPUTED"]
    /\ dispute' = [dispute EXCEPT ![c] = "OPEN"]
    /\ UNCHANGED <<challenge, proposal, limits, jobs, score>>

-----------------------------------------------------------------------------
(* Admin commands: none of them looks at the status of the match           *)

(* /cancha ok *)
ConfirmCourt(c) ==
    /\ "cancha" \in Admin
    /\ match[c].status # "none"
    /\ match' = [match EXCEPT ![c].status = "SCHEDULED"]
    /\ UNCHANGED <<challenge, proposal, report, dispute, limits, jobs, score>>

(* Mutation: a walkover that awards no points. *)
WalkoverUnscored(c, winner) ==
    /\ "walkover" \in Admin
    /\ match[c].status # "none"
    /\ match' = [match EXCEPT ![c].status = "CLOSED"]
    /\ UNCHANGED <<challenge, proposal, report, dispute, limits, jobs, score>>

(* /walkover: the winner is any registered player *)
ApplyWalkover(c, winner) ==
    /\ "walkover" \in Admin
    /\ match[c].status # "none"
    /\ awards[c] < MaxAwards
    /\ AwardPoints(c, winner, Opponent(c, winner))
    /\ match' = [match EXCEPT ![c].status = "CLOSED"]
    /\ UNCHANGED <<challenge, proposal, report, dispute, limits, jobs>>

(* /disputa resolver: the reporter wins, whatever the score says *)
ResolveDispute(c) ==
    LET winner == report[c].reporter
        loser == Opponent(c, winner) IN
    /\ "disputa" \in Admin
    /\ report[c].status # "none"
    /\ awards[c] < MaxAwards
    /\ report' = [report EXCEPT ![c].status = "CONFIRMED", ![c].confirmer = loser]
    /\ match' = [match EXCEPT ![c].status = "CLOSED"]
    /\ dispute' = IF dispute[c] = "none" THEN dispute
                                         ELSE [dispute EXCEPT ![c] = "RESOLVED"]
    /\ AwardPoints(c, winner, loser)
    /\ UNCHANGED <<challenge, proposal, limits, jobs>>

(* /match cancelar *)
CancelMatch(c) ==
    /\ "cancelar" \in Admin
    /\ match[c].status # "none"
    /\ match' = [match EXCEPT ![c].status = "CANCELLED"]
    /\ UNCHANGED <<challenge, proposal, report, dispute, limits, jobs, score>>

-----------------------------------------------------------------------------
PlayerStep(c, p) ==
    \/ \E q \in Player : CreateChallenge(c, p, q)
    \/ AcceptChallenge(c, p)
    \/ RejectChallenge(c, p)
    \/ \E o \in Proposal : ProposeSchedule(c, p, o)
    \/ ReportResult(c, p)
    \/ ConfirmResult(c, p)
    \/ RejectResult(c, p)

AdminStep(c) ==
    \/ ConfirmCourt(c)
    \/ \E p \in Player : ApplyWalkover(c, p)
    \/ ResolveDispute(c)
    \/ CancelMatch(c)

JobStep(c) == ExpireChallenge(c) \/ ExpireSchedule(c)

Next ==
    \/ \E c \in Challenge, p \in Player : PlayerStep(c, p)
    \/ \E o \in Proposal, p \in Player : SelectOption(o, p)
    \/ \E c \in Challenge : PassExpiry(c) \/ JobStep(c) \/ AdminStep(c)

Spec == Init /\ [][Next]_vars

(* Time passes and BullMQ's workers, which live in the same process, keep  *)
(* taking the jobs that are due. Nothing makes a player or an admin act.   *)
FairSpec ==
    /\ Spec
    /\ \A c \in Challenge : WF_vars(PassExpiry(c)) /\ WF_vars(JobStep(c))

-----------------------------------------------------------------------------
(* Properties that hold whatever the admins do                             *)

(* The rows of a challenge come in order: it has a match exactly when it   *)
(* was accepted, a report only with a match and a dispute only with a      *)
(* report, although the handlers that insert them never look back further  *)
(* than one row.                                                           *)
RowsInOrder ==
    \A c \in Challenge :
        /\ match[c].status # "none" <=> challenge[c].status = "ACCEPTED"
        /\ report[c].status # "none" => match[c].status # "none"
        /\ dispute[c] # "none" => report[c].status # "none"

(* A dispute is open exactly while the report it is about stands rejected, *)
(* and a resolved dispute has a confirmed report: rejectResult and         *)
(* resolveDispute write the report, the match and the dispute together.    *)
DisputeTracksReport ==
    \A c \in Challenge :
        /\ dispute[c] = "OPEN" <=> report[c].status = "REJECTED"
        /\ dispute[c] = "RESOLVED" => report[c].status = "CONFIRMED"

(* A closed match has awarded points: each of the three handlers that      *)
(* close a match calls applyMatchPoints.                                   *)
ClosedWasAwarded ==
    \A c \in Challenge : match[c].status = "CLOSED" => awards[c] >= 1

(* Until an option of a match is selected every proposal of the match is  *)
(* open; from then on its proposal is the only SELECTED one, none is OPEN, *)
(* and the match has left PENDING_SCHEDULE for good (proposeSchedule and   *)
(* selectOption race on the same rows).                                    *)
SelectionSettled ==
    /\ \A o \in Proposal : proposal[o].status = "none" <=> proposal[o].match = None
    /\ \A c \in Challenge :
         LET chosen == match[c].selected IN
         IF chosen = None
         THEN \A o \in Proposal : proposal[o].match = c => proposal[o].status = "OPEN"
         ELSE /\ match[c].status \notin {"none", "PENDING_SCHEDULE"}
              /\ proposal[chosen].match = c
              /\ \A o \in Proposal : proposal[o].match = c =>
                    proposal[o].status = IF o = chosen THEN "SELECTED" ELSE "REPLACED"

(* The monthly counters count the rows: sent_count the challenges a player *)
(* has sent, accepted_count those accepted, also when queue.add throws.    *)
LimitsCountRows ==
    \A p \in Player :
        /\ sent[p] = Cardinality({c \in Challenge : challenge[c].challenger = p})
        /\ accepted[p] = Cardinality({c \in Challenge : /\ challenge[c].challenged = p
                                                        /\ challenge[c].status = "ACCEPTED"})

(* A decided challenge keeps its status and its rank snapshot, so later    *)
(* points use the ranks of the moment of acceptance; a confirmed report is *)
(* never rejected or reopened, and a report never changes author.          *)
KeepsDecisions ==
    \A c \in Challenge :
        /\ challenge[c].status \in ChallengeStatus \ {"PENDING"}
              => challenge'[c] = challenge[c]
        /\ report[c].status = "CONFIRMED" => report'[c].status = "CONFIRMED"
        /\ report[c].status # "none" => report'[c].reporter = report[c].reporter

DecisionsStand == [][KeepsDecisions]_vars

-----------------------------------------------------------------------------
(* Properties of the players' own flow (Admin = {})                        *)

(* The report and the match tell the same story: a match waits for a       *)
(* confirmation, is closed or is disputed exactly when its report is       *)
(* pending, confirmed or rejected.                                         *)
ReportAgreesWithMatch ==
    \A c \in Challenge :
        /\ match[c].status = "PENDING_RESULT_CONFIRMATION"
              <=> report[c].status = "PENDING_CONFIRMATION"
        /\ match[c].status = "CLOSED" <=> report[c].status = "CONFIRMED"
        /\ match[c].status = "DISPUTED" <=> report[c].status = "REJECTED"

(* A match awards points exactly once, when it closes, and never otherwise.*)
AwardedOnceWhenClosed ==
    \A c \in Challenge : awards[c] = IF match[c].status = "CLOSED" THEN 1 ELSE 0

(* A player's points are what the closed matches explain: 125 for each one *)
(* won and 25 for each one lost, and 5 for each place of rank difference   *)
(* in one won, as it was at acceptance, whatever the ranks are by then.    *)
Won(p) == {c \in Challenge : match[c].status = "CLOSED" /\ report[c].reporter = p}
Lost(p) == {c \in Challenge : match[c].status = "CLOSED" /\ report[c].confirmer = p}
PlacesWon(p) == UNION {{c} \X (1..challenge[c].rankDiff) : c \in Won(p)}

PointsExplained ==
    \A p \in Player :
        points[p] = 125 * Cardinality(Won(p)) + 25 * Cardinality(Lost(p))
                      + 5 * Cardinality(PlacesWon(p))

(* A match that is over stays as it is: a late confirmation, rejection,    *)
(* selection or expiration job no longer finds it in the status it wants.  *)
KeepsFinished ==
    \A c \in Challenge :
        match[c].status \in {"CLOSED", "CANCELLED", "DISPUTED"} => match'[c] = match[c]

FinishedMatchStays == [][KeepsFinished]_vars

(* Every pending challenge and every match without a schedule still has    *)
(* its expiration job (Queue = "on"): a job is enqueued by the handler     *)
(* that creates the row and consumed only by leaving that status.          *)
WaitingHasJob ==
    \A c \in Challenge :
        /\ challenge[c].status = "PENDING" => c \in challengeJobs
        /\ match[c].status = "PENDING_SCHEDULE" => c \in scheduleJobs

(* With the queue on, no challenge waits for an answer forever and no      *)
(* match waits for a schedule forever, even if no player does anything.    *)
WaitingEnds ==
    \A c \in Challenge :
        /\ challenge[c].status = "PENDING" ~> challenge[c].status # "PENDING"
        /\ match[c].status = "PENDING_SCHEDULE" ~> match[c].status # "PENDING_SCHEDULE"
=============================================================================
