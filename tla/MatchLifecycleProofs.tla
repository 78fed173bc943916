------------------------ MODULE MatchLifecycleProofs ------------------------
(* Theorems of MatchLifecycle, for every ladder and every set of commands.  *)
EXTENDS MatchLifecycle, FiniteSetTheorems, TLAPS

(* A rank is a natural number.                                            *)
LEMMA RankType == ASSUME NEW p PROVE Rank(p) \in Nat
<1> DEFINE Above == {q \in Player : \/ points[q] > points[p]
                                    \/ points[q] = points[p] /\ q < p}
<1>1. IsFiniteSet(Above)
  BY PlayerAssumption, FS_Subset
<1>2. Cardinality(Above) \in Nat
  BY <1>1, FS_CardinalityType
<1> QED BY <1>2 DEF Rank

LEMMA RankGapType == ASSUME NEW p, NEW q PROVE RankGap(p, q) \in Nat
BY RankType DEF RankGap

(* scheduleExpire leaves a set of challenges behind.                        *)
LEMMA EnqueueType ==
    ASSUME NEW pending \in SUBSET Challenge, NEW c \in Challenge,
           NEW after \in Enqueue(pending, c)
    PROVE  after \subseteq Challenge
BY ParameterAssumption DEF Enqueue

(* Changing columns of one row keeps a table well typed.                   *)
LEMMA ChallengeUpdate ==
    ASSUME challenge \in [Challenge -> ChallengeRow], NEW c \in Challenge,
           NEW s \in ChallengeStatus, NEW d \in Nat
    PROVE  /\ [challenge EXCEPT ![c].status = s] \in [Challenge -> ChallengeRow]
           /\ [challenge EXCEPT ![c].status = s, ![c].rankDiff = d]
                 \in [Challenge -> ChallengeRow]
<1>1. challenge[c] \in ChallengeRow
  OBVIOUS
<1>2. /\ [challenge[c] EXCEPT !.status = s] \in ChallengeRow
      /\ [challenge[c] EXCEPT !.status = s, !.rankDiff = d] \in ChallengeRow
  BY <1>1 DEF ChallengeRow
<1>3. QED BY <1>2

LEMMA MatchUpdate ==
    ASSUME match \in [Challenge -> MatchRow], NEW c \in Challenge, NEW s \in MatchStatus
    PROVE  [match EXCEPT ![c].status = s] \in [Challenge -> MatchRow]
<1>1. [match[c] EXCEPT !.status = s] \in MatchRow
  BY DEF MatchRow
<1>2. QED BY <1>1

LEMMA ReportUpdate ==
    ASSUME report \in [Challenge -> ReportRow], NEW c \in Challenge,
           NEW s \in {"CONFIRMED", "REJECTED"}, NEW p \in Player \cup {None}
    PROVE  /\ [report EXCEPT ![c].status = s] \in [Challenge -> ReportRow]
           /\ [report EXCEPT ![c].status = s, ![c].confirmer = p] \in [Challenge -> ReportRow]
<1>1. /\ [report[c] EXCEPT !.status = s] \in ReportRow
      /\ [report[c] EXCEPT !.status = s, !.confirmer = p] \in ReportRow
  BY DEF ReportRow
<1>2. QED BY <1>1

(* The row sets are constants, so a handler may be checked table by table.  *)
LEMMA TypedAfter ==
    ASSUME challenge' \in [Challenge -> ChallengeRow],
           match' \in [Challenge -> MatchRow],
           proposal' \in [Proposal -> ProposalRow],
           report' \in [Challenge -> ReportRow],
           dispute' \in [Challenge -> {"none", "OPEN", "RESOLVED"}],
           points' \in [Player -> Nat], awards' \in [Challenge -> Nat],
           sent' \in [Player -> Nat], accepted' \in [Player -> Nat],
           overdue' \subseteq Challenge, challengeJobs' \subseteq Challenge,
           scheduleJobs' \subseteq Challenge
    PROVE  TypeOK'
BY DEF TypeOK, ChallengeRow, MatchRow, ProposalRow, ReportRow, ChallengeStatus, MatchStatus

(* Awarding points only makes counters grow.                                *)
LEMMA AwardType ==
    ASSUME TypeOK, NEW c \in Challenge, NEW w, NEW l, AwardPoints(c, w, l)
    PROVE  points' \in [Player -> Nat] /\ awards' \in [Challenge -> Nat]
<1>1. WinnerPoints(challenge[c].rankDiff) \in Nat /\ LoserPoints \in Nat
  BY DEF TypeOK, ChallengeRow, WinnerPoints, LoserPoints
<1>2. QED BY <1>1 DEF TypeOK, AwardPoints

(* A handler keeps every column in the values its entity declares.          *)
LEMMA TypeStep == TypeOK /\ [Next]_vars => TypeOK'
<1> USE DEF rows, limits, jobs, score
<1> SUFFICES ASSUME TypeOK, [Next]_vars PROVE TypeOK'
  OBVIOUS
<1>1. ASSUME NEW c \in Challenge, NEW p \in Player, NEW q \in Player,
             CreateChallenge(c, p, q)
      PROVE  TypeOK'
  <2>1. challengeJobs' \subseteq Challenge
    BY <1>1, EnqueueType DEF CreateChallenge, TypeOK
  <2>2. [status |-> "PENDING", challenger |-> p, challenged |-> q, rankDiff |-> 0]
           \in ChallengeRow
    BY DEF ChallengeRow, ChallengeStatus
  <2>3. QED BY <1>1, <2>1, <2>2, TypedAfter DEF CreateChallenge, TypeOK
<1>2. ASSUME NEW c \in Challenge, NEW q \in Player, AcceptChallenge(c, q)
      PROVE  TypeOK'
  <2>1. scheduleJobs' \subseteq Challenge
    BY <1>2, EnqueueType DEF AcceptChallenge, TypeOK
  <2>2. challenge' \in [Challenge -> ChallengeRow]
    BY <1>2, RankGapType, ChallengeUpdate DEF AcceptChallenge, TypeOK, ChallengeStatus
  <2>3. match' \in [Challenge -> MatchRow]
    BY <1>2, MatchUpdate DEF AcceptChallenge, TypeOK, MatchStatus
  <2>4. QED BY <1>2, <2>1, <2>2, <2>3, TypedAfter DEF AcceptChallenge, TypeOK
<1>3. ASSUME NEW c \in Challenge, NEW q \in Player, RejectChallenge(c, q)
      PROVE  TypeOK'
  <2>1. challenge' \in [Challenge -> ChallengeRow]
    BY <1>3, ChallengeUpdate DEF RejectChallenge, TypeOK, ChallengeStatus
  <2>2. QED BY <1>3, <2>1, TypedAfter DEF RejectChallenge, TypeOK
<1>4. ASSUME NEW c \in Challenge, PassExpiry(c) PROVE TypeOK'
  BY <1>4, TypedAfter DEF PassExpiry, TypeOK
<1>5. ASSUME NEW c \in Challenge, ExpireChallenge(c) PROVE TypeOK'
  <2>1. challenge' \in [Challenge -> ChallengeRow]
    BY <1>5, ChallengeUpdate DEF ExpireChallenge, TypeOK, ChallengeStatus
  <2>2. QED BY <1>5, <2>1, TypedAfter DEF ExpireChallenge, TypeOK
<1>6. ASSUME NEW c \in Challenge, NEW p \in Player, NEW o \in Proposal,
             ProposeSchedule(c, p, o)
      PROVE  TypeOK'
  <2>1. [status |-> "OPEN", match |-> c] \in ProposalRow
    BY DEF ProposalRow
  <2>2. QED BY <1>6, <2>1, TypedAfter DEF ProposeSchedule, TypeOK
<1>7. ASSUME NEW o \in Proposal, NEW q \in Player, SelectOption(o, q)
      PROVE  TypeOK'
  <2>1. [status |-> "SCHEDULED", selected |-> o] \in MatchRow
    BY DEF MatchRow, MatchStatus
  <2>2. \A x \in Proposal, s \in {"SELECTED", "REPLACED"} :
           [proposal[x] EXCEPT !.status = s] \in ProposalRow
    BY DEF TypeOK, ProposalRow
  <2>3. proposal' \in [Proposal -> ProposalRow]
    BY <1>7, <2>2 DEF SelectOption, TypeOK
  <2>4. QED BY <1>7, <2>1, <2>3, TypedAfter DEF SelectOption, TypeOK
<1>8. ASSUME NEW c \in Challenge, ExpireSchedule(c) PROVE TypeOK'
  <2>1. match' \in [Challenge -> MatchRow]
    BY <1>8, MatchUpdate DEF ExpireSchedule, TypeOK, MatchStatus
  <2>2. QED BY <1>8, <2>1, TypedAfter DEF ExpireSchedule, TypeOK
<1>9. ASSUME NEW c \in Challenge, NEW p \in Player, ReportResult(c, p)
      PROVE  TypeOK'
  <2>1. [status |-> "PENDING_CONFIRMATION", reporter |-> p, confirmer |-> None] \in
  ReportRow
    BY DEF ReportRow
  <2>2. match' \in [Challenge -> MatchRow]
    BY <1>9, MatchUpdate DEF ReportResult, TypeOK, MatchStatus
  <2>3. QED BY <1>9, <2>1, <2>2, TypedAfter DEF ReportResult, TypeOK
<1>10. ASSUME NEW c \in Challenge, NEW q \in Player, ConfirmResult(c, q)
       PROVE  TypeOK'
  <2>1. report' \in [Challenge -> ReportRow]
    BY <1>10, ReportUpdate DEF ConfirmResult, TypeOK
  <2>2. match' \in [Challenge -> MatchRow]
    BY <1>10, MatchUpdate DEF ConfirmResult, TypeOK, MatchStatus
  <2>3. QED BY <1>10, <2>1, <2>2, AwardType, TypedAfter DEF ConfirmResult, TypeOK
<1>11. ASSUME NEW c \in Challenge, NEW q \in Player, RejectResult(c, q)
       PROVE  TypeOK'
  <2>1. report' \in [Challenge -> ReportRow]
    BY <1>11, ReportUpdate DEF RejectResult, TypeOK
  <2>2. match' \in [Challenge -> MatchRow]
    BY <1>11, MatchUpdate DEF RejectResult, TypeOK, MatchStatus
  <2>3. QED BY <1>11, <2>1, <2>2, TypedAfter DEF RejectResult, TypeOK
<1>12. ASSUME NEW c \in Challenge, AdminStep(c) PROVE TypeOK'
  <2>1. match' \in [Challenge -> MatchRow]
    <3>1. PICK s \in MatchStatus : match' = [match EXCEPT ![c].status = s]
      BY <1>12 DEF AdminStep, ConfirmCourt, ApplyWalkover, ResolveDispute, CancelMatch,
                   MatchStatus
    <3>2. QED BY <3>1, MatchUpdate DEF TypeOK
  <2>2. CASE ConfirmCourt(c) \/ CancelMatch(c)
    BY <2>1, <2>2, TypedAfter DEF ConfirmCourt, CancelMatch, TypeOK
  <2>3. ASSUME NEW p \in Player, ApplyWalkover(c, p) PROVE TypeOK'
    BY <2>1, <2>3, AwardType, TypedAfter DEF ApplyWalkover, TypeOK
  <2>4. CASE ResolveDispute(c)
    <3>1. Opponent(c, report[c].reporter) \in Player \cup {None}
      BY DEF Opponent, TypeOK, ChallengeRow
    <3>2. report' \in [Challenge -> ReportRow]
      BY <2>4, <3>1, ReportUpdate DEF ResolveDispute, TypeOK
    <3>3. QED BY <2>1, <2>4, <3>2, AwardType, TypedAfter DEF ResolveDispute, TypeOK
  <2>5. QED BY <1>12, <2>2, <2>3, <2>4 DEF AdminStep
<1>13. CASE UNCHANGED vars
  BY <1>13, TypedAfter DEF vars, TypeOK
<1>14. QED
  BY <1>1, <1>2, <1>3, <1>4, <1>5, <1>6, <1>7, <1>8, <1>9, <1>10, <1>11, <1>12, <1>13
  DEF Next, PlayerStep, JobStep

(* Whatever the handlers do, every table keeps its columns.                 *)
THEOREM TypeCorrect == Spec => []TypeOK
<1>1. Init => TypeOK
  BY DEF Init, TypeOK, ChallengeRow, MatchRow, ProposalRow, ReportRow
<1>2. QED BY <1>1, TypeStep, PTL DEF Spec
-----------------------------------------------------------------------------
(* What holds whatever the admins do                                        *)

LadderInv == /\ TypeOK
             /\ RowsInOrder
             /\ DisputeTracksReport
             /\ ClosedWasAwarded
             /\ SelectionSettled

(* Only acceptChallenge makes a match, out of a PENDING challenge, and only *)
(* a match that is SCHEDULED gets a report.                                 *)
LEMMA RowsInOrderStep == LadderInv /\ [Next]_vars => RowsInOrder'
<1> SUFFICES ASSUME LadderInv, [Next]_vars PROVE RowsInOrder'
  OBVIOUS
<1> USE DEF RowsInOrder, TypeOK, ChallengeRow, MatchRow, ProposalRow, ReportRow, rows,
            limits, jobs, score, LadderInv
<1>1. ASSUME NEW c \in Challenge, NEW p \in Player, NEW q \in Player,
             CreateChallenge(c, p, q)
      PROVE  RowsInOrder'
  BY <1>1 DEF CreateChallenge
<1>2. ASSUME NEW c \in Challenge, NEW p \in Player, AcceptChallenge(c, p)
      PROVE  RowsInOrder'
  BY <1>2 DEF AcceptChallenge
<1>3. ASSUME NEW c \in Challenge, NEW p \in Player, RejectChallenge(c, p)
      PROVE  RowsInOrder'
  BY <1>3 DEF RejectChallenge
<1>4. ASSUME NEW c \in Challenge, NEW p \in Player, NEW o \in Proposal,
             ProposeSchedule(c, p, o)
      PROVE  RowsInOrder'
  BY <1>4 DEF ProposeSchedule
<1>5. ASSUME NEW o \in Proposal, NEW p \in Player, SelectOption(o, p)
      PROVE  RowsInOrder'
  BY <1>5 DEF SelectOption
<1>6. ASSUME NEW c \in Challenge, NEW p \in Player, ReportResult(c, p)
      PROVE  RowsInOrder'
  BY <1>6 DEF ReportResult
<1>7. ASSUME NEW c \in Challenge, NEW p \in Player, ConfirmResult(c, p)
      PROVE  RowsInOrder'
  BY <1>7 DEF ConfirmResult, AwardPoints
<1>8. ASSUME NEW c \in Challenge, NEW p \in Player, RejectResult(c, p)
      PROVE  RowsInOrder'
  BY <1>8 DEF RejectResult
<1>9. ASSUME NEW c \in Challenge, PassExpiry(c)
      PROVE  RowsInOrder'
  BY <1>9 DEF PassExpiry
<1>10. ASSUME NEW c \in Challenge, ExpireChallenge(c)
      PROVE  RowsInOrder'
  BY <1>10 DEF ExpireChallenge
<1>11. ASSUME NEW c \in Challenge, ExpireSchedule(c)
      PROVE  RowsInOrder'
  BY <1>11 DEF ExpireSchedule
<1>12. ASSUME NEW c \in Challenge, ConfirmCourt(c)
      PROVE  RowsInOrder'
  BY <1>12 DEF ConfirmCourt
<1>13. ASSUME NEW c \in Challenge, NEW p \in Player, ApplyWalkover(c, p)
      PROVE  RowsInOrder'
  BY <1>13 DEF ApplyWalkover, AwardPoints
<1>14. ASSUME NEW c \in Challenge, ResolveDispute(c)
      PROVE  RowsInOrder'
  BY <1>14 DEF ResolveDispute, AwardPoints
<1>15. ASSUME NEW c \in Challenge, CancelMatch(c)
      PROVE  RowsInOrder'
  BY <1>15 DEF CancelMatch
<1>16. CASE UNCHANGED vars
  BY <1>16 DEF vars
<1>17. QED
  BY <1>1, <1>2, <1>3, <1>4, <1>5, <1>6, <1>7, <1>8, <1>9, <1>10, <1>11, <1>12, <1>13,
     <1>14, <1>15, <1>16
  DEF Next, PlayerStep, JobStep, AdminStep

(* A dispute opens with the rejection of its report and is resolved with    *)
(* the confirmation of it; a report that is rejected is otherwise left alone*)
(* because confirmResult and rejectResult ask for a pending one.            *)
LEMMA DisputeStep == LadderInv /\ [Next]_vars => DisputeTracksReport'
<1> SUFFICES ASSUME LadderInv, [Next]_vars PROVE DisputeTracksReport'
  OBVIOUS
<1> USE DEF RowsInOrder, DisputeTracksReport, TypeOK, ChallengeRow, MatchRow, ProposalRow,
            ReportRow, rows, limits, jobs, score, LadderInv
<1>1. ASSUME NEW c \in Challenge, NEW p \in Player, NEW q \in Player,
             CreateChallenge(c, p, q)
      PROVE  DisputeTracksReport'
  BY <1>1 DEF CreateChallenge
<1>2. ASSUME NEW c \in Challenge, NEW p \in Player, AcceptChallenge(c, p)
      PROVE  DisputeTracksReport'
  BY <1>2 DEF AcceptChallenge
<1>3. ASSUME NEW c \in Challenge, NEW p \in Player, RejectChallenge(c, p)
      PROVE  DisputeTracksReport'
  BY <1>3 DEF RejectChallenge
<1>4. ASSUME NEW c \in Challenge, NEW p \in Player, NEW o \in Proposal,
             ProposeSchedule(c, p, o)
      PROVE  DisputeTracksReport'
  BY <1>4 DEF ProposeSchedule
<1>5. ASSUME NEW o \in Proposal, NEW p \in Player, SelectOption(o, p)
      PROVE  DisputeTracksReport'
  BY <1>5 DEF SelectOption
<1>6. ASSUME NEW c \in Challenge, NEW p \in Player, ReportResult(c, p)
      PROVE  DisputeTracksReport'
  BY <1>6 DEF ReportResult
<1>7. ASSUME NEW c \in Challenge, NEW p \in Player, ConfirmResult(c, p)
      PROVE  DisputeTracksReport'
  BY <1>7 DEF ConfirmResult, AwardPoints
<1>8. ASSUME NEW c \in Challenge, NEW p \in Player, RejectResult(c, p)
      PROVE  DisputeTracksReport'
  BY <1>8 DEF RejectResult
<1>9. ASSUME NEW c \in Challenge, PassExpiry(c)
      PROVE  DisputeTracksReport'
  BY <1>9 DEF PassExpiry
<1>10. ASSUME NEW c \in Challenge, ExpireChallenge(c)
      PROVE  DisputeTracksReport'
  BY <1>10 DEF ExpireChallenge
<1>11. ASSUME NEW c \in Challenge, ExpireSchedule(c)
      PROVE  DisputeTracksReport'
  BY <1>11 DEF ExpireSchedule
<1>12. ASSUME NEW c \in Challenge, ConfirmCourt(c)
      PROVE  DisputeTracksReport'
  BY <1>12 DEF ConfirmCourt
<1>13. ASSUME NEW c \in Challenge, NEW p \in Player, ApplyWalkover(c, p)
      PROVE  DisputeTracksReport'
  BY <1>13 DEF ApplyWalkover, AwardPoints
<1>14. ASSUME NEW c \in Challenge, ResolveDispute(c)
      PROVE  DisputeTracksReport'
  BY <1>14 DEF ResolveDispute, AwardPoints
<1>15. ASSUME NEW c \in Challenge, CancelMatch(c)
      PROVE  DisputeTracksReport'
  BY <1>15 DEF CancelMatch
<1>16. CASE UNCHANGED vars
  BY <1>16 DEF vars
<1>17. QED
  BY <1>1, <1>2, <1>3, <1>4, <1>5, <1>6, <1>7, <1>8, <1>9, <1>10, <1>11, <1>12, <1>13,
     <1>14, <1>15, <1>16
  DEF Next, PlayerStep, JobStep, AdminStep

(* Whoever closes a match awards points in the same handler.                *)
LEMMA ClosedStep == LadderInv /\ [Next]_vars => ClosedWasAwarded'
<1> SUFFICES ASSUME LadderInv, [Next]_vars PROVE ClosedWasAwarded'
  OBVIOUS
<1> USE DEF ClosedWasAwarded, TypeOK, ChallengeRow, MatchRow, ProposalRow, ReportRow,
            rows, limits, jobs, score, LadderInv
<1>1. ASSUME NEW c \in Challenge, NEW p \in Player, NEW q \in Player,
             CreateChallenge(c, p, q)
      PROVE  ClosedWasAwarded'
  BY <1>1 DEF CreateChallenge
<1>2. ASSUME NEW c \in Challenge, NEW p \in Player, AcceptChallenge(c, p)
      PROVE  ClosedWasAwarded'
  BY <1>2 DEF AcceptChallenge
<1>3. ASSUME NEW c \in Challenge, NEW p \in Player, RejectChallenge(c, p)
      PROVE  ClosedWasAwarded'
  BY <1>3 DEF RejectChallenge
<1>4. ASSUME NEW c \in Challenge, NEW p \in Player, NEW o \in Proposal,
             ProposeSchedule(c, p, o)
      PROVE  ClosedWasAwarded'
  BY <1>4 DEF ProposeSchedule
<1>5. ASSUME NEW o \in Proposal, NEW p \in Player, SelectOption(o, p)
      PROVE  ClosedWasAwarded'
  BY <1>5 DEF SelectOption
<1>6. ASSUME NEW c \in Challenge, NEW p \in Player, ReportResult(c, p)
      PROVE  ClosedWasAwarded'
  BY <1>6 DEF ReportResult
<1>7. ASSUME NEW c \in Challenge, NEW p \in Player, ConfirmResult(c, p)
      PROVE  ClosedWasAwarded'
  BY <1>7 DEF ConfirmResult, AwardPoints
<1>8. ASSUME NEW c \in Challenge, NEW p \in Player, RejectResult(c, p)
      PROVE  ClosedWasAwarded'
  BY <1>8 DEF RejectResult
<1>9. ASSUME NEW c \in Challenge, PassExpiry(c)
      PROVE  ClosedWasAwarded'
  BY <1>9 DEF PassExpiry
<1>10. ASSUME NEW c \in Challenge, ExpireChallenge(c)
      PROVE  ClosedWasAwarded'
  BY <1>10 DEF ExpireChallenge
<1>11. ASSUME NEW c \in Challenge, ExpireSchedule(c)
      PROVE  ClosedWasAwarded'
  BY <1>11 DEF ExpireSchedule
<1>12. ASSUME NEW c \in Challenge, ConfirmCourt(c)
      PROVE  ClosedWasAwarded'
  BY <1>12 DEF ConfirmCourt
<1>13. ASSUME NEW c \in Challenge, NEW p \in Player, ApplyWalkover(c, p)
      PROVE  ClosedWasAwarded'
  BY <1>13 DEF ApplyWalkover, AwardPoints
<1>14. ASSUME NEW c \in Challenge, ResolveDispute(c)
      PROVE  ClosedWasAwarded'
  BY <1>14 DEF ResolveDispute, AwardPoints
<1>15. ASSUME NEW c \in Challenge, CancelMatch(c)
      PROVE  ClosedWasAwarded'
  BY <1>15 DEF CancelMatch
<1>16. CASE UNCHANGED vars
  BY <1>16 DEF vars
<1>17. QED
  BY <1>1, <1>2, <1>3, <1>4, <1>5, <1>6, <1>7, <1>8, <1>9, <1>10, <1>11, <1>12, <1>13,
     <1>14, <1>15, <1>16
  DEF Next, PlayerStep, JobStep, AdminStep

(* Proposals are made and options selected in PENDING_SCHEDULE only, which  *)
(* no handler brings back: a new match has no selection because it is new.  *)
LEMMA SelectionStep == LadderInv /\ [Next]_vars => SelectionSettled'
<1> SUFFICES ASSUME LadderInv, [Next]_vars PROVE SelectionSettled'
  OBVIOUS
<1> USE DEF RowsInOrder, SelectionSettled, TypeOK, ChallengeRow, MatchRow, ProposalRow,
            ReportRow, rows, limits, jobs, score, LadderInv
<1>1. ASSUME NEW c \in Challenge, NEW p \in Player, NEW q \in Player,
             CreateChallenge(c, p, q)
      PROVE  SelectionSettled'
  BY <1>1, NoneAssumption DEF CreateChallenge
<1>2. ASSUME NEW c \in Challenge, NEW p \in Player, AcceptChallenge(c, p)
      PROVE  SelectionSettled'
  BY <1>2, NoneAssumption DEF AcceptChallenge
<1>3. ASSUME NEW c \in Challenge, NEW p \in Player, RejectChallenge(c, p)
      PROVE  SelectionSettled'
  BY <1>3, NoneAssumption DEF RejectChallenge
<1>4. ASSUME NEW c \in Challenge, NEW p \in Player, NEW o \in Proposal,
             ProposeSchedule(c, p, o)
      PROVE  SelectionSettled'
  BY <1>4, NoneAssumption DEF ProposeSchedule
<1>5. ASSUME NEW o \in Proposal, NEW p \in Player, SelectOption(o, p)
      PROVE  SelectionSettled'
  BY <1>5, NoneAssumption DEF SelectOption
<1>6. ASSUME NEW c \in Challenge, NEW p \in Player, ReportResult(c, p)
      PROVE  SelectionSettled'
  BY <1>6, NoneAssumption DEF ReportResult
<1>7. ASSUME NEW c \in Challenge, NEW p \in Player, ConfirmResult(c, p)
      PROVE  SelectionSettled'
  BY <1>7, NoneAssumption DEF ConfirmResult, AwardPoints
<1>8. ASSUME NEW c \in Challenge, NEW p \in Player, RejectResult(c, p)
      PROVE  SelectionSettled'
  BY <1>8, NoneAssumption DEF RejectResult
<1>9. ASSUME NEW c \in Challenge, PassExpiry(c)
      PROVE  SelectionSettled'
  BY <1>9, NoneAssumption DEF PassExpiry
<1>10. ASSUME NEW c \in Challenge, ExpireChallenge(c)
      PROVE  SelectionSettled'
  BY <1>10, NoneAssumption DEF ExpireChallenge
<1>11. ASSUME NEW c \in Challenge, ExpireSchedule(c)
      PROVE  SelectionSettled'
  BY <1>11, NoneAssumption DEF ExpireSchedule
<1>12. ASSUME NEW c \in Challenge, ConfirmCourt(c)
      PROVE  SelectionSettled'
  BY <1>12, NoneAssumption DEF ConfirmCourt
<1>13. ASSUME NEW c \in Challenge, NEW p \in Player, ApplyWalkover(c, p)
      PROVE  SelectionSettled'
  BY <1>13, NoneAssumption DEF ApplyWalkover, AwardPoints
<1>14. ASSUME NEW c \in Challenge, ResolveDispute(c)
      PROVE  SelectionSettled'
  BY <1>14, NoneAssumption DEF ResolveDispute, AwardPoints
<1>15. ASSUME NEW c \in Challenge, CancelMatch(c)
      PROVE  SelectionSettled'
  BY <1>15, NoneAssumption DEF CancelMatch
<1>16. CASE UNCHANGED vars
  BY <1>16 DEF vars
<1>17. QED
  BY <1>1, <1>2, <1>3, <1>4, <1>5, <1>6, <1>7, <1>8, <1>9, <1>10, <1>11, <1>12, <1>13,
     <1>14, <1>15, <1>16
  DEF Next, PlayerStep, JobStep, AdminStep

(* Whatever players and admins do, the rows of a challenge come in order, a *)
(* dispute tracks its report, a closed match has awarded points and a match *)
(* has at most one selected proposal: the inductive invariant of the module.*)
(* TypeOK is inductive by itself, so TypeCorrect is used for its part.      *)
THEOREM LadderCorrect == Spec => []LadderInv
<1>1. Init => RowsInOrder /\ DisputeTracksReport /\ ClosedWasAwarded
  BY DEF Init, RowsInOrder, DisputeTracksReport, ClosedWasAwarded
<1>2. Init => SelectionSettled
  BY NoneAssumption DEF Init, SelectionSettled
<1>3. TypeOK /\ TypeOK' /\ LadderInv /\ [Next]_vars => LadderInv'
  BY RowsInOrderStep, DisputeStep, ClosedStep, SelectionStep DEF LadderInv
<1>4. Init /\ TypeOK => LadderInv
  BY <1>1, <1>2 DEF LadderInv
<1>5. QED BY <1>3, <1>4, TypeCorrect, PTL DEF Spec

(* A challenge has a match exactly when it was accepted, a report needs a   *)
(* match and a dispute a report.                                            *)
COROLLARY RowsCorrect == Spec => []RowsInOrder
<1>1. LadderInv => RowsInOrder
  BY DEF LadderInv
<1>2. QED BY <1>1, LadderCorrect, PTL

(* A dispute is open exactly while its report stands rejected.              *)
COROLLARY DisputesCorrect == Spec => []DisputeTracksReport
<1>1. LadderInv => DisputeTracksReport
  BY DEF LadderInv
<1>2. QED BY <1>1, LadderCorrect, PTL

(* No match is closed without points.                                       *)
COROLLARY ClosedCorrect == Spec => []ClosedWasAwarded
<1>1. LadderInv => ClosedWasAwarded
  BY DEF LadderInv
<1>2. QED BY <1>1, LadderCorrect, PTL

(* Once an option is selected its proposal is the only SELECTED one of the  *)
(* match and none is OPEN.                                                  *)
COROLLARY SelectionCorrect == Spec => []SelectionSettled
<1>1. LadderInv => SelectionSettled
  BY DEF LadderInv
<1>2. QED BY <1>1, LadderCorrect, PTL

-----------------------------------------------------------------------------
(* What holds as long as only players act                                   *)

PlayersInv == LadderInv /\ ReportAgreesWithMatch /\ AwardedOnceWhenClosed

(* Without admin commands the match of a pending report is waiting for its  *)
(* confirmation, so confirmResult and rejectResult need not look at it.     *)
LEMMA ReportStep == Admin = {} /\ PlayersInv /\ [Next]_vars => ReportAgreesWithMatch'
<1> SUFFICES ASSUME Admin = {}, PlayersInv, [Next]_vars PROVE ReportAgreesWithMatch'
  OBVIOUS
<1> USE DEF PlayersInv, RowsInOrder, ReportAgreesWithMatch, TypeOK, ChallengeRow,
            MatchRow, ProposalRow, ReportRow, rows, limits, jobs, score, LadderInv
<1>1. ASSUME NEW c \in Challenge, NEW p \in Player, NEW q \in Player,
             CreateChallenge(c, p, q)
      PROVE  ReportAgreesWithMatch'
  BY <1>1 DEF CreateChallenge
<1>2. ASSUME NEW c \in Challenge, NEW p \in Player, AcceptChallenge(c, p)
      PROVE  ReportAgreesWithMatch'
  BY <1>2 DEF AcceptChallenge
<1>3. ASSUME NEW c \in Challenge, NEW p \in Player, RejectChallenge(c, p)
      PROVE  ReportAgreesWithMatch'
  BY <1>3 DEF RejectChallenge
<1>4. ASSUME NEW c \in Challenge, NEW p \in Player, NEW o \in Proposal,
             ProposeSchedule(c, p, o)
      PROVE  ReportAgreesWithMatch'
  BY <1>4 DEF ProposeSchedule
<1>5. ASSUME NEW o \in Proposal, NEW p \in Player, SelectOption(o, p)
      PROVE  ReportAgreesWithMatch'
  BY <1>5 DEF SelectOption
<1>6. ASSUME NEW c \in Challenge, NEW p \in Player, ReportResult(c, p)
      PROVE  ReportAgreesWithMatch'
  BY <1>6 DEF ReportResult
<1>7. ASSUME NEW c \in Challenge, NEW p \in Player, ConfirmResult(c, p)
      PROVE  ReportAgreesWithMatch'
  BY <1>7 DEF ConfirmResult, AwardPoints
<1>8. ASSUME NEW c \in Challenge, NEW p \in Player, RejectResult(c, p)
      PROVE  ReportAgreesWithMatch'
  BY <1>8 DEF RejectResult
<1>9. ASSUME NEW c \in Challenge, PassExpiry(c)
      PROVE  ReportAgreesWithMatch'
  BY <1>9 DEF PassExpiry
<1>10. ASSUME NEW c \in Challenge, ExpireChallenge(c)
      PROVE  ReportAgreesWithMatch'
  BY <1>10 DEF ExpireChallenge
<1>11. ASSUME NEW c \in Challenge, ExpireSchedule(c)
      PROVE  ReportAgreesWithMatch'
  BY <1>11 DEF ExpireSchedule
<1>12. ASSUME NEW c \in Challenge, ConfirmCourt(c)
      PROVE  ReportAgreesWithMatch'
  BY <1>12 DEF ConfirmCourt
<1>13. ASSUME NEW c \in Challenge, NEW p \in Player, ApplyWalkover(c, p)
      PROVE  ReportAgreesWithMatch'
  BY <1>13 DEF ApplyWalkover, AwardPoints
<1>14. ASSUME NEW c \in Challenge, ResolveDispute(c)
      PROVE  ReportAgreesWithMatch'
  BY <1>14 DEF ResolveDispute, AwardPoints
<1>15. ASSUME NEW c \in Challenge, CancelMatch(c)
      PROVE  ReportAgreesWithMatch'
  BY <1>15 DEF CancelMatch
<1>16. CASE UNCHANGED vars
  BY <1>16 DEF vars
<1>17. QED
  BY <1>1, <1>2, <1>3, <1>4, <1>5, <1>6, <1>7, <1>8, <1>9, <1>10, <1>11, <1>12, <1>13,
     <1>14, <1>15, <1>16
  DEF Next, PlayerStep, JobStep, AdminStep

(* Points are awarded by the one step that closes the match.                *)
LEMMA AwardedStep == Admin = {} /\ PlayersInv /\ [Next]_vars => AwardedOnceWhenClosed'
<1> SUFFICES ASSUME Admin = {}, PlayersInv, [Next]_vars PROVE AwardedOnceWhenClosed'
  OBVIOUS
<1> USE DEF PlayersInv, RowsInOrder, ReportAgreesWithMatch, AwardedOnceWhenClosed, TypeOK,
            ChallengeRow, MatchRow, ProposalRow, ReportRow, rows, limits, jobs, score,
            LadderInv
<1>1. ASSUME NEW c \in Challenge, NEW p \in Player, NEW q \in Player,
             CreateChallenge(c, p, q)
      PROVE  AwardedOnceWhenClosed'
  BY <1>1 DEF CreateChallenge
<1>2. ASSUME NEW c \in Challenge, NEW p \in Player, AcceptChallenge(c, p)
      PROVE  AwardedOnceWhenClosed'
  BY <1>2 DEF AcceptChallenge
<1>3. ASSUME NEW c \in Challenge, NEW p \in Player, RejectChallenge(c, p)
      PROVE  AwardedOnceWhenClosed'
  BY <1>3 DEF RejectChallenge
<1>4. ASSUME NEW c \in Challenge, NEW p \in Player, NEW o \in Proposal,
             ProposeSchedule(c, p, o)
      PROVE  AwardedOnceWhenClosed'
  BY <1>4 DEF ProposeSchedule
<1>5. ASSUME NEW o \in Proposal, NEW p \in Player, SelectOption(o, p)
      PROVE  AwardedOnceWhenClosed'
  BY <1>5 DEF SelectOption
<1>6. ASSUME NEW c \in Challenge, NEW p \in Player, ReportResult(c, p)
      PROVE  AwardedOnceWhenClosed'
  BY <1>6 DEF ReportResult
<1>7. ASSUME NEW c \in Challenge, NEW p \in Player, ConfirmResult(c, p)
      PROVE  AwardedOnceWhenClosed'
  BY <1>7 DEF ConfirmResult, AwardPoints
<1>8. ASSUME NEW c \in Challenge, NEW p \in Player, RejectResult(c, p)
      PROVE  AwardedOnceWhenClosed'
  BY <1>8 DEF RejectResult
<1>9. ASSUME NEW c \in Challenge, PassExpiry(c)
      PROVE  AwardedOnceWhenClosed'
  BY <1>9 DEF PassExpiry
<1>10. ASSUME NEW c \in Challenge, ExpireChallenge(c)
      PROVE  AwardedOnceWhenClosed'
  BY <1>10 DEF ExpireChallenge
<1>11. ASSUME NEW c \in Challenge, ExpireSchedule(c)
      PROVE  AwardedOnceWhenClosed'
  BY <1>11 DEF ExpireSchedule
<1>12. ASSUME NEW c \in Challenge, ConfirmCourt(c)
      PROVE  AwardedOnceWhenClosed'
  BY <1>12 DEF ConfirmCourt
<1>13. ASSUME NEW c \in Challenge, NEW p \in Player, ApplyWalkover(c, p)
      PROVE  AwardedOnceWhenClosed'
  BY <1>13 DEF ApplyWalkover, AwardPoints
<1>14. ASSUME NEW c \in Challenge, ResolveDispute(c)
      PROVE  AwardedOnceWhenClosed'
  BY <1>14 DEF ResolveDispute, AwardPoints
<1>15. ASSUME NEW c \in Challenge, CancelMatch(c)
      PROVE  AwardedOnceWhenClosed'
  BY <1>15 DEF CancelMatch
<1>16. CASE UNCHANGED vars
  BY <1>16 DEF vars
<1>17. QED
  BY <1>1, <1>2, <1>3, <1>4, <1>5, <1>6, <1>7, <1>8, <1>9, <1>10, <1>11, <1>12, <1>13,
     <1>14, <1>15, <1>16
  DEF Next, PlayerStep, JobStep, AdminStep

(* While no admin command is used, match, report and points tell the same   *)
(* story. Neither conjunct is inductive alone: that a match is not scored   *)
(* twice depends on its report being pending only while it waits for it.    *)
THEOREM PlayersCorrect == ASSUME Admin = {} PROVE Spec => []PlayersInv
<1>1. Init => ReportAgreesWithMatch /\ AwardedOnceWhenClosed
  BY DEF Init, ReportAgreesWithMatch, AwardedOnceWhenClosed
<1>2. LadderInv' /\ PlayersInv /\ [Next]_vars => PlayersInv'
  BY ReportStep, AwardedStep DEF PlayersInv
<1>3. Init /\ LadderInv => PlayersInv
  BY <1>1 DEF PlayersInv
<1>4. QED BY <1>2, <1>3, LadderCorrect, PTL DEF Spec

(* applyMatchPoints is called once for a match, when it closes: confirming  *)
(* twice, or confirming and rejecting, one after the other scores it once.  *)
COROLLARY AwardedOnce == ASSUME Admin = {} PROVE Spec => []AwardedOnceWhenClosed
<1>1. PlayersInv => AwardedOnceWhenClosed
  BY DEF PlayersInv
<1>2. QED BY <1>1, PlayersCorrect, PTL

(* A match waits, is closed or is disputed exactly as its report says.      *)
COROLLARY ReportAgrees == ASSUME Admin = {} PROVE Spec => []ReportAgreesWithMatch
<1>1. PlayersInv => ReportAgreesWithMatch
  BY DEF PlayersInv
<1>2. QED BY <1>1, PlayersCorrect, PTL

-----------------------------------------------------------------------------
(* The jobs *)

(* A job leaves its queue only in the step that ends the waiting.           *)
LEMMA WaitingStep == Queue = "on" /\ TypeOK /\ WaitingHasJob /\ [Next]_vars =>
                     WaitingHasJob'
<1> SUFFICES ASSUME Queue = "on", TypeOK, WaitingHasJob, [Next]_vars PROVE WaitingHasJob'
  OBVIOUS
<1> USE DEF WaitingHasJob, Enqueue, TypeOK, ChallengeRow, MatchRow, ProposalRow,
            ReportRow, rows, limits, jobs, score
<1>1. ASSUME NEW c \in Challenge, NEW p \in Player, NEW q \in Player,
             CreateChallenge(c, p, q)
      PROVE  WaitingHasJob'
  BY <1>1 DEF CreateChallenge
<1>2. ASSUME NEW c \in Challenge, NEW p \in Player, AcceptChallenge(c, p)
      PROVE  WaitingHasJob'
  BY <1>2 DEF AcceptChallenge
<1>3. ASSUME NEW c \in Challenge, NEW p \in Player, RejectChallenge(c, p)
      PROVE  WaitingHasJob'
  BY <1>3 DEF RejectChallenge
<1>4. ASSUME NEW c \in Challenge, NEW p \in Player, NEW o \in Proposal,
             ProposeSchedule(c, p, o)
      PROVE  WaitingHasJob'
  BY <1>4 DEF ProposeSchedule
<1>5. ASSUME NEW o \in Proposal, NEW p \in Player, SelectOption(o, p)
      PROVE  WaitingHasJob'
  BY <1>5 DEF SelectOption
<1>6. ASSUME NEW c \in Challenge, NEW p \in Player, ReportResult(c, p)
      PROVE  WaitingHasJob'
  BY <1>6 DEF ReportResult
<1>7. ASSUME NEW c \in Challenge, NEW p \in Player, ConfirmResult(c, p)
      PROVE  WaitingHasJob'
  BY <1>7 DEF ConfirmResult, AwardPoints
<1>8. ASSUME NEW c \in Challenge, NEW p \in Player, RejectResult(c, p)
      PROVE  WaitingHasJob'
  BY <1>8 DEF RejectResult
<1>9. ASSUME NEW c \in Challenge, PassExpiry(c)
      PROVE  WaitingHasJob'
  BY <1>9 DEF PassExpiry
<1>10. ASSUME NEW c \in Challenge, ExpireChallenge(c)
      PROVE  WaitingHasJob'
  BY <1>10 DEF ExpireChallenge
<1>11. ASSUME NEW c \in Challenge, ExpireSchedule(c)
      PROVE  WaitingHasJob'
  BY <1>11 DEF ExpireSchedule
<1>12. ASSUME NEW c \in Challenge, ConfirmCourt(c)
      PROVE  WaitingHasJob'
  BY <1>12 DEF ConfirmCourt
<1>13. ASSUME NEW c \in Challenge, NEW p \in Player, ApplyWalkover(c, p)
      PROVE  WaitingHasJob'
  BY <1>13 DEF ApplyWalkover, AwardPoints
<1>14. ASSUME NEW c \in Challenge, ResolveDispute(c)
      PROVE  WaitingHasJob'
  BY <1>14 DEF ResolveDispute, AwardPoints
<1>15. ASSUME NEW c \in Challenge, CancelMatch(c)
      PROVE  WaitingHasJob'
  BY <1>15 DEF CancelMatch
<1>16. CASE UNCHANGED vars
  BY <1>16 DEF vars
<1>17. QED
  BY <1>1, <1>2, <1>3, <1>4, <1>5, <1>6, <1>7, <1>8, <1>9, <1>10, <1>11, <1>12, <1>13,
     <1>14, <1>15, <1>16
  DEF Next, PlayerStep, JobStep, AdminStep

(* With the queue on, whoever waits for an answer or a schedule has its job *)
(* enqueued, whatever players and admins do.                                *)
THEOREM WaitingCorrect == ASSUME Queue = "on" PROVE Spec => []WaitingHasJob
<1>1. Init => WaitingHasJob
  BY DEF Init, WaitingHasJob
<1>2. TypeOK /\ WaitingHasJob /\ [Next]_vars => WaitingHasJob'
  BY WaitingStep
<1>3. QED BY <1>1, <1>2, TypeCorrect, PTL DEF Spec

-----------------------------------------------------------------------------
(* What no step does *)

(* Every handler that writes a challenge asks for a PENDING one; only the   *)
(* three result handlers write a report, and none writes its author.        *)
LEMMA DecisionStep == TypeOK /\ [Next]_vars => KeepsDecisions
<1> SUFFICES ASSUME TypeOK, [Next]_vars PROVE KeepsDecisions
  OBVIOUS
<1> USE DEF KeepsDecisions, ChallengeStatus, TypeOK, ChallengeRow, MatchRow, ProposalRow,
            ReportRow, rows, limits, jobs, score
<1>1. ASSUME NEW c \in Challenge, NEW p \in Player, NEW q \in Player,
             CreateChallenge(c, p, q)
      PROVE  KeepsDecisions
  BY <1>1 DEF CreateChallenge
<1>2. ASSUME NEW c \in Challenge, NEW p \in Player, AcceptChallenge(c, p)
      PROVE  KeepsDecisions
  BY <1>2 DEF AcceptChallenge
<1>3. ASSUME NEW c \in Challenge, NEW p \in Player, RejectChallenge(c, p)
      PROVE  KeepsDecisions
  BY <1>3 DEF RejectChallenge
<1>4. ASSUME NEW c \in Challenge, NEW p \in Player, NEW o \in Proposal,
             ProposeSchedule(c, p, o)
      PROVE  KeepsDecisions
  BY <1>4 DEF ProposeSchedule
<1>5. ASSUME NEW o \in Proposal, NEW p \in Player, SelectOption(o, p)
      PROVE  KeepsDecisions
  BY <1>5 DEF SelectOption
<1>6. ASSUME NEW c \in Challenge, NEW p \in Player, ReportResult(c, p)
      PROVE  KeepsDecisions
  BY <1>6 DEF ReportResult
<1>7. ASSUME NEW c \in Challenge, NEW p \in Player, ConfirmResult(c, p)
      PROVE  KeepsDecisions
  BY <1>7 DEF ConfirmResult, AwardPoints
<1>8. ASSUME NEW c \in Challenge, NEW p \in Player, RejectResult(c, p)
      PROVE  KeepsDecisions
  BY <1>8 DEF RejectResult
<1>9. ASSUME NEW c \in Challenge, PassExpiry(c)
      PROVE  KeepsDecisions
  BY <1>9 DEF PassExpiry
<1>10. ASSUME NEW c \in Challenge, ExpireChallenge(c)
      PROVE  KeepsDecisions
  BY <1>10 DEF ExpireChallenge
<1>11. ASSUME NEW c \in Challenge, ExpireSchedule(c)
      PROVE  KeepsDecisions
  BY <1>11 DEF ExpireSchedule
<1>12. ASSUME NEW c \in Challenge, ConfirmCourt(c)
      PROVE  KeepsDecisions
  BY <1>12 DEF ConfirmCourt
<1>13. ASSUME NEW c \in Challenge, NEW p \in Player, ApplyWalkover(c, p)
      PROVE  KeepsDecisions
  BY <1>13 DEF ApplyWalkover, AwardPoints
<1>14. ASSUME NEW c \in Challenge, ResolveDispute(c)
      PROVE  KeepsDecisions
  BY <1>14 DEF ResolveDispute, AwardPoints
<1>15. ASSUME NEW c \in Challenge, CancelMatch(c)
      PROVE  KeepsDecisions
  BY <1>15 DEF CancelMatch
<1>16. CASE UNCHANGED vars
  BY <1>16 DEF vars
<1>17. QED
  BY <1>1, <1>2, <1>3, <1>4, <1>5, <1>6, <1>7, <1>8, <1>9, <1>10, <1>11, <1>12, <1>13,
     <1>14, <1>15, <1>16
  DEF Next, PlayerStep, JobStep, AdminStep

(* No handler, job or admin command undoes a decided challenge or a         *)
(* confirmed report, or changes the rank snapshot points are computed from. *)
THEOREM DecisionsCorrect == Spec => DecisionsStand
<1>1. TypeOK /\ [Next]_vars => [KeepsDecisions]_vars
  BY DecisionStep
<1>2. QED BY <1>1, TypeCorrect, PTL DEF Spec, DecisionsStand

(* A handler that moves a match finds it PENDING_SCHEDULE or SCHEDULED, or  *)
(* its report pending, which only a match waiting for confirmation has.     *)
LEMMA FinishedStep == Admin = {} /\ PlayersInv /\ [Next]_vars => KeepsFinished
<1> SUFFICES ASSUME Admin = {}, PlayersInv, [Next]_vars PROVE KeepsFinished
  OBVIOUS
<1> USE DEF KeepsFinished, PlayersInv, RowsInOrder, ReportAgreesWithMatch, TypeOK,
            ChallengeRow, MatchRow, ProposalRow, ReportRow, rows, limits, jobs, score,
            LadderInv
<1>1. ASSUME NEW c \in Challenge, NEW p \in Player, NEW q \in Player,
             CreateChallenge(c, p, q)
      PROVE  KeepsFinished
  BY <1>1 DEF CreateChallenge
<1>2. ASSUME NEW c \in Challenge, NEW p \in Player, AcceptChallenge(c, p)
      PROVE  KeepsFinished
  BY <1>2 DEF AcceptChallenge
<1>3. ASSUME NEW c \in Challenge, NEW p \in Player, RejectChallenge(c, p)
      PROVE  KeepsFinished
  BY <1>3 DEF RejectChallenge
<1>4. ASSUME NEW c \in Challenge, NEW p \in Player, NEW o \in Proposal,
             ProposeSchedule(c, p, o)
      PROVE  KeepsFinished
  BY <1>4 DEF ProposeSchedule
<1>5. ASSUME NEW o \in Proposal, NEW p \in Player, SelectOption(o, p)
      PROVE  KeepsFinished
  BY <1>5 DEF SelectOption
<1>6. ASSUME NEW c \in Challenge, NEW p \in Player, ReportResult(c, p)
      PROVE  KeepsFinished
  BY <1>6 DEF ReportResult
<1>7. ASSUME NEW c \in Challenge, NEW p \in Player, ConfirmResult(c, p)
      PROVE  KeepsFinished
  BY <1>7 DEF ConfirmResult, AwardPoints
<1>8. ASSUME NEW c \in Challenge, NEW p \in Player, RejectResult(c, p)
      PROVE  KeepsFinished
  BY <1>8 DEF RejectResult
<1>9. ASSUME NEW c \in Challenge, PassExpiry(c)
      PROVE  KeepsFinished
  BY <1>9 DEF PassExpiry
<1>10. ASSUME NEW c \in Challenge, ExpireChallenge(c)
      PROVE  KeepsFinished
  BY <1>10 DEF ExpireChallenge
<1>11. ASSUME NEW c \in Challenge, ExpireSchedule(c)
      PROVE  KeepsFinished
  BY <1>11 DEF ExpireSchedule
<1>12. ASSUME NEW c \in Challenge, ConfirmCourt(c)
      PROVE  KeepsFinished
  BY <1>12 DEF ConfirmCourt
<1>13. ASSUME NEW c \in Challenge, NEW p \in Player, ApplyWalkover(c, p)
      PROVE  KeepsFinished
  BY <1>13 DEF ApplyWalkover, AwardPoints
<1>14. ASSUME NEW c \in Challenge, ResolveDispute(c)
      PROVE  KeepsFinished
  BY <1>14 DEF ResolveDispute, AwardPoints
<1>15. ASSUME NEW c \in Challenge, CancelMatch(c)
      PROVE  KeepsFinished
  BY <1>15 DEF CancelMatch
<1>16. CASE UNCHANGED vars
  BY <1>16 DEF vars
<1>17. QED
  BY <1>1, <1>2, <1>3, <1>4, <1>5, <1>6, <1>7, <1>8, <1>9, <1>10, <1>11, <1>12, <1>13,
     <1>14, <1>15, <1>16
  DEF Next, PlayerStep, JobStep, AdminStep

(* Without admin commands a closed, cancelled or disputed match never       *)
(* changes again, however late a job, a selection or a confirmation comes.  *)
THEOREM FinishedCorrect == ASSUME Admin = {} PROVE Spec => FinishedMatchStays
<1>1. PlayersInv /\ [Next]_vars => [KeepsFinished]_vars
  BY FinishedStep
<1>2. QED BY <1>1, PlayersCorrect, PTL DEF Spec, FinishedMatchStays
-----------------------------------------------------------------------------
(* The monthly counters                                                     *)

SentRows(p) == {c \in Challenge : challenge[c].challenger = p}
TakenRows(p) == {c \in Challenge : /\ challenge[c].challenged = p
                                   /\ challenge[c].status = "ACCEPTED"}

(* A challenge names nobody before it is made, and only finitely many are   *)
(* ever made, so the counters have finite sets to count.                    *)
LimitInv == /\ TypeOK
            /\ \A c \in Challenge : challenge[c].status = "none"
                                      => challenge[c].challenger = None
            /\ \A p \in Player : IsFiniteSet(SentRows(p)) /\ IsFiniteSet(TakenRows(p))
            /\ LimitsCountRows

(* A handler that changes neither the challenges nor the counters.          *)
LEMMA LimitsUntouched ==
    ASSUME LimitInv, TypeOK', UNCHANGED <<challenge, sent, accepted>>
    PROVE  LimitInv'
BY DEF LimitInv, LimitsCountRows, SentRows, TakenRows

(* An answer that is no acceptance decides a challenge that was pending.    *)
LEMMA LimitsDeclined ==
    ASSUME LimitInv, TypeOK', NEW c \in Challenge, challenge[c].status = "PENDING",
           NEW s \in {"REJECTED", "EXPIRED"},
           challenge' = [challenge EXCEPT ![c].status = s], UNCHANGED <<sent, accepted>>
    PROVE  LimitInv'
<1>1. \A d \in Challenge :
         /\ challenge'[d].challenger = challenge[d].challenger
         /\ challenge'[d].challenged = challenge[d].challenged
         /\ challenge'[d].status = IF d = c THEN s ELSE challenge[d].status
  BY DEF LimitInv, TypeOK, ChallengeRow
<1>2. \A p \in Player : SentRows(p)' = SentRows(p) /\ TakenRows(p)' = TakenRows(p)
  BY <1>1 DEF SentRows, TakenRows
<1>3. \A d \in Challenge : challenge'[d].status = "none" => challenge'[d].challenger = None
  BY <1>1 DEF LimitInv
<1>4. LimitsCountRows'
  BY <1>2 DEF LimitInv, LimitsCountRows, SentRows, TakenRows
<1> QED
  BY <1>2, <1>3, <1>4 DEF LimitInv

(* createChallenge inserts one row and adds one to sent_count.              *)
LEMMA LimitsCreated ==
    ASSUME LimitInv, TypeOK', NEW c \in Challenge, NEW p \in Player, NEW q \in Player,
           CreateChallenge(c, p, q)
    PROVE  LimitInv'
<1>1. \A d \in Challenge :
         challenge'[d] = IF d = c THEN [status |-> "PENDING", challenger |-> p,
                                        challenged |-> q, rankDiff |-> 0]
                                  ELSE challenge[d]
  BY DEF LimitInv, TypeOK, CreateChallenge
<1>2. challenge[c].status = "none" /\ challenge[c].challenger = None /\ None \notin Player
  BY NoneAssumption DEF LimitInv, CreateChallenge
<1>3. \A r \in Player : sent'[r] = (IF r = p THEN sent[r] + 1 ELSE sent[r])
  BY DEF LimitInv, TypeOK, CreateChallenge
<1>4. accepted' = accepted
  BY DEF CreateChallenge
<1>5. \A r \in Player : SentRows(r)' = IF r = p THEN SentRows(r) \cup {c} ELSE SentRows(r)
  BY <1>1, <1>2 DEF SentRows
<1>6. \A r \in Player : TakenRows(r)' = TakenRows(r)
  BY <1>1, <1>2 DEF TakenRows
<1>7. c \notin SentRows(p) /\ IsFiniteSet(SentRows(p))
  BY <1>2 DEF SentRows, LimitInv
<1>8. /\ IsFiniteSet(SentRows(p) \cup {c})
      /\ Cardinality(SentRows(p) \cup {c}) = Cardinality(SentRows(p)) + 1
  BY <1>7, FS_AddElement
<1>9. \A r \in Player : IsFiniteSet(SentRows(r)') /\ sent'[r] = Cardinality(SentRows(r)')
  <2>1. ASSUME NEW r \in Player PROVE IsFiniteSet(SentRows(r)) /\ sent[r]
           = Cardinality(SentRows(r))
    BY DEF LimitInv, LimitsCountRows, SentRows
  <2>2. ASSUME NEW r \in Player, r = p
        PROVE  IsFiniteSet(SentRows(r)') /\ sent'[r] = Cardinality(SentRows(r)')
    <3>1. SentRows(r)' = SentRows(p) \cup {c}
      BY <1>5, <2>2
    <3> QED
      BY <1>3, <1>8, <2>1, <2>2, <3>1
  <2>3. ASSUME NEW r \in Player, r # p
        PROVE  IsFiniteSet(SentRows(r)') /\ sent'[r] = Cardinality(SentRows(r)')
    <3>1. SentRows(r)' = SentRows(r)
      BY <1>5, <2>3
    <3> QED
      BY <1>3, <2>1, <2>3, <3>1
  <2> QED
    BY <2>2, <2>3
<1>10. \A r \in Player : IsFiniteSet(TakenRows(r)')
                         /\ accepted'[r] = Cardinality(TakenRows(r)')
  BY <1>4, <1>6 DEF LimitInv, LimitsCountRows, TakenRows
<1>11. \A d \in Challenge : challenge'[d].status = "none" => challenge'[d].challenger = None
  BY <1>1 DEF LimitInv
<1> QED
  BY <1>9, <1>10, <1>11 DEF LimitInv, LimitsCountRows, SentRows, TakenRows

(* acceptChallenge adds the one row it accepts to accepted_count.           *)
LEMMA LimitsAccepted ==
    ASSUME LimitInv, TypeOK', NEW c \in Challenge, NEW q \in Player, AcceptChallenge(c, q)
    PROVE  LimitInv'
<1>1. \A d \in Challenge :
         /\ challenge'[d].challenger = challenge[d].challenger
         /\ challenge'[d].challenged = challenge[d].challenged
         /\ challenge'[d].status = IF d = c THEN "ACCEPTED" ELSE challenge[d].status
  BY DEF LimitInv, TypeOK, ChallengeRow, AcceptChallenge
<1>2. challenge[c].status = "PENDING" /\ challenge[c].challenged = q
  BY DEF AcceptChallenge
<1>3. \A r \in Player : accepted'[r] = (IF r = q THEN accepted[r] + 1 ELSE accepted[r])
  BY DEF LimitInv, TypeOK, AcceptChallenge
<1>4. sent' = sent
  BY DEF AcceptChallenge
<1>5. \A r \in Player : TakenRows(r)' = IF r = q THEN TakenRows(r) \cup {c}
                                                  ELSE TakenRows(r)
  BY <1>1, <1>2 DEF TakenRows
<1>6. \A r \in Player : SentRows(r)' = SentRows(r)
  BY <1>1 DEF SentRows
<1>7. c \notin TakenRows(q) /\ IsFiniteSet(TakenRows(q))
  BY <1>2 DEF TakenRows, LimitInv
<1>8. /\ IsFiniteSet(TakenRows(q) \cup {c})
      /\ Cardinality(TakenRows(q) \cup {c}) = Cardinality(TakenRows(q)) + 1
  BY <1>7, FS_AddElement
<1>9. \A r \in Player : IsFiniteSet(TakenRows(r)')
                        /\ accepted'[r] = Cardinality(TakenRows(r)')
  <2>1. ASSUME NEW r \in Player PROVE IsFiniteSet(TakenRows(r)) /\ accepted[r]
           = Cardinality(TakenRows(r))
    BY DEF LimitInv, LimitsCountRows, TakenRows
  <2>2. ASSUME NEW r \in Player, r = q
        PROVE  IsFiniteSet(TakenRows(r)') /\ accepted'[r] = Cardinality(TakenRows(r)')
    <3>1. TakenRows(r)' = TakenRows(q) \cup {c}
      BY <1>5, <2>2
    <3> QED
      BY <1>3, <1>8, <2>1, <2>2, <3>1
  <2>3. ASSUME NEW r \in Player, r # q
        PROVE  IsFiniteSet(TakenRows(r)') /\ accepted'[r] = Cardinality(TakenRows(r)')
    <3>1. TakenRows(r)' = TakenRows(r)
      BY <1>5, <2>3
    <3> QED
      BY <1>3, <2>1, <2>3, <3>1
  <2> QED
    BY <2>2, <2>3
<1>10. \A r \in Player : IsFiniteSet(SentRows(r)') /\ sent'[r] = Cardinality(SentRows(r)')
  BY <1>4, <1>6 DEF LimitInv, LimitsCountRows, SentRows
<1>11. \A d \in Challenge : challenge'[d].status = "none" => challenge'[d].challenger = None
  BY <1>1, <1>2 DEF LimitInv
<1> QED
  BY <1>9, <1>10, <1>11 DEF LimitInv, LimitsCountRows, SentRows, TakenRows

LEMMA LimitsStep == LimitInv /\ TypeOK' /\ [Next]_vars => LimitInv'
<1> SUFFICES ASSUME LimitInv, TypeOK', [Next]_vars PROVE LimitInv'
  OBVIOUS
<1>1. ASSUME NEW c \in Challenge, NEW p \in Player, PlayerStep(c, p)
      PROVE  LimitInv'
  <2>1. CASE \E q \in Player : CreateChallenge(c, p, q)
    BY <2>1, LimitsCreated
  <2>2. CASE AcceptChallenge(c, p)
    BY <2>2, LimitsAccepted
  <2>3. CASE RejectChallenge(c, p)
    BY <2>3, LimitsDeclined DEF RejectChallenge, limits
  <2>4. CASE \E o \in Proposal : ProposeSchedule(c, p, o)
    BY <2>4, LimitsUntouched DEF ProposeSchedule, limits
  <2>5. CASE ReportResult(c, p) \/ ConfirmResult(c, p) \/ RejectResult(c, p)
    BY <2>5, LimitsUntouched DEF ReportResult, ConfirmResult, RejectResult, limits
  <2> QED
    BY <1>1, <2>1, <2>2, <2>3, <2>4, <2>5 DEF PlayerStep
<1>2. ASSUME NEW o \in Proposal, NEW p \in Player, SelectOption(o, p)
      PROVE  LimitInv'
  BY <1>2, LimitsUntouched DEF SelectOption, limits
<1>3. ASSUME NEW c \in Challenge, PassExpiry(c)
      PROVE  LimitInv'
  BY <1>3, LimitsUntouched DEF PassExpiry, rows, limits
<1>4. ASSUME NEW c \in Challenge, JobStep(c)
      PROVE  LimitInv'
  <2>1. CASE ExpireChallenge(c) /\ challenge[c].status = "PENDING"
    BY <2>1, LimitsDeclined DEF ExpireChallenge, limits
  <2>2. CASE ExpireChallenge(c) /\ challenge[c].status # "PENDING"
    BY <2>2, LimitsUntouched DEF ExpireChallenge, limits
  <2>3. CASE ExpireSchedule(c)
    BY <2>3, LimitsUntouched DEF ExpireSchedule, limits
  <2> QED
    BY <1>4, <2>1, <2>2, <2>3 DEF JobStep
<1>5. ASSUME NEW c \in Challenge, AdminStep(c)
      PROVE  LimitInv'
  BY <1>5, LimitsUntouched
  DEF AdminStep, ConfirmCourt, ApplyWalkover, ResolveDispute, CancelMatch, limits
<1>6. CASE UNCHANGED vars
  BY <1>6, LimitsUntouched DEF vars, rows, limits
<1> QED
  BY <1>1, <1>2, <1>3, <1>4, <1>5, <1>6 DEF Next

(* sent_count is the number of challenges a player has sent and             *)
(* accepted_count the number he has accepted, also when queue.add throws    *)
(* after the rows are saved: one handler at a time leaves no row uncounted. *)
THEOREM LimitsCorrect == Spec => []LimitsCountRows
<1>1. Init => LimitInv
  <2> SUFFICES ASSUME Init PROVE LimitInv
    OBVIOUS
  <2>1. TypeOK
    BY DEF Init, TypeOK, ChallengeRow, MatchRow, ProposalRow, ReportRow
  <2>2. \A p \in Player : SentRows(p) = {} /\ TakenRows(p) = {}
    BY NoneAssumption DEF Init, SentRows, TakenRows
  <2>3. \A p \in Player : sent[p] = 0 /\ accepted[p] = 0
    BY DEF Init
  <2>4. IsFiniteSet({}) /\ Cardinality({}) = 0
    BY FS_EmptySet
  <2>5. LimitsCountRows
    BY <2>2, <2>3, <2>4 DEF LimitsCountRows, SentRows, TakenRows
  <2>6. \A c \in Challenge : challenge[c].challenger = None
    BY DEF Init
  <2> QED
    BY <2>1, <2>2, <2>4, <2>5, <2>6 DEF LimitInv
<1>2. LimitInv => LimitsCountRows
  BY DEF LimitInv
<1> QED
  BY <1>1, <1>2, LimitsStep, TypeCorrect, PTL DEF Spec

-----------------------------------------------------------------------------
(* What the points are for                                                  *)

EarnInv == /\ \A p \in Player : /\ IsFiniteSet(Won(p)) /\ IsFiniteSet(Lost(p))
                                /\ IsFiniteSet(PlacesWon(p))
           /\ PointsExplained

(* What a closed match says stays, and no other match closes.               *)
ClosedSame ==
    /\ points' = points
    /\ \A c \in Challenge :
        /\ match'[c].status = "CLOSED" <=> match[c].status = "CLOSED"
        /\ match[c].status = "CLOSED" => report'[c] = report[c] /\ challenge'[c] = challenge[c]

(* Then every player has won and lost the same.                             *)
LEMMA EarnUntouched ==
    ASSUME EarnInv, ClosedSame
    PROVE  EarnInv'
<1>1. ASSUME NEW p \in Player PROVE Won(p)' = Won(p) /\ Lost(p)' = Lost(p)
  BY DEF ClosedSame, Won, Lost
<1>2. ASSUME NEW p \in Player PROVE PlacesWon(p)' = PlacesWon(p)
  <2>1. \A c \in Won(p) : challenge'[c].rankDiff = challenge[c].rankDiff
    BY DEF ClosedSame, Won
  <2> QED
    BY <1>1, <2>1 DEF PlacesWon
<1> QED
  BY <1>1, <1>2 DEF EarnInv, PointsExplained, ClosedSame

(* A confirmation closes a match that was not closed: one match more for    *)
(* either player, and the places of its snapshot for the reporter.          *)
LEMMA ConfirmEarns ==
    ASSUME PlayersInv, EarnInv, NEW c \in Challenge, NEW q \in Player, ConfirmResult(c, q)
    PROVE  EarnInv'
<1>1. PICK w, d : w = report[c].reporter /\ d = challenge[c].rankDiff
  OBVIOUS
<1>2. TypeOK /\ ReportAgreesWithMatch
  BY DEF PlayersInv, LadderInv
<1>3. w # q /\ match[c].status # "CLOSED" /\ d \in Nat
  BY <1>1, <1>2 DEF ConfirmResult, ReportAgreesWithMatch, TypeOK, ChallengeRow
<1>4. \A e \in Challenge :
         /\ match'[e].status = IF e = c THEN "CLOSED" ELSE match[e].status
         /\ report'[e].reporter = report[e].reporter
         /\ report'[e].confirmer = IF e = c THEN q ELSE report[e].confirmer
         /\ challenge'[e].rankDiff = challenge[e].rankDiff
  BY <1>2 DEF ConfirmResult, TypeOK, ChallengeRow, MatchRow, ReportRow
<1>5. \A p \in Player :
         /\ Won(p)' = IF p = w THEN Won(p) \cup {c} ELSE Won(p)
         /\ Lost(p)' = IF p = q THEN Lost(p) \cup {c} ELSE Lost(p)
         /\ c \notin Won(p) /\ c \notin Lost(p)
  BY <1>1, <1>3, <1>4 DEF Won, Lost
<1>6. PICK new : new = {c} \X (1..d)
  OBVIOUS
<1>7. IsFiniteSet(new) /\ Cardinality(new) = d
  <2>1. IsFiniteSet({c}) /\ Cardinality({c}) = 1
    BY FS_Singleton
  <2>2. IsFiniteSet(1..d) /\ Cardinality(1..d) = d
    BY <1>3, FS_Interval
  <2>3. IsFiniteSet(new) /\ Cardinality(new) = 1 * d
    BY <1>6, <2>1, <2>2, FS_Product
  <2> QED
    BY <1>3, <2>3
<1>8. ASSUME NEW p \in Player
      PROVE  PlacesWon(p)' = IF p = w THEN PlacesWon(p) \cup new ELSE PlacesWon(p)
  <2>1. PlacesWon(p)' = UNION {{e} \X (1..challenge[e].rankDiff) : e \in Won(p)'}
    BY <1>4 DEF PlacesWon, Won
  <2> QED
    BY <1>1, <1>5, <1>6, <2>1 DEF PlacesWon
<1>9. ASSUME NEW p \in Player PROVE PlacesWon(p) \cap new = {}
  BY <1>5, <1>6 DEF PlacesWon
<1>10. \A p \in Player :
          points'[p] = points[p] + (IF p = w THEN 125 + 5 * d ELSE IF p = q THEN 25 ELSE 0)
  BY <1>1, <1>3 DEF ConfirmResult, AwardPoints, WinnerPoints, LoserPoints
<1>11. ASSUME NEW p \in Player
       PROVE  /\ IsFiniteSet(Won(p)') /\ IsFiniteSet(Lost(p)') /\ IsFiniteSet(PlacesWon(p)')
              /\ points'[p] = 125 * Cardinality(Won(p)') + 25 * Cardinality(Lost(p)')
                                + 5 * Cardinality(PlacesWon(p)')
  <2>1. /\ IsFiniteSet(Won(p)) /\ IsFiniteSet(Lost(p)) /\ IsFiniteSet(PlacesWon(p))
        /\ points[p] = 125 * Cardinality(Won(p)) + 25 * Cardinality(Lost(p))
                         + 5 * Cardinality(PlacesWon(p))
    BY DEF EarnInv, PointsExplained
  <2>2. /\ Cardinality(Won(p)) \in Nat /\ Cardinality(Lost(p)) \in Nat
        /\ Cardinality(PlacesWon(p)) \in Nat
    BY <2>1, FS_CardinalityType
  <2>3. /\ IsFiniteSet(Won(p) \cup {c})
        /\ Cardinality(Won(p) \cup {c}) = Cardinality(Won(p)) + 1
        /\ IsFiniteSet(Lost(p) \cup {c})
        /\ Cardinality(Lost(p) \cup {c}) = Cardinality(Lost(p)) + 1
    BY <1>5, <2>1, FS_AddElement
  <2>4. /\ IsFiniteSet(PlacesWon(p) \cup new)
        /\ Cardinality(PlacesWon(p) \cup new) = Cardinality(PlacesWon(p)) + d
    <3>1. Cardinality(PlacesWon(p) \cap new) = 0
      BY <1>9, FS_EmptySet
    <3>2. /\ IsFiniteSet(PlacesWon(p) \cup new)
          /\ Cardinality(PlacesWon(p) \cup new)
                = Cardinality(PlacesWon(p)) + d - Cardinality(PlacesWon(p) \cap new)
      BY <1>7, <2>1, FS_Union
    <3> QED
      BY <1>3, <2>2, <3>1, <3>2
  <2>5. CASE p = w
    <3>1. Won(p)' = Won(p) \cup {c} /\ Lost(p)' = Lost(p) /\ PlacesWon(p)' = PlacesWon(p) \cup new
      BY <1>3, <1>5, <1>8, <2>5
    <3>2. points'[p] = points[p] + 125 + 5 * d
      BY <1>3, <1>10, <2>1, <2>2, <2>5
    <3> QED
      BY <1>3, <2>1, <2>2, <2>3, <2>4, <3>1, <3>2
  <2>6. CASE p = q
    <3>1. Won(p)' = Won(p) /\ Lost(p)' = Lost(p) \cup {c} /\ PlacesWon(p)' = PlacesWon(p)
      BY <1>3, <1>5, <1>8, <2>6
    <3>2. points'[p] = points[p] + 25
      BY <1>3, <1>10, <2>6
    <3> QED
      BY <2>1, <2>2, <2>3, <3>1, <3>2
  <2>7. CASE p # w /\ p # q
    <3>1. Won(p)' = Won(p) /\ Lost(p)' = Lost(p) /\ PlacesWon(p)' = PlacesWon(p)
      BY <1>5, <1>8, <2>7
    <3>2. points'[p] = points[p]
      BY <1>10, <2>1, <2>2, <2>7
    <3> QED
      BY <2>1, <3>1, <3>2
  <2> QED
    BY <2>5, <2>6, <2>7
<1> QED
  BY <1>11 DEF EarnInv, PointsExplained

(* Only a confirmation closes a match, as long as only players act.         *)
LEMMA EarnStep == Admin = {} /\ PlayersInv /\ EarnInv /\ [Next]_vars => EarnInv'
<1> SUFFICES ASSUME Admin = {}, PlayersInv, EarnInv, [Next]_vars PROVE EarnInv'
  OBVIOUS
<1>1. CASE \E c \in Challenge, q \in Player : ConfirmResult(c, q)
  BY <1>1, ConfirmEarns
<1>2. ClosedSame \/ \E c \in Challenge, q \in Player : ConfirmResult(c, q)
  <2> USE DEF ClosedSame, PlayersInv, LadderInv, RowsInOrder, ReportAgreesWithMatch, TypeOK,
              ChallengeRow, MatchRow, ProposalRow, ReportRow, rows, limits, jobs, score
  <2>1. ASSUME NEW c \in Challenge, NEW p \in Player, NEW q \in Player, CreateChallenge(c, p, q)
        PROVE  ClosedSame
    BY <2>1 DEF CreateChallenge
  <2>2. ASSUME NEW c \in Challenge, NEW p \in Player, AcceptChallenge(c, p) PROVE ClosedSame
    BY <2>2 DEF AcceptChallenge
  <2>3. ASSUME NEW c \in Challenge, NEW p \in Player, RejectChallenge(c, p) PROVE ClosedSame
    BY <2>3 DEF RejectChallenge
  <2>4. ASSUME NEW c \in Challenge, NEW p \in Player, NEW o \in Proposal, ProposeSchedule(c, p, o)
        PROVE  ClosedSame
    BY <2>4 DEF ProposeSchedule
  <2>5. ASSUME NEW o \in Proposal, NEW p \in Player, SelectOption(o, p) PROVE ClosedSame
    BY <2>5 DEF SelectOption
  <2>6. ASSUME NEW c \in Challenge, NEW p \in Player, ReportResult(c, p) PROVE ClosedSame
    BY <2>6 DEF ReportResult
  <2>7. ASSUME NEW c \in Challenge, NEW p \in Player, RejectResult(c, p) PROVE ClosedSame
    BY <2>7 DEF RejectResult
  <2>8. ASSUME NEW c \in Challenge, PassExpiry(c) PROVE ClosedSame
    BY <2>8 DEF PassExpiry
  <2>9. ASSUME NEW c \in Challenge, ExpireChallenge(c) PROVE ClosedSame
    BY <2>9 DEF ExpireChallenge
  <2>10. ASSUME NEW c \in Challenge, ExpireSchedule(c) PROVE ClosedSame
    BY <2>10 DEF ExpireSchedule
  <2>11. ASSUME NEW c \in Challenge, AdminStep(c) PROVE ClosedSame
    BY <2>11 DEF AdminStep, ConfirmCourt, ApplyWalkover, ResolveDispute, CancelMatch
  <2>12. CASE UNCHANGED vars
    BY <2>12 DEF vars
  <2> QED
    BY <2>1, <2>2, <2>3, <2>4, <2>5, <2>6, <2>7, <2>8, <2>9, <2>10, <2>11, <2>12
    DEF Next, PlayerStep, JobStep
<1> QED
  BY <1>1, <1>2, EarnUntouched

(* As long as only players act, a player's points are those of the matches  *)
(* he has won and lost and of the ranks at their acceptance, for any number *)
(* of matches.                                                              *)
THEOREM PointsCorrect == ASSUME Admin = {} PROVE Spec => []PointsExplained
<1>1. Init => EarnInv
  <2> SUFFICES ASSUME Init PROVE EarnInv
    OBVIOUS
  <2>1. \A p \in Player : Won(p) = {} /\ Lost(p) = {} /\ points[p] = 0
    BY DEF Init, Won, Lost
  <2>2. \A p \in Player : PlacesWon(p) = {}
    BY <2>1 DEF PlacesWon
  <2>3. IsFiniteSet({}) /\ Cardinality({}) = 0
    BY FS_EmptySet
  <2>4. \A p \in Player :
           /\ IsFiniteSet(Won(p)) /\ IsFiniteSet(Lost(p)) /\ IsFiniteSet(PlacesWon(p))
           /\ Cardinality(Won(p)) = 0 /\ Cardinality(Lost(p)) = 0
           /\ Cardinality(PlacesWon(p)) = 0
    BY <2>1, <2>2, <2>3
  <2>5. PointsExplained
    BY <2>1, <2>4 DEF PointsExplained
  <2> QED
    BY <2>4, <2>5 DEF EarnInv
<1>2. EarnInv => PointsExplained
  BY DEF EarnInv
<1>3. PlayersInv /\ EarnInv /\ [Next]_vars => EarnInv'
  BY EarnStep
<1> QED
  BY <1>1, <1>2, <1>3, PlayersCorrect, PTL DEF Spec
===============================================================================
