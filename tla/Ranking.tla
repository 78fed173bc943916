------------------------------- MODULE Ranking -------------------------------
(***************************************************************************)
(* RankingService (src/src/modules/tenis/services/ranking.service.ts): the *)
(* table tenis_player_stats and the operations that read it, add points and*)
(* renumber it, one database call per step. No operation is in a           *)
(* transaction and every one of them recalculates the whole table.         *)
(*                                                                         *)
(* repository.save is two calls: a SELECT of the rows with the same primary*)
(* key, which decides between INSERT and UPDATE and which columns differ,  *)
(* and the INSERTs and UPDATEs themselves, in a transaction of their own.  *)
(***************************************************************************)
EXTENDS Integers, FiniteSets, Sequences

CONSTANTS
    Player,         \* ids of the active players, in ORDER BY player_id order
    Handler,        \* operations that may be in flight at the same time
    RankDiff,       \* rank differences a match may be awarded with
    MaxOperations   \* bound on the operations that are started

ASSUME RankingAssumption ==
    /\ Player \subseteq Nat /\ IsFiniteSet(Player)
    /\ RankDiff \subseteq Nat
    /\ MaxOperations \in Nat

VARIABLES
    stats,      \* tenis_player_stats: a row for each player that has one
    run,        \* what each handler is doing
    owed,       \* history: the points applyMatchPoints was called to add
    overlapped, \* history: have two operations ever been in flight together?
    started     \* history: operations started so far

vars == <<stats, run, owed, overlapped, started>>

Row == [points : Nat, rank : 0..Cardinality(Player)]    \* rank 0 is NULL
FreshRow == [points |-> 0, rank |-> 0]

(* What save will do to one row.                                           *)
Change == [row : Row, insert : BOOLEAN, points : BOOLEAN, rank : BOOLEAN]

(* The calls of an operation, some with a player or the players they create*)
(* rows for.                                                               *)
Call == {<<c>> : c \in {"listPlayers", "readStats", "renumber", "write", "credit",
                        "list", "answer"}}
        \cup {<<"ensure", p>> : p \in Player} \cup {<<"create", D>> : D \in SUBSET Player}

(* A task: the calls left, the rows held in memory, the write decided by   *)
(* the SELECT of save, the award's arguments, the players whose rank was   *)
(* asked for and the ranks found.                                          *)
Idle == [todo |-> <<>>]
Nothing == [p \in {} |-> FreshRow]
Task(todo, winner, loser, diff, asks) ==
    [todo |-> todo, held |-> Nothing, write |-> Nothing, winner |-> winner,
     loser |-> loser, diff |-> diff, asks |-> asks, ranks |-> <<>>]

(* A task with the rows of D in memory and a write decided for those of E. *)
Work(D, E) ==
    [todo : Seq(Call) \ {<<>>}, held : [D -> Row], write : [E -> Change],
     winner : Player \cup {0}, loser : Player \cup {0}, diff : Nat,
     asks : Seq(Player), ranks : Seq(Nat)]

WorkOK(t) ==
    /\ \E D, E \in SUBSET Player : t \in Work(D, E)
    /\ \A p \in DOMAIN t.write : t.write[p].insert \/ p \in DOMAIN stats

(* The one type invariant. A change that is no INSERT is of a row there is.*)
TypeOK ==
    /\ \E D \in SUBSET Player : stats \in [D -> Row]
    /\ run = [h \in Handler |-> run[h]]
    /\ \A h \in Handler : run[h] = Idle \/ WorkOK(run[h])
    /\ owed \in [Player -> Nat]
    /\ overlapped \in BOOLEAN
    /\ started \in 0..MaxOperations

Init ==
    /\ stats = Nothing
    /\ run = [h \in Handler |-> Idle]
    /\ owed = [p \in Player |-> 0]
    /\ overlapped = FALSE
    /\ started = 0

Quiet == \A h \in Handler : run[h] = Idle

(* Mutation: a player is counted among those ahead of him. *)
PositionWithSelf(table, p) ==
    1 + Cardinality({q \in DOMAIN table : table[q].points >= table[p].points})

(* The position of p in ORDER BY points DESC, player_id ASC. *)
Position(table, p) ==
    1 + Cardinality({q \in DOMAIN table :
                        \/ table[q].points > table[p].points
                        \/ table[q].points = table[p].points /\ q < p})

-----------------------------------------------------------------------------
(* The operations and their calls                                          *)

(* Mutation: the rows are read before the missing ones are created. *)
RecalculateReadFirst == <<<<"readStats">>, <<"listPlayers">>, <<"renumber">>, <<"write">>>>

Recalculate == <<<<"listPlayers">>, <<"readStats">>, <<"renumber">>, <<"write">>>>
GetRankPosition(p) == <<<<"ensure", p>>>> \o Recalculate
(* Mutation: points are added and the table is not renumbered. *)
ApplyWithoutRecalculate(w, l) == <<<<"ensure", w>>, <<"ensure", l>>, <<"credit">>, <<"write">>>>

ApplyMatchPoints(w, l) ==
    <<<<"ensure", w>>, <<"ensure", l>>, <<"credit">>, <<"write">>>> \o Recalculate

Start(h, task) ==
    /\ run[h] = Idle
    /\ started < MaxOperations
    /\ started' = started + 1
    /\ run' = [run EXCEPT ![h] = task]
    /\ overlapped' = (overlapped \/ ~Quiet)
    /\ UNCHANGED stats

StartAward(h, w, l, diff) ==
    /\ w # l
    /\ Start(h, Task(ApplyMatchPoints(w, l), w, l, diff, <<>>))
    /\ owed' = [owed EXCEPT ![w] = @ + 125 + 5 * diff, ![l] = @ + 25]

(* createChallenge and acceptChallenge ask for the two ranks one after the *)
(* other.                                                                  *)
StartChallenge(h, p, q) ==
    /\ p # q
    /\ Start(h, Task(GetRankPosition(p) \o GetRankPosition(q), 0, 0, 0, <<p, q>>))
    /\ UNCHANGED owed

GetRankingList == Recalculate \o <<<<"list">>, <<"answer">>>>

(* /ranking, and the export to a sheet, which reads the same rows.          *)
StartList(h) ==
    /\ Start(h, Task(GetRankingList, 0, 0, 0, <<>>))
    /\ UNCHANGED owed

-----------------------------------------------------------------------------
(* The calls                                                               *)

Calling(h, call) == run[h].todo # <<>> /\ Head(run[h].todo)[1] = call

Becomes(h, task) ==
    /\ run' = [run EXCEPT ![h] = IF task.todo = <<>> THEN Idle ELSE task]
    /\ UNCHANGED <<owed, overlapped, started>>

Rest(h) == [run[h] EXCEPT !.todo = Tail(@)]

(* The write save decides on: a row that is not there is to be inserted, of*)
(* one that is there the columns that differ are to be updated.            *)
Diff(rows) ==
    [p \in DOMAIN rows |->
        [row |-> rows[p],
         insert |-> p \notin DOMAIN stats,
         points |-> p \in DOMAIN stats => rows[p].points # stats[p].points,
         rank |-> p \in DOMAIN stats => rows[p].rank # stats[p].rank]]

WithRow(table, p, row) ==
    [q \in DOMAIN table \cup {p} |-> IF q = p THEN row ELSE table[q]]

(* ensureStats: the row, or a new one that is saved first.                 *)
EnsureStats(h) ==
    LET p == Head(run[h].todo)[2] IN
    /\ Calling(h, "ensure")
    /\ UNCHANGED stats
    /\ IF p \in DOMAIN stats
       THEN Becomes(h, [Rest(h) EXCEPT !.held = WithRow(@, p, stats[p])])
       ELSE Becomes(h, [Rest(h) EXCEPT
                            !.held = WithRow(@, p, FreshRow),
                            !.todo = <<<<"create", {p}>>, <<"write">>>> \o @])

(* The active players without a row get one.                               *)
ListPlayers(h) ==
    LET missing == Player \ DOMAIN stats IN
    /\ Calling(h, "listPlayers")
    /\ UNCHANGED stats
    /\ Becomes(h, IF missing = {} THEN Rest(h)
                  ELSE [Rest(h) EXCEPT !.todo = <<<<"create", missing>>, <<"write">>>> \o @])

CreateRows(h) ==
    /\ Calling(h, "create")
    /\ UNCHANGED stats
    /\ Becomes(h, [Rest(h) EXCEPT
                      !.write = Diff([p \in Head(run[h].todo)[2] |-> FreshRow])])

(* Mutation: winner and loser the wrong way round. *)
CreditSwapped(h) ==
    LET t == run[h]
        credited == [p \in {t.winner, t.loser} |->
                        [t.held[p] EXCEPT !.points = @ + IF p = t.loser
                                                         THEN 125 + 5 * t.diff ELSE 25]] IN
    /\ Calling(h, "credit")
    /\ UNCHANGED stats
    /\ Becomes(h, [Rest(h) EXCEPT !.write = Diff(credited)])

(* The points are added to the rows in memory, which are then saved.       *)
Credit(h) ==
    LET t == run[h]
        credited == [p \in {t.winner, t.loser} |->
                        [t.held[p] EXCEPT !.points = @ + IF p = t.winner
                                                         THEN 125 + 5 * t.diff ELSE 25]] IN
    /\ Calling(h, "credit")
    /\ UNCHANGED stats
    /\ Becomes(h, [Rest(h) EXCEPT !.write = Diff(credited)])

(* The positions are given out in memory, on the rows as they are read.    *)
ReadStats(h) ==
    LET asked == Len(run[h].ranks) + 1 IN
    /\ Calling(h, "readStats")
    /\ UNCHANGED stats
    /\ Becomes(h, [Rest(h) EXCEPT
                      !.held = [p \in DOMAIN stats |->
                                  [stats[p] EXCEPT !.rank = Position(stats, p)]],
                      !.ranks = IF asked <= Len(run[h].asks)
                                THEN Append(@, Position(stats, run[h].asks[asked])) ELSE @])

Renumber(h) ==
    /\ Calling(h, "renumber")
    /\ UNCHANGED stats
    /\ Becomes(h, [Rest(h) EXCEPT !.write = Diff(run[h].held)])

(* The rows are read once more, after the renumbering.                      *)
ReadList(h) ==
    /\ Calling(h, "list")
    /\ UNCHANGED stats
    /\ Becomes(h, [Rest(h) EXCEPT !.held = stats])

(* The names and, for the sheet, the matches and disputes are looked up;   *)
(* the rows are answered by points, each with the rank it holds.           *)
AnswerList(h) ==
    /\ Calling(h, "answer")
    /\ UNCHANGED stats
    /\ Becomes(h, Rest(h))

(* The INSERTs and UPDATEs of a save. An INSERT of a row that somebody else*)
(* has inserted in the meantime throws, and the operation ends there.      *)
Write(h) ==
    LET w == run[h].write
        written(p) == IF w[p].insert THEN w[p].row
                      ELSE [points |-> IF w[p].points THEN w[p].row.points ELSE stats[p].points,
                            rank |-> IF w[p].rank THEN w[p].row.rank ELSE stats[p].rank] IN
    /\ Calling(h, "write")
    /\ IF \E p \in DOMAIN w : w[p].insert /\ p \in DOMAIN stats
       THEN /\ UNCHANGED stats
            /\ Becomes(h, Idle)
       ELSE /\ stats' = [p \in DOMAIN stats \cup DOMAIN w |->
                            IF p \in DOMAIN w THEN written(p) ELSE stats[p]]
            /\ Becomes(h, [Rest(h) EXCEPT !.write = Nothing])

-----------------------------------------------------------------------------
Next ==
    \E h \in Handler :
        \/ \E w, l \in Player, diff \in RankDiff : StartAward(h, w, l, diff)
        \/ \E p, q \in Player : StartChallenge(h, p, q)
        \/ StartList(h)
        \/ EnsureStats(h) \/ ListPlayers(h) \/ CreateRows(h) \/ Credit(h)
        \/ ReadStats(h) \/ Renumber(h) \/ Write(h)
        \/ ReadList(h) \/ AnswerList(h)

Spec == Init /\ [][Next]_vars

-----------------------------------------------------------------------------
Points(p) == IF p \in DOMAIN stats THEN stats[p].points ELSE 0

(* Whatever overlaps, no point comes from nowhere: a stale copy that is    *)
(* saved, a row that is created twice or a renumbering can take points away*)
(* but never credit a match twice.                                         *)
NoPointFromNowhere == \A p \in Player : Points(p) <= owed[p]

(* As long as operations come one after the other every point that is owed *)
(* is there, and after each of them the stored ranks are the positions.    *)
ExactInTurn ==
    ~overlapped /\ Quiet =>
        /\ \A p \in Player : Points(p) = owed[p]
        /\ \A p \in DOMAIN stats : stats[p].rank = Position(stats, p)

(* The two ranks a challenge is checked with come from two recalculations, *)
(* and a list from a read after another one; in turn, both are positions   *)
(* of the table as it stands, and no row of a list contradicts its place.  *)
RanksAgree ==
    ~overlapped => \A h \in Handler :
        run[h] # Idle =>
            /\ \A i \in 1..Len(run[h].ranks) :
                 run[h].ranks[i] = Position(stats, run[h].asks[i])
            /\ Calling(h, "answer") => \A p \in DOMAIN run[h].held :
                 run[h].held[p].rank = Position(run[h].held, p)
=============================================================================
