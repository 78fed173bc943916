---------------------------- MODULE RankingProofs ----------------------------
(***************************************************************************)
(* What Ranking promises for every set of players, every number of         *)
(* operations in flight and every rank difference: its types, that no      *)
(* point comes from nowhere, and what operations that come one after the   *)
(* other leave and answer.                                                 *)
(***************************************************************************)
EXTENDS Ranking, FiniteSetTheorems, SequenceTheorems, TLAPS

(***************************************************************************)
(* Operations as lists of calls.                                           *)
(***************************************************************************)
Cons(c, s) == <<c>> \o s

LEMMA ConsDoes ==
    ASSUME NEW c \in Call, NEW s \in Seq(Call)
    PROVE  /\ Cons(c, s) \in Seq(Call) \ {<<>>}
           /\ Head(Cons(c, s)) = c /\ Tail(Cons(c, s)) = s
  BY DEF Cons

LEMMA NamesAreCalls ==
    /\ \A c \in {"listPlayers", "readStats", "renumber", "write", "credit", "list", "answer"} :
         <<c>> \in Call
    /\ \A p \in Player : <<"ensure", p>> \in Call
    /\ \A D \in SUBSET Player : <<"create", D>> \in Call
  BY DEF Call

Saving(s) == Cons(<<"write">>, s)
Creating(D, s) == Cons(<<"create", D>>, Saving(s))
Ensuring(p, s) == Cons(<<"ensure", p>>, s)
Renumbering(s) == Cons(<<"renumber">>, Saving(s))
Reading(s) == Cons(<<"readStats">>, Renumbering(s))
Recalculating(s) == Cons(<<"listPlayers">>, Reading(s))
Crediting == Cons(<<"credit">>, Saving(Recalculating(<<>>)))
Answering == Cons(<<"answer">>, <<>>)
Listing == Cons(<<"list">>, Answering)

LEMMA Programs ==
    ASSUME NEW s \in Seq(Call)
    PROVE  /\ Saving(s) \in Seq(Call) \ {<<>>} /\ Renumbering(s) \in Seq(Call) \ {<<>>}
           /\ Reading(s) \in Seq(Call) \ {<<>>} /\ Recalculating(s) \in Seq(Call) \ {<<>>}
           /\ \A p \in Player : Ensuring(p, s) \in Seq(Call) \ {<<>>}
           /\ \A D \in SUBSET Player : Creating(D, s) \in Seq(Call) \ {<<>>}
<1>1. /\ Saving(s) \in Seq(Call) \ {<<>>}
      /\ \A p \in Player : Ensuring(p, s) \in Seq(Call) \ {<<>>}
  BY NamesAreCalls, ConsDoes DEF Saving, Ensuring
<1>2. /\ \A D \in SUBSET Player : Creating(D, s) \in Seq(Call) \ {<<>>}
      /\ Renumbering(s) \in Seq(Call) \ {<<>>}
  BY <1>1, NamesAreCalls, ConsDoes DEF Creating, Renumbering
<1>3. Reading(s) \in Seq(Call) \ {<<>>}
  BY <1>2, NamesAreCalls, ConsDoes DEF Reading
<1>4. Recalculating(s) \in Seq(Call) \ {<<>>}
  BY <1>3, NamesAreCalls, ConsDoes DEF Recalculating
<1> QED
  BY <1>1, <1>2, <1>3, <1>4

LEMMA Endings ==
    /\ <<>> \in Seq(Call) /\ Crediting \in Seq(Call) \ {<<>>}
    /\ Answering \in Seq(Call) \ {<<>>} /\ Listing \in Seq(Call) \ {<<>>}
<1>1. <<>> \in Seq(Call)
  OBVIOUS
<1>2. Answering \in Seq(Call) \ {<<>>} /\ Saving(Recalculating(<<>>)) \in Seq(Call) \ {<<>>}
  BY <1>1, NamesAreCalls, ConsDoes, Programs DEF Answering
<1> QED
  BY <1>1, <1>2, NamesAreCalls, ConsDoes DEF Crediting, Listing

LEMMA FourCalls ==
    ASSUME NEW a \in Call, NEW b \in Call, NEW c \in Call, NEW d \in Call, NEW s \in Seq(Call)
    PROVE  Cons(a, Cons(b, Cons(c, Cons(d, s)))) = <<a, b, c, d>> \o s
<1> DEFINE x == <<a>> \o (<<b>> \o (<<c>> \o (<<d>> \o s)))
           y == <<a, b, c, d>> \o s
<1>1. x \in Seq(Call) /\ y \in Seq(Call) /\ Len(x) = Len(y)
  OBVIOUS
<1>2. \A i \in 1..Len(x) : x[i] = y[i]
  OBVIOUS
<1> QED
  BY <1>1, <1>2, SeqEqual DEF Cons

LEMMA TwoCalls ==
    ASSUME NEW a \in Call, NEW b \in Call
    PROVE  Cons(a, Cons(b, <<>>)) = <<a, b>>
<1>1. <<b>> \o <<>> = <<b>> /\ <<a>> \o <<b>> \in Seq(Call) /\ <<a, b>> \in Seq(Call)
  OBVIOUS
<1>2. /\ Len(<<a, b>>) = 2 /\ Len(<<a>> \o <<b>>) = 2
      /\ \A i \in 1..Len(<<a, b>>) : (<<a>> \o <<b>>)[i] = <<a, b>>[i]
  OBVIOUS
<1> QED
  BY <1>1, <1>2, SeqEqual DEF Cons

(* The operations, call by call. *)
LEMMA Operations ==
    /\ Recalculate = Recalculating(<<>>)
    /\ GetRankingList = Recalculating(Listing)
    /\ \A p \in Player, s \in Seq(Call) :
         GetRankPosition(p) \o s = Ensuring(p, Recalculating(s))
    /\ \A w, l \in Player : ApplyMatchPoints(w, l) = Ensuring(w, Ensuring(l, Crediting))
<1>1. \A s \in Seq(Call) : Recalculate \o s = Recalculating(s)
  BY NamesAreCalls DEF Recalculate, Recalculating, Reading, Renumbering, Saving, Cons
<1>2. Recalculate = Recalculating(<<>>)
  <2>1. Recalculate \in Seq(Call)
    BY NamesAreCalls DEF Recalculate
  <2>2. Recalculate \o <<>> = Recalculate
    BY <2>1
  <2> QED
    BY <1>1, <2>2, Endings
<1>3. GetRankingList = Recalculating(Listing)
  <2>1. Listing = <<<<"list">>, <<"answer">>>>
    BY NamesAreCalls, TwoCalls DEF Listing, Answering
  <2> QED
    BY <1>1, <2>1, Endings DEF GetRankingList
<1>4. \A p \in Player, s \in Seq(Call) : GetRankPosition(p) \o s = Ensuring(p, Recalculating(s))
  <2> SUFFICES ASSUME NEW p \in Player, NEW s \in Seq(Call)
               PROVE  GetRankPosition(p) \o s = Ensuring(p, Recalculating(s))
    OBVIOUS
  <2>1. Recalculate \in Seq(Call) /\ <<"ensure", p>> \in Call
    BY NamesAreCalls DEF Recalculate
  <2>2. (<<<<"ensure", p>>>> \o Recalculate) \o s = <<<<"ensure", p>>>> \o (Recalculate \o s)
    BY <2>1
  <2> QED
    BY <1>1, <2>2 DEF GetRankPosition, Ensuring, Cons
<1>5. \A w, l \in Player : ApplyMatchPoints(w, l) = Ensuring(w, Ensuring(l, Crediting))
  <2> SUFFICES ASSUME NEW w \in Player, NEW l \in Player
               PROVE  ApplyMatchPoints(w, l) = Ensuring(w, Ensuring(l, Crediting))
    OBVIOUS
  <2>1. Recalculate \in Seq(Call)
    BY NamesAreCalls DEF Recalculate
  <2>2. Ensuring(w, Ensuring(l, Crediting)) =
          <<<<"ensure", w>>, <<"ensure", l>>, <<"credit">>, <<"write">>>> \o Recalculating(<<>>)
    <3>1. Recalculating(<<>>) \in Seq(Call)
      BY Endings, Programs
    <3>2. /\ <<"ensure", w>> \in Call /\ <<"ensure", l>> \in Call
          /\ <<"credit">> \in Call /\ <<"write">> \in Call
      BY NamesAreCalls
    <3> DEFINE a == <<"ensure", w>>  b == <<"ensure", l>>  c == <<"credit">>  d == <<"write">>
               s == Recalculating(<<>>)
    <3>3. a \in Call /\ b \in Call /\ c \in Call /\ d \in Call /\ s \in Seq(Call)
      BY <3>1, <3>2
    <3>4. Ensuring(w, Ensuring(l, Crediting)) = Cons(a, Cons(b, Cons(c, Cons(d, s))))
      BY DEF Ensuring, Crediting, Saving
    <3> HIDE DEF a, b, c, d, s
    <3>5. Cons(a, Cons(b, Cons(c, Cons(d, s)))) = <<a, b, c, d>> \o s
      BY <3>3, FourCalls
    <3> QED
      BY <3>4, <3>5 DEF a, b, c, d, s
  <2> QED
    BY <1>2, <2>2 DEF ApplyMatchPoints
<1> QED
  BY <1>2, <1>3, <1>4, <1>5

-----------------------------------------------------------------------------
(***************************************************************************)
(* Tables and positions.                                                   *)
(***************************************************************************)
IsTable(T) == \E D \in SUBSET Player : T \in [D -> Row]

LEMMA RowFields ==
    /\ \A r \in Row : r.points \in Nat /\ r.rank \in 0..Cardinality(Player)
    /\ \A x \in Nat, y \in 0..Cardinality(Player) :
         /\ [points |-> x, rank |-> y] \in Row
         /\ [points |-> x, rank |-> y].points = x /\ [points |-> x, rank |-> y].rank = y
    /\ \A r \in Row, x \in Nat :
         [r EXCEPT !.points = x] \in Row /\ [r EXCEPT !.points = x].points = x
    /\ \A r \in Row, y \in 0..Cardinality(Player) :
         /\ [r EXCEPT !.rank = y] \in Row /\ [r EXCEPT !.rank = y].points = r.points
         /\ [r EXCEPT !.rank = y].rank = y
    /\ FreshRow \in Row /\ FreshRow.points = 0
<1>1. Cardinality(Player) \in Nat
  BY FS_CardinalityType, RankingAssumption
<1> QED
  BY <1>1 DEF Row, FreshRow

LEMMA TableFields ==
    ASSUME NEW T, IsTable(T)
    PROVE  /\ DOMAIN T \in SUBSET Player /\ T \in [DOMAIN T -> Row]
           /\ \A p \in DOMAIN T : T[p] \in Row /\ T[p].points \in Nat
  BY RowFields DEF IsTable

LEMMA WithRowIsTable ==
    ASSUME NEW T, IsTable(T), NEW p \in Player, NEW r \in Row
    PROVE  /\ IsTable(WithRow(T, p, r)) /\ DOMAIN WithRow(T, p, r) = DOMAIN T \cup {p}
           /\ WithRow(T, p, r)[p] = r
           /\ \A q \in DOMAIN T : q # p => WithRow(T, p, r)[q] = T[q]
<1>1. DOMAIN T \in SUBSET Player /\ T \in [DOMAIN T -> Row]
  BY TableFields
<1>2. WithRow(T, p, r) \in [DOMAIN T \cup {p} -> Row]
  BY <1>1 DEF WithRow
<1> QED
  BY <1>1, <1>2 DEF WithRow, IsTable

(* The players ahead of one leave a place for him among the players.       *)
LEMMA PositionBound ==
    ASSUME NEW T, IsTable(T), NEW p
    PROVE  /\ Position(T, p) \in Nat
           /\ p \in Player => Position(T, p) \in 0..Cardinality(Player)
<1> DEFINE A == {q \in DOMAIN T : \/ T[q].points > T[p].points
                                  \/ T[q].points = T[p].points /\ q < p}
<1>1. A \subseteq Player /\ IsFiniteSet(Player) /\ Cardinality(Player) \in Nat
  BY TableFields, RankingAssumption, FS_CardinalityType
<1>2. IsFiniteSet(A) /\ Cardinality(A) \in Nat
  BY <1>1, FS_Subset, FS_CardinalityType
<1>3. ASSUME p \in Player
      PROVE  1 + Cardinality(A) \in 0..Cardinality(Player)
  <2>1. A \subseteq Player \ {p}
    <3> SUFFICES p \notin A
      BY <1>1
    <3>1. CASE p \in DOMAIN T
      <4>1. p \in Nat /\ T[p].points \in Nat
        BY <1>3, <3>1, TableFields, RankingAssumption
      <4> QED
        BY <4>1
    <3> QED
      BY <3>1
  <2>2. IsFiniteSet(Player \ {p}) /\ Cardinality(Player \ {p}) = Cardinality(Player) - 1
    BY <1>1, <1>3, FS_RemoveElement
  <2>3. Cardinality(A) <= Cardinality(Player \ {p})
    BY <2>1, <2>2, FS_Subset
  <2> QED
    BY <1>1, <1>2, <2>2, <2>3
<1> QED
  BY <1>2, <1>3 DEF Position
-----------------------------------------------------------------------------
(***************************************************************************)
(* Tasks: a task that fits a table, and what changing one part of it does. *)
(***************************************************************************)
Fits(t, T) ==
    /\ \E D, E \in SUBSET Player :
         t \in [todo : Seq(Call), held : [D -> Row], write : [E -> Change],
                winner : Player \cup {0}, loser : Player \cup {0}, diff : Nat,
                asks : Seq(Player), ranks : Seq(Nat)]
    /\ \A p \in DOMAIN t.write : t.write[p].insert \/ p \in DOMAIN T

LEMMA FitsIsWorkOK ==
    \A t : (WorkOK(t) <=> Fits(t, stats) /\ t.todo # <<>>)
  BY DEF WorkOK, Fits, Work

LEMMA FitsFields ==
    ASSUME NEW t, NEW T, Fits(t, T)
    PROVE  /\ t.todo \in Seq(Call) /\ IsTable(t.held)
           /\ DOMAIN t.write \subseteq Player
           /\ \A p \in DOMAIN t.write : t.write[p] \in Change
           /\ t.winner \in Player \cup {0} /\ t.loser \in Player \cup {0} /\ t.diff \in Nat
           /\ t.asks \in Seq(Player) /\ t.ranks \in Seq(Nat)
  BY DEF Fits, IsTable

LEMMA NewTodo ==
    ASSUME NEW t, NEW T, Fits(t, T), NEW s \in Seq(Call)
    PROVE  LET u == [t EXCEPT !.todo = s]
           IN  /\ Fits(u, T) /\ u.todo = s
               /\ u.held = t.held /\ u.write = t.write /\ u.winner = t.winner
               /\ u.loser = t.loser /\ u.diff = t.diff /\ u.asks = t.asks /\ u.ranks = t.ranks
  BY DEF Fits

LEMMA NewHeld ==
    ASSUME NEW t, NEW T, Fits(t, T), NEW H, IsTable(H)
    PROVE  LET u == [t EXCEPT !.held = H]
           IN  /\ Fits(u, T) /\ u.held = H
               /\ u.todo = t.todo /\ u.write = t.write /\ u.winner = t.winner
               /\ u.loser = t.loser /\ u.diff = t.diff /\ u.asks = t.asks /\ u.ranks = t.ranks
  BY DEF Fits, IsTable

LEMMA NewRanks ==
    ASSUME NEW t, NEW T, Fits(t, T), NEW R \in Seq(Nat)
    PROVE  LET u == [t EXCEPT !.ranks = R]
           IN  /\ Fits(u, T) /\ u.ranks = R
               /\ u.todo = t.todo /\ u.write = t.write /\ u.winner = t.winner
               /\ u.loser = t.loser /\ u.diff = t.diff /\ u.asks = t.asks /\ u.held = t.held
  BY DEF Fits

LEMMA NewWrite ==
    ASSUME NEW t, NEW T, Fits(t, T), NEW E \in SUBSET Player, NEW W \in [E -> Change],
           \A p \in E : W[p].insert \/ p \in DOMAIN T
    PROVE  LET u == [t EXCEPT !.write = W]
           IN  /\ Fits(u, T) /\ u.write = W
               /\ u.todo = t.todo /\ u.held = t.held /\ u.winner = t.winner
               /\ u.loser = t.loser /\ u.diff = t.diff /\ u.asks = t.asks /\ u.ranks = t.ranks
  BY DEF Fits

LEMMA FitsLarger ==
    ASSUME NEW t, NEW T, NEW U, Fits(t, T), DOMAIN T \subseteq DOMAIN U
    PROVE  Fits(t, U)
  BY DEF Fits
-----------------------------------------------------------------------------
(***************************************************************************)
(* Where a task stands. Only an award credits, and by then it holds a row  *)
(* of both its players.                                                    *)
(***************************************************************************)
Plain == Call \ {<<"credit">>}

Awarding(todo, w, l, D) ==
    /\ w \in Player /\ l \in Player /\ w # l
    /\ \/ todo = Ensuring(w, Ensuring(l, Crediting))
       \/ /\ w \in D
          /\ \/ todo = Creating({w}, Ensuring(l, Crediting))
             \/ todo = Saving(Ensuring(l, Crediting))
             \/ todo = Ensuring(l, Crediting)
       \/ /\ w \in D /\ l \in D
          /\ \/ todo = Creating({l}, Crediting)
             \/ todo = Saving(Crediting)
             \/ todo = Crediting

Placed(t) ==
    t.todo \in Seq(Plain) \/ Awarding(t.todo, t.winner, t.loser, DOMAIN t.held)

TypeInv == TypeOK /\ \A h \in Handler : Placed(run[h])

LEMMA PlainPrograms ==
    /\ <<>> \in Seq(Plain) /\ Listing \in Seq(Plain) /\ Answering \in Seq(Plain)
    /\ \A s \in Seq(Plain) :
         /\ s \in Seq(Call) /\ (s # <<>> => Tail(s) \in Seq(Plain))
         /\ Saving(s) \in Seq(Plain) /\ Renumbering(s) \in Seq(Plain)
         /\ Reading(s) \in Seq(Plain) /\ Recalculating(s) \in Seq(Plain)
         /\ \A p \in Player : Ensuring(p, s) \in Seq(Plain)
         /\ \A D \in SUBSET Player : Creating(D, s) \in Seq(Plain)
<1>1. \A c \in Plain, s \in Seq(Plain) : Cons(c, s) \in Seq(Plain)
  BY DEF Cons
<1>2. /\ \A c \in {"listPlayers", "readStats", "renumber", "write", "list", "answer"} :
           <<c>> \in Plain
      /\ \A p \in Player : <<"ensure", p>> \in Plain
      /\ \A D \in SUBSET Player : <<"create", D>> \in Plain
  <2>1. \A c \in {"listPlayers", "readStats", "renumber", "write", "list", "answer"} :
          <<c>> # <<"credit">>
    OBVIOUS
  <2>2. \A x : <<"ensure", x>> # <<"credit">> /\ <<"create", x>> # <<"credit">>
    OBVIOUS
  <2> QED
    BY <2>1, <2>2, NamesAreCalls DEF Plain
<1>3. <<>> \in Seq(Plain)
  OBVIOUS
<1>4. Answering \in Seq(Plain) /\ Listing \in Seq(Plain)
  BY <1>1, <1>2, <1>3 DEF Answering, Listing
<1>5. ASSUME NEW s \in Seq(Plain)
      PROVE  /\ Saving(s) \in Seq(Plain) /\ Renumbering(s) \in Seq(Plain)
             /\ Reading(s) \in Seq(Plain) /\ Recalculating(s) \in Seq(Plain)
             /\ \A p \in Player : Ensuring(p, s) \in Seq(Plain)
             /\ \A D \in SUBSET Player : Creating(D, s) \in Seq(Plain)
  <2>1. /\ Saving(s) \in Seq(Plain)
        /\ \A p \in Player : Ensuring(p, s) \in Seq(Plain)
    BY <1>1, <1>2 DEF Saving, Ensuring
  <2>2. /\ \A D \in SUBSET Player : Creating(D, s) \in Seq(Plain)
        /\ Renumbering(s) \in Seq(Plain)
    BY <2>1, <1>1, <1>2 DEF Creating, Renumbering
  <2>3. Reading(s) \in Seq(Plain)
    BY <2>2, <1>1, <1>2 DEF Reading
  <2>4. Recalculating(s) \in Seq(Plain)
    BY <2>3, <1>1, <1>2 DEF Recalculating
  <2> QED
    BY <2>1, <2>2, <2>3, <2>4
<1>6. ASSUME NEW s \in Seq(Plain)
      PROVE  s \in Seq(Call) /\ (s # <<>> => Tail(s) \in Seq(Plain))
  BY DEF Plain
<1> QED
  BY <1>3, <1>4, <1>5, <1>6

LEMMA Shapes ==
    ASSUME NEW s \in Seq(Call)
    PROVE  /\ Head(Saving(s)) = <<"write">> /\ Tail(Saving(s)) = s
           /\ Head(Renumbering(s)) = <<"renumber">> /\ Tail(Renumbering(s)) = Saving(s)
           /\ Head(Reading(s)) = <<"readStats">> /\ Tail(Reading(s)) = Renumbering(s)
           /\ Head(Recalculating(s)) = <<"listPlayers">> /\ Tail(Recalculating(s)) = Reading(s)
           /\ \A p \in Player : /\ Head(Ensuring(p, s)) = <<"ensure", p>>
                                /\ Tail(Ensuring(p, s)) = s
           /\ \A D \in SUBSET Player : /\ Head(Creating(D, s)) = <<"create", D>>
                                       /\ Tail(Creating(D, s)) = Saving(s)
<1>1. /\ Saving(s) \in Seq(Call) /\ Renumbering(s) \in Seq(Call) /\ Reading(s) \in Seq(Call)
  BY Programs
<1>2. /\ Head(Saving(s)) = <<"write">> /\ Tail(Saving(s)) = s
      /\ \A p \in Player : /\ Head(Ensuring(p, s)) = <<"ensure", p>>
                           /\ Tail(Ensuring(p, s)) = s
  BY NamesAreCalls, ConsDoes DEF Saving, Ensuring
<1>3. /\ Head(Renumbering(s)) = <<"renumber">> /\ Tail(Renumbering(s)) = Saving(s)
      /\ \A D \in SUBSET Player : /\ Head(Creating(D, s)) = <<"create", D>>
                                  /\ Tail(Creating(D, s)) = Saving(s)
  BY <1>1, NamesAreCalls, ConsDoes DEF Renumbering, Creating
<1>4. /\ Head(Reading(s)) = <<"readStats">> /\ Tail(Reading(s)) = Renumbering(s)
      /\ Head(Recalculating(s)) = <<"listPlayers">> /\ Tail(Recalculating(s)) = Reading(s)
  BY <1>1, NamesAreCalls, ConsDoes DEF Reading, Recalculating
<1> QED
  BY <1>2, <1>3, <1>4

LEMMA LastShapes ==
    /\ Head(Crediting) = <<"credit">> /\ Tail(Crediting) = Saving(Recalculating(<<>>))
    /\ Head(Listing) = <<"list">> /\ Tail(Listing) = Answering
    /\ Head(Answering) = <<"answer">> /\ Tail(Answering) = <<>>
<1>1. /\ <<>> \in Seq(Call) /\ Answering \in Seq(Call)
      /\ Saving(Recalculating(<<>>)) \in Seq(Call)
  BY Endings, Programs
<1> QED
  BY <1>1, NamesAreCalls, ConsDoes DEF Crediting, Listing, Answering

(* The head of a list of calls, by its name.                               *)
LEMMA Heads ==
    ASSUME NEW s \in Seq(Call), s # <<>>
    PROVE  /\ Head(s) \in Call /\ Tail(s) \in Seq(Call)
           /\ Head(s)[1] = "ensure" => \E p \in Player : Head(s) = <<"ensure", p>>
           /\ Head(s)[1] = "create" => \E D \in SUBSET Player : Head(s) = <<"create", D>>
           /\ Head(s)[1] = "credit" => Head(s) = <<"credit">>
<1>1. Head(s) \in Call /\ Tail(s) \in Seq(Call)
  OBVIOUS
<1> QED
  BY <1>1 DEF Call

LEMMA CreateFirst ==
    ASSUME NEW D \in SUBSET Player, NEW s \in Seq(Call)
    PROVE  <<<<"create", D>>, <<"write">>>> \o s = Creating(D, s)
<1> DEFINE a == <<"create", D>>  b == <<"write">>
           x == <<a>> \o (<<b>> \o s)
           y == <<a, b>> \o s
<1>1. a \in Call /\ b \in Call
  BY NamesAreCalls
<1> HIDE DEF a, b
<1>2. x \in Seq(Call) /\ y \in Seq(Call) /\ Len(x) = Len(y)
  BY <1>1
<1>3. \A i \in 1..Len(x) : x[i] = y[i]
  BY <1>1
<1>4. x = y
  BY <1>2, <1>3, SeqEqual
<1> QED
  BY <1>4 DEF Creating, Saving, Cons, a, b

LEMMA AwardingPrograms ==
    ASSUME NEW w \in Player, NEW l \in Player
    PROVE  /\ Crediting \in Seq(Call) /\ Ensuring(l, Crediting) \in Seq(Call)
           /\ Saving(Crediting) \in Seq(Call) /\ Saving(Ensuring(l, Crediting)) \in Seq(Call)
           /\ Creating({l}, Crediting) \in Seq(Call)
           /\ Creating({w}, Ensuring(l, Crediting)) \in Seq(Call)
           /\ Ensuring(w, Ensuring(l, Crediting)) \in Seq(Call)
<1>1. Crediting \in Seq(Call) /\ Ensuring(l, Crediting) \in Seq(Call)
  BY Endings, Programs
<1> QED
  BY <1>1, Programs

(* The head of what an award has still to do.                              *)
LEMMA AwardingHeads ==
    ASSUME NEW s, NEW w, NEW l, NEW D, Awarding(s, w, l, D)
    PROVE  /\ s \in Seq(Call)
           /\ Head(s)[1] \in {"ensure", "create", "write", "credit"}
           /\ \A p : Head(s) = <<"ensure", p>> =>
                \/ p = w /\ Tail(s) = Ensuring(l, Crediting)
                \/ p = l /\ Tail(s) = Crediting /\ w \in D
           /\ Head(s)[1] = "create" =>
                /\ w \in D
                /\ \/ Tail(s) = Saving(Ensuring(l, Crediting))
                   \/ Tail(s) = Saving(Crediting) /\ l \in D
           /\ Head(s)[1] = "write" =>
                /\ w \in D
                /\ \/ Tail(s) = Ensuring(l, Crediting)
                   \/ Tail(s) = Crediting /\ l \in D
           /\ Head(s) = <<"credit">> => s = Crediting /\ w \in D /\ l \in D
<1>1. w \in Player /\ l \in Player
  BY DEF Awarding
<1>2. Crediting \in Seq(Call) /\ Ensuring(l, Crediting) \in Seq(Call)
  BY <1>1, AwardingPrograms
<1>3. s \in Seq(Call)
  BY <1>1, AwardingPrograms DEF Awarding
<1>4. CASE s = Ensuring(w, Ensuring(l, Crediting))
  <2>1. Head(s) = <<"ensure", w>> /\ Tail(s) = Ensuring(l, Crediting)
    BY <1>1, <1>2, <1>4, Shapes
  <2>2. /\ Head(s)[1] = "ensure" /\ Head(s) # <<"credit">>
        /\ \A p : (Head(s) = <<"ensure", p>> => p = Head(s)[2])
    BY <2>1
  <2>3. Head(s)[2] = w
    BY <2>1
  <2>4. \A p : (Head(s) = <<"ensure", p>> =>
                    \/ p = w /\ Tail(s) = Ensuring(l, Crediting)
                    \/ p = l /\ Tail(s) = Crediting /\ w \in D)
    BY <1>4, <2>1, <2>2, <2>3
  <2> QED
    BY <1>3, <2>2, <2>4
<1>5. CASE w \in D /\ s = Creating({w}, Ensuring(l, Crediting))
  <2>1. Head(s) = <<"create", {w}>> /\ Tail(s) = Saving(Ensuring(l, Crediting))
    BY <1>1, <1>2, <1>5, Shapes
  <2>2. /\ Head(s)[1] = "create" /\ Head(s) # <<"credit">>
        /\ \A p : Head(s) # <<"ensure", p>>
    BY <2>1
  <2> QED
    BY <1>3, <1>5, <2>1, <2>2
<1>6. CASE w \in D /\ s = Saving(Ensuring(l, Crediting))
  <2>1. Head(s) = <<"write">> /\ Tail(s) = Ensuring(l, Crediting)
    BY <1>1, <1>2, <1>6, Shapes
  <2>2. /\ Head(s)[1] = "write" /\ Head(s) # <<"credit">>
        /\ \A p : Head(s) # <<"ensure", p>>
    BY <2>1
  <2> QED
    BY <1>3, <1>6, <2>1, <2>2
<1>7. CASE w \in D /\ s = Ensuring(l, Crediting)
  <2>1. Head(s) = <<"ensure", l>> /\ Tail(s) = Crediting
    BY <1>1, <1>2, <1>7, Shapes
  <2>2. /\ Head(s)[1] = "ensure" /\ Head(s) # <<"credit">>
        /\ \A p : (Head(s) = <<"ensure", p>> => p = Head(s)[2])
    BY <2>1
  <2>3. Head(s)[2] = l
    BY <2>1
  <2>4. \A p : (Head(s) = <<"ensure", p>> =>
                    \/ p = w /\ Tail(s) = Ensuring(l, Crediting)
                    \/ p = l /\ Tail(s) = Crediting /\ w \in D)
    BY <1>7, <2>1, <2>2, <2>3
  <2> QED
    BY <1>3, <2>2, <2>4
<1>8. CASE w \in D /\ l \in D /\ s = Creating({l}, Crediting)
  <2>1. Head(s) = <<"create", {l}>> /\ Tail(s) = Saving(Crediting)
    BY <1>1, <1>2, <1>8, Shapes
  <2>2. /\ Head(s)[1] = "create" /\ Head(s) # <<"credit">>
        /\ \A p : Head(s) # <<"ensure", p>>
    BY <2>1
  <2> QED
    BY <1>3, <1>8, <2>1, <2>2
<1>9. CASE w \in D /\ l \in D /\ s = Saving(Crediting)
  <2>1. Head(s) = <<"write">> /\ Tail(s) = Crediting
    BY <1>1, <1>2, <1>9, Shapes
  <2>2. /\ Head(s)[1] = "write" /\ Head(s) # <<"credit">>
        /\ \A p : Head(s) # <<"ensure", p>>
    BY <2>1
  <2> QED
    BY <1>3, <1>9, <2>1, <2>2
<1>10. CASE w \in D /\ l \in D /\ s = Crediting
  <2>1. Head(s) = <<"credit">>
    BY <1>10, LastShapes
  <2>2. Head(s)[1] = "credit" /\ \A p : Head(s) # <<"ensure", p>>
    BY <2>1
  <2> QED
    BY <1>3, <1>10, <2>1, <2>2
<1> QED
  BY <1>4, <1>5, <1>6, <1>7, <1>8, <1>9, <1>10 DEF Awarding
-----------------------------------------------------------------------------
(***************************************************************************)
(* Types.                                                                  *)
(***************************************************************************)
LEMMA IdleIsPlaced == Idle.todo = <<>> /\ Placed(Idle)
<1>1. Idle.todo = <<>>
  BY DEF Idle
<1> QED
  BY <1>1, PlainPrograms DEF Placed

LEMMA AtWork ==
    ASSUME TypeInv, NEW h \in Handler, run[h].todo # <<>>
    PROVE  /\ IsTable(stats) /\ Fits(run[h], stats) /\ Placed(run[h])
           /\ run[h].todo \in Seq(Call) /\ run[h] # Idle
<1>1. run[h] # Idle
  BY IdleIsPlaced
<1>2. Fits(run[h], stats)
  BY <1>1, FitsIsWorkOK DEF TypeInv, TypeOK
<1>3. run[h].todo \in Seq(Call)
  BY <1>2, FitsFields
<1> QED
  BY <1>1, <1>2, <1>3 DEF TypeInv, TypeOK, IsTable

(* Whoever does not move stays as well typed as the table grows.           *)
LEMMA Bystander ==
    ASSUME TypeInv, NEW h \in Handler, run'[h] = run[h], DOMAIN stats \subseteq DOMAIN stats'
    PROVE  (run[h] = Idle \/ WorkOK(run[h]))' /\ Placed(run[h])'
<1>1. CASE run[h] = Idle
  BY <1>1, IdleIsPlaced DEF Placed
<1>2. CASE WorkOK(run[h])
  <2>1. Fits(run[h], stats) /\ run[h].todo # <<>>
    BY <1>2, FitsIsWorkOK
  <2>2. Fits(run[h], stats')
    BY <2>1, FitsLarger
  <2>3. WorkOK(run[h])'
    BY <2>1, <2>2 DEF Fits, WorkOK, Work
  <2> QED
    BY <2>3 DEF TypeInv, Placed
<1> QED
  BY <1>1, <1>2 DEF TypeInv, TypeOK

LEMMA TurnTaken ==
    ASSUME TypeInv, NEW h \in Handler, NEW t,
           run' = [run EXCEPT ![h] = IF t.todo = <<>> THEN Idle ELSE t],
           IsTable(stats'), DOMAIN stats \subseteq DOMAIN stats',
           t.todo = <<>> \/ (Fits(t, stats') /\ Placed(t)),
           owed' \in [Player -> Nat], overlapped' \in BOOLEAN, started' \in 0..MaxOperations
    PROVE  TypeInv'
<1>1. /\ run = [g \in Handler |-> run[g]] /\ run' = [g \in Handler |-> run'[g]]
      /\ \A g \in Handler : g # h => run'[g] = run[g]
      /\ run'[h] = IF t.todo = <<>> THEN Idle ELSE t
  BY DEF TypeInv, TypeOK
<1>2. (run[h] = Idle \/ WorkOK(run[h]))' /\ Placed(run[h])'
  <2>1. CASE t.todo = <<>>
    BY <1>1, <2>1, IdleIsPlaced DEF Placed
  <2>2. CASE t.todo # <<>>
    <3>1. run'[h] = t /\ Fits(t, stats') /\ Placed(t)
      BY <1>1, <2>2
    <3>2. WorkOK(run[h])'
      BY <2>2, <3>1 DEF Fits, WorkOK, Work
    <3> QED
      BY <3>1, <3>2 DEF Placed
  <2> QED
    BY <2>1, <2>2
<1>3. \A g \in Handler : (run[g] = Idle \/ WorkOK(run[g]))' /\ Placed(run[g])'
  <2> TAKE g \in Handler
  <2>1. CASE g = h
    BY <1>2, <2>1
  <2>2. CASE g # h
    <3>1. run'[g] = run[g]
      BY <1>1, <2>2
    <3> QED
      BY <3>1, Bystander
  <2> QED
    BY <2>1, <2>2
<1>4. (\E D \in SUBSET Player : stats \in [D -> Row])'
  BY DEF IsTable
<1> QED
  BY <1>1, <1>3, <1>4 DEF TypeInv, TypeOK
-----------------------------------------------------------------------------
(***************************************************************************)
(* What each call does to the task that makes it.                          *)
(***************************************************************************)
Same(t, u) ==
    t.winner = u.winner /\ t.loser = u.loser /\ t.diff = u.diff /\ t.asks = u.asks

LEMMA RestFits ==
    ASSUME TypeInv, NEW h \in Handler, run[h].todo # <<>>
    PROVE  /\ Fits(Rest(h), stats) /\ Rest(h).todo = Tail(run[h].todo)
           /\ Tail(run[h].todo) \in Seq(Call)
           /\ Rest(h).held = run[h].held /\ Rest(h).write = run[h].write
           /\ Rest(h).ranks = run[h].ranks /\ Same(Rest(h), run[h])
<1>1. Fits(run[h], stats) /\ run[h].todo \in Seq(Call)
  BY AtWork
<1>2. Tail(run[h].todo) \in Seq(Call)
  BY <1>1, Heads
<1>3. PICK t : t = run[h]
  OBVIOUS
<1>4. PICK k : k = Tail(run[h].todo)
  OBVIOUS
<1>5. Rest(h) = [t EXCEPT !.todo = k]
  BY <1>3, <1>4 DEF Rest
<1>6. Fits(t, stats) /\ k \in Seq(Call)
  BY <1>1, <1>2, <1>3, <1>4
<1>7. /\ Fits(Rest(h), stats) /\ Rest(h).todo = k
      /\ Rest(h).held = t.held /\ Rest(h).write = t.write /\ Rest(h).ranks = t.ranks
      /\ Rest(h).winner = t.winner /\ Rest(h).loser = t.loser
      /\ Rest(h).diff = t.diff /\ Rest(h).asks = t.asks
  BY <1>5, <1>6, NewTodo
<1> QED
  BY <1>2, <1>3, <1>4, <1>7 DEF Same

LEMMA EnsureStatsDoes ==
    ASSUME TypeInv, NEW h \in Handler, EnsureStats(h)
    PROVE  \E p, t :
              /\ p \in Player
              /\ Head(run[h].todo) = <<"ensure", p>> /\ Head(run[h].todo)[1] = "ensure"
              /\ run[h].todo # <<>> /\ Becomes(h, t) /\ stats' = stats /\ Fits(t, stats)
              /\ Same(t, run[h]) /\ t.write = run[h].write /\ t.ranks = run[h].ranks
              /\ IF p \in DOMAIN stats
                 THEN /\ t.todo = Tail(run[h].todo)
                      /\ t.held = WithRow(run[h].held, p, stats[p])
                 ELSE /\ t.todo = Creating({p}, Tail(run[h].todo))
                      /\ t.held = WithRow(run[h].held, p, FreshRow)
<1>1. run[h].todo # <<>> /\ Head(run[h].todo)[1] = "ensure"
  BY DEF EnsureStats, Calling
<1>2. PICK p \in Player : Head(run[h].todo) = <<"ensure", p>>
  BY <1>1, AtWork, Heads
<1>3. Head(run[h].todo)[2] = p
  BY <1>2
<1>4. PICK a : a = Rest(h)
  OBVIOUS
<1>5. PICK k : k = Tail(run[h].todo)
  OBVIOUS
<1>6. /\ Fits(a, stats) /\ a.todo = k /\ k \in Seq(Call) /\ a.held = run[h].held
      /\ a.write = run[h].write /\ a.ranks = run[h].ranks /\ Same(a, run[h])
  BY <1>1, <1>4, <1>5, RestFits
<1>7. IsTable(a.held) /\ IsTable(stats)
  BY <1>1, <1>6, FitsFields, AtWork
<1>8. CASE p \in DOMAIN stats
  <2>1. IsTable(WithRow(a.held, p, stats[p]))
    BY <1>7, <1>8, TableFields, WithRowIsTable
  <2>2. PICK t : t = [a EXCEPT !.held = WithRow(a.held, p, stats[p])]
    OBVIOUS
  <2>3. Becomes(h, t) /\ stats' = stats
    BY <1>3, <1>4, <1>8, <2>2 DEF EnsureStats
  <2>4. /\ Fits(t, stats) /\ t.held = WithRow(a.held, p, stats[p]) /\ t.todo = k
        /\ Same(t, a) /\ t.write = a.write /\ t.ranks = a.ranks
    BY <1>6, <2>1, <2>2, NewHeld DEF Same
  <2> QED
    BY <1>1, <1>2, <1>5, <1>6, <1>8, <2>3, <2>4 DEF Same
<1>9. CASE p \notin DOMAIN stats
  <2>1. IsTable(WithRow(a.held, p, FreshRow))
    BY <1>7, RowFields, WithRowIsTable
  <2>2. PICK b : b = [a EXCEPT !.held = WithRow(a.held, p, FreshRow)]
    OBVIOUS
  <2>3. /\ Fits(b, stats) /\ b.held = WithRow(a.held, p, FreshRow) /\ b.todo = k
        /\ Same(b, a) /\ b.write = a.write /\ b.ranks = a.ranks
    BY <1>6, <2>1, <2>2, NewHeld DEF Same
  <2>4. Creating({p}, k) \in Seq(Call)
    BY <1>6, Programs
  <2>5. PICK t : t = [b EXCEPT !.todo = Creating({p}, k)]
    OBVIOUS
  <2>6. /\ Fits(t, stats) /\ t.held = b.held /\ t.todo = Creating({p}, k)
        /\ Same(t, b) /\ t.write = b.write /\ t.ranks = b.ranks
    BY <2>3, <2>4, <2>5, NewTodo DEF Same
  <2>7. t = [a EXCEPT !.held = WithRow(a.held, p, FreshRow),
                      !.todo = <<<<"create", {p}>>, <<"write">>>> \o a.todo]
    BY <1>6, <2>2, <2>5, CreateFirst
  <2>8. Becomes(h, t) /\ stats' = stats
    BY <1>3, <1>4, <1>9, <2>7 DEF EnsureStats
  <2> QED
    BY <1>1, <1>2, <1>5, <1>6, <1>9, <2>3, <2>6, <2>8 DEF Same
<1> QED
  BY <1>8, <1>9
-----------------------------------------------------------------------------
(***************************************************************************)
(* The write a save decides on, and the table it leaves.                   *)
(***************************************************************************)
Fresh(D) == [p \in D |-> FreshRow]
Renumbered(T) == [p \in DOMAIN T |-> [T[p] EXCEPT !.rank = Position(T, p)]]
Amount(t, p) == IF p = t.winner THEN 125 + 5 * t.diff ELSE IF p = t.loser THEN 25 ELSE 0
Credited(t) ==
    [p \in {t.winner, t.loser} |->
        [t.held[p] EXCEPT !.points = @ + IF p = t.winner THEN 125 + 5 * t.diff ELSE 25]]

Overlay(T, R) ==
    [p \in DOMAIN T \cup DOMAIN R |-> IF p \in DOMAIN R THEN R[p] ELSE T[p]]

Replaced(c, r) == [points |-> IF c.points THEN c.row.points ELSE r.points,
                   rank |-> IF c.rank THEN c.row.rank ELSE r.rank]

Saved(W, T) ==
    [p \in DOMAIN T \cup DOMAIN W |->
        IF p \in DOMAIN W THEN IF W[p].insert THEN W[p].row ELSE Replaced(W[p], T[p])
        ELSE T[p]]

LEMMA FreshIsTable ==
    ASSUME NEW D \in SUBSET Player
    PROVE  IsTable(Fresh(D)) /\ DOMAIN Fresh(D) = D
  BY RowFields DEF Fresh, IsTable

LEMMA RenumberedIsTable ==
    ASSUME NEW T, IsTable(T)
    PROVE  /\ IsTable(Renumbered(T)) /\ DOMAIN Renumbered(T) = DOMAIN T
           /\ \A p \in DOMAIN T : /\ Renumbered(T)[p].points = T[p].points
                                  /\ Renumbered(T)[p].rank = Position(T, p)
<1>1. \A p \in DOMAIN T : Position(T, p) \in 0..Cardinality(Player)
  BY TableFields, PositionBound
<1>2. \A p \in DOMAIN T : T[p] \in Row
  BY TableFields
<1>3. \A p \in DOMAIN T : /\ [T[p] EXCEPT !.rank = Position(T, p)] \in Row
                          /\ [T[p] EXCEPT !.rank = Position(T, p)].points = T[p].points
                          /\ [T[p] EXCEPT !.rank = Position(T, p)].rank = Position(T, p)
  BY <1>1, <1>2, RowFields
<1>4. DOMAIN T \in SUBSET Player
  BY TableFields
<1> QED
  BY <1>3, <1>4 DEF Renumbered, IsTable

LEMMA CreditedIsTable ==
    ASSUME NEW t, NEW T, Fits(t, T), t.winner \in DOMAIN t.held, t.loser \in DOMAIN t.held,
           t.winner # t.loser
    PROVE  /\ IsTable(Credited(t)) /\ DOMAIN Credited(t) = {t.winner, t.loser}
           /\ \A p \in {t.winner, t.loser} :
                Credited(t)[p].points = t.held[p].points + Amount(t, p)
<1> DEFINE E == {t.winner, t.loser}
           a(p) == IF p = t.winner THEN 125 + 5 * t.diff ELSE 25
<1>1. IsTable(t.held) /\ t.diff \in Nat
  BY FitsFields
<1>2. /\ E \in SUBSET Player
      /\ \A p \in E : t.held[p] \in Row /\ t.held[p].points \in Nat
  BY <1>1, TableFields
<1>3. \A p \in E : a(p) \in Nat /\ a(p) = Amount(t, p)
  BY <1>1 DEF Amount
<1> HIDE DEF a
<1>4. \A p \in E : t.held[p].points + a(p) \in Nat
  BY <1>2, <1>3
<1>5. \A p \in E : /\ [t.held[p] EXCEPT !.points = t.held[p].points + a(p)] \in Row
                   /\ [t.held[p] EXCEPT !.points = t.held[p].points + a(p)].points
                        = t.held[p].points + a(p)
  BY <1>2, <1>4, RowFields
<1>6. Credited(t) = [p \in E |-> [t.held[p] EXCEPT !.points = t.held[p].points + a(p)]]
  BY DEF Credited, a
<1> HIDE DEF E
<1>7. /\ Credited(t) \in [E -> Row]
      /\ \A p \in E : Credited(t)[p].points = t.held[p].points + a(p)
  BY <1>5, <1>6
<1> QED
  BY <1>2, <1>3, <1>7 DEF IsTable, E

LEMMA DiffFits ==
    ASSUME IsTable(stats), NEW R, IsTable(R)
    PROVE  /\ DOMAIN R \in SUBSET Player /\ Diff(R) \in [DOMAIN R -> Change]
           /\ \A p \in DOMAIN R : /\ (Diff(R)[p].insert <=> p \notin DOMAIN stats)
                                  /\ Diff(R)[p].row = R[p]
<1>1. DOMAIN R \in SUBSET Player /\ \A p \in DOMAIN R : R[p] \in Row
  BY TableFields
<1>2. ASSUME NEW p \in DOMAIN R
      PROVE  /\ Diff(R)[p] \in Change
             /\ (Diff(R)[p].insert <=> p \notin DOMAIN stats) /\ Diff(R)[p].row = R[p]
  BY <1>1, <1>2 DEF Diff, Change
<1>3. Diff(R) = [p \in DOMAIN R |-> Diff(R)[p]]
  BY DEF Diff
<1> QED
  BY <1>1, <1>2, <1>3

LEMMA SavedDiff ==
    ASSUME IsTable(stats), NEW R, IsTable(R)
    PROVE  Saved(Diff(R), stats) = Overlay(stats, R)
<1> DEFINE W == Diff(R)
<1>1. DOMAIN W = DOMAIN R /\ \A p \in DOMAIN R : /\ (W[p].insert <=> p \notin DOMAIN stats)
                                                 /\ W[p].row = R[p]
  BY DiffFits
<1>2. \A p \in DOMAIN stats : stats[p] = [points |-> stats[p].points, rank |-> stats[p].rank]
  BY TableFields DEF Row
<1>3. \A p \in DOMAIN R : R[p] = [points |-> R[p].points, rank |-> R[p].rank]
  BY TableFields DEF Row
<1>4. ASSUME NEW p \in DOMAIN R, p \in DOMAIN stats
      PROVE  Replaced(W[p], stats[p]) = R[p]
  <2>1. /\ (W[p].points <=> R[p].points # stats[p].points)
        /\ (W[p].rank <=> R[p].rank # stats[p].rank)
    BY <1>4 DEF Diff
  <2> QED
    BY <1>1, <1>3, <1>4, <2>1 DEF Replaced
<1> HIDE DEF W
<1>5. Saved(W, stats) = Overlay(stats, R)
  BY <1>1, <1>4 DEF Saved, Overlay
<1> QED
  BY <1>5 DEF W

LEMMA OverlayIsTable ==
    ASSUME NEW T, IsTable(T), NEW R, IsTable(R)
    PROVE  /\ IsTable(Overlay(T, R)) /\ DOMAIN Overlay(T, R) = DOMAIN T \cup DOMAIN R
           /\ \A p \in DOMAIN R : Overlay(T, R)[p] = R[p]
           /\ \A p \in DOMAIN T \ DOMAIN R : Overlay(T, R)[p] = T[p]
<1>1. /\ DOMAIN T \cup DOMAIN R \in SUBSET Player
      /\ \A p \in DOMAIN T : T[p] \in Row
      /\ \A p \in DOMAIN R : R[p] \in Row
  BY TableFields
<1>2. Overlay(T, R) \in [DOMAIN T \cup DOMAIN R -> Row]
  BY <1>1 DEF Overlay
<1> QED
  BY <1>1, <1>2 DEF Overlay, IsTable

LEMMA SavedIsTable ==
    ASSUME NEW T, IsTable(T), NEW W, DOMAIN W \subseteq Player,
           \A p \in DOMAIN W : W[p] \in Change /\ (W[p].insert \/ p \in DOMAIN T)
    PROVE  IsTable(Saved(W, T)) /\ DOMAIN Saved(W, T) = DOMAIN T \cup DOMAIN W
<1>1. /\ DOMAIN T \cup DOMAIN W \in SUBSET Player
      /\ \A p \in DOMAIN T : T[p] \in Row
  BY TableFields
<1>2. \A p \in DOMAIN W : W[p].row \in Row /\ W[p].insert \in BOOLEAN
  BY DEF Change
<1>3. \A c \in Change, r \in Row : Replaced(c, r) \in Row
  BY DEF Change, Row, Replaced
<1>4. Saved(W, T) \in [DOMAIN T \cup DOMAIN W -> Row]
  BY <1>1, <1>2, <1>3 DEF Saved
<1> QED
  BY <1>1, <1>4 DEF IsTable

LEMMA ListPlayersDoes ==
    ASSUME TypeInv, NEW h \in Handler, ListPlayers(h)
    PROVE  \E t :
              /\ Head(run[h].todo)[1] = "listPlayers"
              /\ run[h].todo # <<>> /\ Becomes(h, t) /\ stats' = stats /\ Fits(t, stats)
              /\ Same(t, run[h]) /\ t.write = run[h].write /\ t.ranks = run[h].ranks
              /\ t.held = run[h].held
              /\ IF Player \subseteq DOMAIN stats THEN t.todo = Tail(run[h].todo)
                 ELSE t.todo = Creating(Player \ DOMAIN stats, Tail(run[h].todo))
<1>1. run[h].todo # <<>> /\ Head(run[h].todo)[1] = "listPlayers" /\ stats' = stats
  BY DEF ListPlayers, Calling
<1>2. PICK a : a = Rest(h)
  OBVIOUS
<1>3. PICK k : k = Tail(run[h].todo)
  OBVIOUS
<1>4. PICK missing : missing = Player \ DOMAIN stats
  OBVIOUS
<1>5. /\ Fits(a, stats) /\ a.todo = k /\ k \in Seq(Call) /\ a.held = run[h].held
      /\ a.write = run[h].write /\ a.ranks = run[h].ranks /\ Same(a, run[h])
  BY <1>1, <1>2, <1>3, RestFits
<1>6. CASE missing = {}
  <2>1. Becomes(h, a)
    BY <1>2, <1>4, <1>6 DEF ListPlayers
  <2> QED
    BY <1>1, <1>3, <1>4, <1>5, <1>6, <2>1
<1>7. CASE missing # {}
  <2>1. Creating(missing, k) \in Seq(Call)
    BY <1>4, <1>5, Programs
  <2>2. PICK t : t = [a EXCEPT !.todo = Creating(missing, k)]
    OBVIOUS
  <2>3. /\ Fits(t, stats) /\ t.todo = Creating(missing, k) /\ t.held = a.held
        /\ Same(t, a) /\ t.write = a.write /\ t.ranks = a.ranks
    BY <1>5, <2>1, <2>2, NewTodo DEF Same
  <2>4. t = [a EXCEPT !.todo = <<<<"create", missing>>, <<"write">>>> \o a.todo]
    BY <1>4, <1>5, <2>2, CreateFirst
  <2>5. Becomes(h, t)
    BY <1>2, <1>4, <1>7, <2>4 DEF ListPlayers
  <2> QED
    BY <1>1, <1>3, <1>4, <1>5, <1>7, <2>3, <2>5 DEF Same
<1> QED
  BY <1>6, <1>7

(* A call that decides a write of the rows R.                              *)
Decides(h, R) ==
    \E t : /\ run[h].todo # <<>> /\ Becomes(h, t) /\ stats' = stats /\ Fits(t, stats)
           /\ Same(t, run[h]) /\ t.ranks = run[h].ranks /\ t.held = run[h].held
           /\ t.todo = Tail(run[h].todo) /\ t.write = Diff(R)

LEMMA DiffIsWritten ==
    ASSUME TypeInv, NEW h \in Handler, run[h].todo # <<>>, NEW R, IsTable(R),
           Becomes(h, [Rest(h) EXCEPT !.write = Diff(R)]), stats' = stats
    PROVE  Decides(h, R)
<1>1. PICK a : a = Rest(h)
  OBVIOUS
<1>2. PICK W : W = Diff(R)
  OBVIOUS
<1>3. PICK t : t = [a EXCEPT !.write = W]
  OBVIOUS
<1>4. /\ Fits(a, stats) /\ a.todo = Tail(run[h].todo) /\ a.held = run[h].held
      /\ a.ranks = run[h].ranks /\ Same(a, run[h])
  BY <1>1, RestFits
<1>5. IsTable(stats)
  BY AtWork
<1>6. PICK E : E = DOMAIN R
  OBVIOUS
<1>7. /\ Fits(t, stats) /\ t.write = W /\ t.todo = a.todo /\ t.held = a.held
      /\ t.ranks = a.ranks /\ Same(t, a)
  <2>1. /\ E \in SUBSET Player /\ W \in [E -> Change]
        /\ \A p \in E : W[p].insert \/ p \in DOMAIN stats
    BY <1>2, <1>5, <1>6, DiffFits
  <2>2. /\ Fits(t, stats) /\ t.write = W
        /\ t.todo = a.todo /\ t.held = a.held /\ t.winner = a.winner
        /\ t.loser = a.loser /\ t.diff = a.diff /\ t.asks = a.asks /\ t.ranks = a.ranks
    BY <1>3, <1>4, <2>1, NewWrite
  <2> QED
    BY <2>2 DEF Same
<1>8. Becomes(h, t)
  BY <1>1, <1>2, <1>3
<1> QED
  BY <1>2, <1>4, <1>7, <1>8 DEF Decides, Same

LEMMA CreateRowsDoes ==
    ASSUME TypeInv, NEW h \in Handler, CreateRows(h)
    PROVE  \E D \in SUBSET Player :
              /\ Head(run[h].todo) = <<"create", D>> /\ Head(run[h].todo)[1] = "create"
              /\ Decides(h, Fresh(D))
<1>1. run[h].todo # <<>> /\ Head(run[h].todo)[1] = "create" /\ stats' = stats
  BY DEF CreateRows, Calling
<1>2. PICK D \in SUBSET Player : Head(run[h].todo) = <<"create", D>>
  BY <1>1, AtWork, Heads
<1>3. Head(run[h].todo)[2] = D
  BY <1>2
<1>4. Becomes(h, [Rest(h) EXCEPT !.write = Diff(Fresh(D))])
  BY <1>3 DEF CreateRows, Fresh
<1> QED
  BY <1>1, <1>2, <1>4, FreshIsTable, DiffIsWritten

(* Nothing but an award credits, and it holds the rows of both its players.*)
LEMMA CreditDoes ==
    ASSUME TypeInv, NEW h \in Handler, Credit(h)
    PROVE  /\ run[h].todo = Crediting
           /\ Awarding(run[h].todo, run[h].winner, run[h].loser, DOMAIN run[h].held)
           /\ run[h].winner \in DOMAIN run[h].held /\ run[h].loser \in DOMAIN run[h].held
           /\ Head(run[h].todo)[1] = "credit" /\ Decides(h, Credited(run[h]))
<1>1. run[h].todo # <<>> /\ Head(run[h].todo)[1] = "credit" /\ stats' = stats
  BY DEF Credit, Calling
<1>2. Head(run[h].todo) = <<"credit">> /\ Fits(run[h], stats) /\ Placed(run[h])
  BY <1>1, AtWork, Heads
<1>3. Awarding(run[h].todo, run[h].winner, run[h].loser, DOMAIN run[h].held)
  <2> SUFFICES run[h].todo \notin Seq(Plain)
    BY <1>2 DEF Placed
  <2>1. <<"credit">> \notin Plain
    BY DEF Plain
  <2> QED
    BY <1>1, <1>2, <2>1
<1>4. /\ run[h].todo = Crediting
      /\ run[h].winner \in DOMAIN run[h].held /\ run[h].loser \in DOMAIN run[h].held
  BY <1>2, <1>3, AwardingHeads
<1>5. run[h].winner # run[h].loser
  BY <1>3 DEF Awarding
<1>6. PICK R : R = Credited(run[h])
  OBVIOUS
<1>7. IsTable(R)
  BY <1>2, <1>4, <1>5, <1>6, CreditedIsTable
<1>8. Becomes(h, [Rest(h) EXCEPT !.write = Diff(R)])
  BY <1>6 DEF Credit, Credited
<1> QED
  BY <1>1, <1>3, <1>4, <1>6, <1>7, <1>8, DiffIsWritten

LEMMA RenumberDoes ==
    ASSUME TypeInv, NEW h \in Handler, Renumber(h)
    PROVE  Head(run[h].todo)[1] = "renumber" /\ Decides(h, run[h].held)
<1>1. run[h].todo # <<>> /\ Head(run[h].todo)[1] = "renumber" /\ stats' = stats
  BY DEF Renumber, Calling
<1>2. IsTable(run[h].held)
  BY <1>1, AtWork, FitsFields
<1> QED
  BY <1>1, <1>2, DiffIsWritten DEF Renumber

LEMMA ReadStatsDoes ==
    ASSUME TypeInv, NEW h \in Handler, ReadStats(h)
    PROVE  \E t :
              /\ Head(run[h].todo)[1] = "readStats"
              /\ run[h].todo # <<>> /\ Becomes(h, t) /\ stats' = stats /\ Fits(t, stats)
              /\ Same(t, run[h]) /\ t.write = run[h].write
              /\ t.todo = Tail(run[h].todo) /\ t.held = Renumbered(stats)
              /\ LET asked == Len(run[h].ranks) + 1
                 IN  t.ranks = IF asked <= Len(run[h].asks)
                               THEN Append(run[h].ranks, Position(stats, run[h].asks[asked]))
                               ELSE run[h].ranks
<1>1. run[h].todo # <<>> /\ Head(run[h].todo)[1] = "readStats" /\ stats' = stats
  BY DEF ReadStats, Calling
<1>2. PICK a : a = Rest(h)
  OBVIOUS
<1>3. PICK asked : asked = Len(run[h].ranks) + 1
  OBVIOUS
<1>4. PICK R : R = IF asked <= Len(run[h].asks)
                   THEN Append(run[h].ranks, Position(stats, run[h].asks[asked]))
                   ELSE run[h].ranks
  OBVIOUS
<1>5. /\ Fits(a, stats) /\ a.todo = Tail(run[h].todo) /\ a.write = run[h].write
      /\ a.ranks = run[h].ranks /\ Same(a, run[h])
  BY <1>1, <1>2, RestFits
<1>6. IsTable(stats) /\ run[h].ranks \in Seq(Nat)
  BY <1>1, AtWork, FitsFields
<1>7. R \in Seq(Nat)
  <2>1. \A p : Position(stats, p) \in Nat
    BY <1>6, PositionBound
  <2> QED
    BY <1>4, <1>6, <2>1
<1>8. PICK H : H = Renumbered(stats)
  OBVIOUS
<1>9. IsTable(H)
  BY <1>6, <1>8, RenumberedIsTable
<1>10. PICK b : b = [a EXCEPT !.held = H]
  OBVIOUS
<1>11. /\ Fits(b, stats) /\ b.held = H /\ b.todo = a.todo /\ b.write = a.write
       /\ b.winner = a.winner /\ b.loser = a.loser /\ b.diff = a.diff /\ b.asks = a.asks
       /\ b.ranks = a.ranks
  BY <1>5, <1>9, <1>10, NewHeld
<1>12. PICK t : t = [b EXCEPT !.ranks = R]
  OBVIOUS
<1>13. /\ Fits(t, stats) /\ t.ranks = R /\ t.todo = b.todo /\ t.write = b.write
       /\ t.winner = b.winner /\ t.loser = b.loser /\ t.diff = b.diff /\ t.asks = b.asks
       /\ t.held = b.held
  BY <1>7, <1>11, <1>12, NewRanks
<1>14. t = [a EXCEPT !.held = H, !.ranks = R]
  BY <1>5, <1>10, <1>12 DEF Fits
<1>15. R = IF asked <= Len(run[h].asks)
           THEN Append(a.ranks, Position(stats, run[h].asks[asked])) ELSE a.ranks
  BY <1>4, <1>5
<1>16. Becomes(h, t)
  BY <1>2, <1>3, <1>8, <1>14, <1>15 DEF ReadStats, Renumbered
<1> QED
  BY <1>1, <1>3, <1>4, <1>5, <1>8, <1>11, <1>13, <1>16 DEF Same

LEMMA ReadListDoes ==
    ASSUME TypeInv, NEW h \in Handler, ReadList(h)
    PROVE  \E t :
              /\ Head(run[h].todo)[1] = "list"
              /\ run[h].todo # <<>> /\ Becomes(h, t) /\ stats' = stats /\ Fits(t, stats)
              /\ Same(t, run[h]) /\ t.write = run[h].write /\ t.ranks = run[h].ranks
              /\ t.todo = Tail(run[h].todo) /\ t.held = stats
<1>1. run[h].todo # <<>> /\ Head(run[h].todo)[1] = "list" /\ stats' = stats
  BY DEF ReadList, Calling
<1>2. PICK a : a = Rest(h)
  OBVIOUS
<1>3. PICK t : t = [a EXCEPT !.held = stats]
  OBVIOUS
<1>4. /\ Fits(a, stats) /\ a.todo = Tail(run[h].todo) /\ a.write = run[h].write
      /\ a.ranks = run[h].ranks /\ Same(a, run[h])
  BY <1>1, <1>2, RestFits
<1>5. IsTable(stats)
  BY <1>1, AtWork
<1>6. /\ Fits(t, stats) /\ t.held = stats /\ t.todo = a.todo /\ t.write = a.write
      /\ t.winner = a.winner /\ t.loser = a.loser /\ t.diff = a.diff /\ t.asks = a.asks
      /\ t.ranks = a.ranks
  BY <1>3, <1>4, <1>5, NewHeld
<1>7. Becomes(h, t)
  BY <1>2, <1>3 DEF ReadList
<1> QED
  BY <1>1, <1>4, <1>6, <1>7 DEF Same

LEMMA AnswerListDoes ==
    ASSUME TypeInv, NEW h \in Handler, AnswerList(h)
    PROVE  \E t :
              /\ Head(run[h].todo)[1] = "answer"
              /\ run[h].todo # <<>> /\ Becomes(h, t) /\ stats' = stats /\ Fits(t, stats)
              /\ Same(t, run[h]) /\ t.write = run[h].write /\ t.ranks = run[h].ranks
              /\ t.todo = Tail(run[h].todo) /\ t.held = run[h].held
  BY RestFits DEF AnswerList, Calling

(* A write fails and ends the operation, or leaves the table it decided on.*)
LEMMA WriteDoes ==
    ASSUME TypeInv, NEW h \in Handler, Write(h)
    PROVE  /\ run[h].todo # <<>> /\ Head(run[h].todo)[1] = "write"
           /\ \/ Becomes(h, Idle) /\ stats' = stats
                 /\ \E p \in DOMAIN run[h].write : run[h].write[p].insert /\ p \in DOMAIN stats
              \/ \E t :
                   /\ Becomes(h, t) /\ Fits(t, stats)
                   /\ stats' = Saved(run[h].write, stats)
                   /\ Same(t, run[h]) /\ t.write = Nothing /\ t.ranks = run[h].ranks
                   /\ t.todo = Tail(run[h].todo) /\ t.held = run[h].held
<1>1. run[h].todo # <<>> /\ Head(run[h].todo)[1] = "write"
  BY DEF Write, Calling
<1>2. PICK a : a = Rest(h)
  OBVIOUS
<1>3. PICK W, E : W = Nothing /\ E = {}
  OBVIOUS
<1>4. PICK t : t = [a EXCEPT !.write = W]
  OBVIOUS
<1>5. /\ Fits(a, stats) /\ a.todo = Tail(run[h].todo) /\ a.held = run[h].held
      /\ a.ranks = run[h].ranks /\ Same(a, run[h])
  BY <1>1, <1>2, RestFits
<1>6. /\ W \in [E -> Change] /\ E \in SUBSET Player
      /\ \A p \in E : W[p].insert \/ p \in DOMAIN stats
  BY <1>3 DEF Nothing
<1>7. /\ Fits(t, stats) /\ t.write = W /\ t.todo = a.todo /\ t.held = a.held
      /\ t.winner = a.winner /\ t.loser = a.loser /\ t.diff = a.diff /\ t.asks = a.asks
      /\ t.ranks = a.ranks
  BY <1>4, <1>5, <1>6, NewWrite
<1>8. CASE \E p \in DOMAIN run[h].write : run[h].write[p].insert /\ p \in DOMAIN stats
  BY <1>1, <1>8 DEF Write
<1>9. CASE ~ \E p \in DOMAIN run[h].write : run[h].write[p].insert /\ p \in DOMAIN stats
  <2>1. Becomes(h, t) /\ stats' = Saved(run[h].write, stats)
    BY <1>2, <1>3, <1>4, <1>9 DEF Write, Saved, Replaced
  <2> QED
    BY <1>1, <1>3, <1>5, <1>7, <2>1 DEF Same
<1> QED
  BY <1>8, <1>9

(***************************************************************************)
(* Starting an operation.                                                  *)
(***************************************************************************)
Begins(h, t) ==
    /\ run[h] = Idle /\ run' = [run EXCEPT ![h] = IF t.todo = <<>> THEN Idle ELSE t]
    /\ t.todo # <<>> /\ stats' = stats /\ overlapped' = (overlapped \/ ~Quiet)
    /\ Fits(t, stats) /\ Placed(t) /\ t.ranks = <<>> /\ t.held = Nothing /\ t.write = Nothing

LEMMA TaskFits ==
    ASSUME NEW s \in Seq(Call), NEW w \in Player \cup {0}, NEW l \in Player \cup {0},
           NEW d \in Nat, NEW a \in Seq(Player), NEW T
    PROVE  LET t == Task(s, w, l, d, a)
           IN  /\ Fits(t, T) /\ t.todo = s /\ t.winner = w /\ t.loser = l /\ t.diff = d
               /\ t.asks = a /\ t.ranks = <<>> /\ t.held = Nothing /\ t.write = Nothing
<1>1. Nothing \in [{} -> Row] /\ Nothing \in [{} -> Change] /\ {} \in SUBSET Player
  BY DEF Nothing
<1>2. <<>> \in Seq(Nat)
  OBVIOUS
<1> QED
  BY <1>1, <1>2 DEF Task, Fits

LEMMA BeginsWell ==
    ASSUME TypeInv, NEW h \in Handler, NEW t, Start(h, t), Fits(t, stats), Placed(t),
           t.todo # <<>>, t.ranks = <<>>, t.held = Nothing, t.write = Nothing
    PROVE  Begins(h, t)
  BY DEF Start, Begins

LEMMA StartAwardDoes ==
    ASSUME TypeInv, NEW h \in Handler, NEW w \in Player, NEW l \in Player,
           NEW d \in RankDiff, StartAward(h, w, l, d)
    PROVE  \E t : /\ Begins(h, t)
                  /\ t.todo = Ensuring(w, Ensuring(l, Crediting))
                  /\ t.winner = w /\ t.loser = l /\ t.diff = d /\ w # l
<1>1. PICK s : s = Ensuring(w, Ensuring(l, Crediting))
  OBVIOUS
<1>2. ApplyMatchPoints(w, l) = s /\ s \in Seq(Call) /\ s # <<>> /\ d \in Nat /\ w # l
  <2>1. s \in Seq(Call) \ {<<>>}
    BY <1>1, AwardingPrograms, Programs
  <2> QED
    BY <1>1, <2>1, Operations, RankingAssumption DEF StartAward
<1>3. PICK a : a = <<>>
  OBVIOUS
<1>4. PICK t : t = Task(s, w, l, d, a)
  OBVIOUS
<1>5. a \in Seq(Player)
  BY <1>3
<1>6. /\ Fits(t, stats) /\ t.todo = s /\ t.winner = w /\ t.loser = l /\ t.diff = d
      /\ t.ranks = <<>> /\ t.held = Nothing /\ t.write = Nothing
  BY <1>2, <1>4, <1>5, TaskFits
<1>7. Placed(t)
  BY <1>1, <1>2, <1>6 DEF Placed, Awarding
<1>8. Start(h, t)
  BY <1>2, <1>3, <1>4 DEF StartAward
<1> QED
  BY <1>1, <1>2, <1>6, <1>7, <1>8, BeginsWell

LEMMA StartChallengeDoes ==
    ASSUME TypeInv, NEW h \in Handler, NEW p \in Player, NEW q \in Player,
           StartChallenge(h, p, q)
    PROVE  \E t : /\ Begins(h, t)
                  /\ t.todo = Ensuring(p, Recalculating(Ensuring(q, Recalculating(<<>>))))
                  /\ t.todo \in Seq(Plain)
<1>1. PICK s : s = Ensuring(p, Recalculating(Ensuring(q, Recalculating(<<>>))))
  OBVIOUS
<1>2. Ensuring(q, Recalculating(<<>>)) \in Seq(Plain)
  BY PlainPrograms
<1>3. s \in Seq(Plain) /\ s \in Seq(Call) /\ s # <<>>
  <2>1. Recalculating(Ensuring(q, Recalculating(<<>>))) \in Seq(Plain)
    BY <1>2, PlainPrograms
  <2>2. s \in Seq(Plain) /\ s \in Seq(Call)
    BY <1>1, <2>1, PlainPrograms
  <2>3. s # <<>>
    BY <1>1, <2>1, PlainPrograms, Programs
  <2> QED
    BY <2>2, <2>3
<1>4. GetRankPosition(p) \o GetRankPosition(q) = s
  <2>1. GetRankPosition(q) = Ensuring(q, Recalculating(<<>>))
    <3>1. Recalculate = Recalculating(<<>>) /\ GetRankPosition(q) \in Seq(Call)
      BY Operations, NamesAreCalls DEF GetRankPosition, Recalculate
    <3>2. GetRankPosition(q) = Cons(<<"ensure", q>>, Recalculate)
      BY DEF GetRankPosition, Cons
    <3> QED
      BY <3>1, <3>2 DEF Ensuring
  <2>2. PICK k : k = GetRankPosition(q)
    OBVIOUS
  <2>3. k \in Seq(Call)
    BY <1>2, <2>1, <2>2, PlainPrograms
  <2>4. GetRankPosition(p) \o k = Ensuring(p, Recalculating(k))
    BY <2>3, Operations
  <2> QED
    BY <1>1, <2>1, <2>2, <2>4
<1>5. PICK a : a = <<p, q>>
  OBVIOUS
<1>6. a \in Seq(Player)
  BY <1>5
<1>7. PICK t, x : t = Task(s, x, x, x, a) /\ x = 0
  OBVIOUS
<1>8. x \in Player \cup {0} /\ x \in Nat
  BY <1>7
<1>9. /\ Fits(t, stats) /\ t.todo = s /\ t.winner = x /\ t.loser = x
      /\ t.ranks = <<>> /\ t.held = Nothing /\ t.write = Nothing
  BY <1>3, <1>6, <1>7, <1>8, TaskFits
<1>10. Placed(t)
  BY <1>3, <1>9 DEF Placed
<1>11. Start(h, t)
  BY <1>4, <1>5, <1>7 DEF StartChallenge
<1> QED
  BY <1>1, <1>3, <1>9, <1>10, <1>11, BeginsWell

LEMMA StartListDoes ==
    ASSUME TypeInv, NEW h \in Handler, StartList(h)
    PROVE  \E t : /\ Begins(h, t) /\ t.todo = Recalculating(Listing)
                  /\ t.todo \in Seq(Plain)
<1>1. PICK s : s = Recalculating(Listing)
  OBVIOUS
<1>2. s \in Seq(Plain) /\ s \in Seq(Call) /\ s # <<>>
  BY <1>1, PlainPrograms, Programs
<1>3. PICK a : a = <<>>
  OBVIOUS
<1>4. a \in Seq(Player)
  BY <1>3
<1>5. PICK t, x : t = Task(s, x, x, x, a) /\ x = 0
  OBVIOUS
<1>6. x \in Player \cup {0} /\ x \in Nat
  BY <1>5
<1>7. /\ Fits(t, stats) /\ t.todo = s /\ t.winner = x /\ t.loser = x
      /\ t.ranks = <<>> /\ t.held = Nothing /\ t.write = Nothing
  BY <1>2, <1>4, <1>5, <1>6, TaskFits
<1>8. Placed(t)
  BY <1>2, <1>7 DEF Placed
<1>9. Start(h, t)
  BY <1>1, <1>3, <1>5, Operations DEF StartList
<1> QED
  BY <1>1, <1>2, <1>7, <1>8, <1>9, BeginsWell

(***************************************************************************)
(* Every call leaves a task that is well placed.                           *)
(***************************************************************************)
LEMMA PlacedAfterEnsure ==
    ASSUME NEW t, NEW u, NEW p \in Player, Placed(t), t.todo # <<>>, Same(u, t),
           Head(t.todo) = <<"ensure", p>>,
           u.todo = Tail(t.todo) \/ u.todo = Creating({p}, Tail(t.todo)),
           DOMAIN u.held = DOMAIN t.held \cup {p}
    PROVE  Placed(u)
<1>1. CASE t.todo \in Seq(Plain)
  <2>1. Tail(t.todo) \in Seq(Plain)
    BY <1>1, PlainPrograms
  <2> QED
    BY <2>1, PlainPrograms DEF Placed
<1>2. CASE Awarding(t.todo, t.winner, t.loser, DOMAIN t.held)
  <2>1. \/ p = t.winner /\ Tail(t.todo) = Ensuring(t.loser, Crediting)
        \/ p = t.loser /\ Tail(t.todo) = Crediting /\ t.winner \in DOMAIN t.held
    <3>1. PICK s, w, l, D : s = t.todo /\ w = t.winner /\ l = t.loser /\ D = DOMAIN t.held
      OBVIOUS
    <3>2. Awarding(s, w, l, D) /\ Head(s) = <<"ensure", p>>
      BY <1>2, <3>1
    <3>3. \/ p = w /\ Tail(s) = Ensuring(l, Crediting)
          \/ p = l /\ Tail(s) = Crediting /\ w \in D
      BY <3>2, AwardingHeads
    <3> QED
      BY <3>1, <3>3
  <2>2. u.winner = t.winner /\ u.loser = t.loser
    BY DEF Same
  <2>3. t.winner \in Player /\ t.loser \in Player /\ t.winner # t.loser
    BY <1>2 DEF Awarding
  <2> QED
    BY <2>1, <2>2, <2>3 DEF Placed, Awarding
<1> QED
  BY <1>1, <1>2 DEF Placed

LEMMA PlacedAfterTail ==
    ASSUME NEW t, NEW u, Placed(t), t.todo # <<>>, Same(u, t), u.todo = Tail(t.todo),
           Head(t.todo)[1] \notin {"ensure", "credit"},
           u.held = t.held \/ Head(t.todo)[1] \notin {"create", "write"}
    PROVE  Placed(u)
<1>1. CASE t.todo \in Seq(Plain)
  BY <1>1, PlainPrograms DEF Placed
<1>2. CASE Awarding(t.todo, t.winner, t.loser, DOMAIN t.held)
  <2>1. /\ u.held = t.held /\ t.winner \in DOMAIN t.held
        /\ \/ Tail(t.todo) = Saving(Ensuring(t.loser, Crediting))
           \/ Tail(t.todo) = Saving(Crediting) /\ t.loser \in DOMAIN t.held
           \/ Tail(t.todo) = Ensuring(t.loser, Crediting)
           \/ Tail(t.todo) = Crediting /\ t.loser \in DOMAIN t.held
    <3>1. PICK s, w, l, D : s = t.todo /\ w = t.winner /\ l = t.loser /\ D = DOMAIN t.held
      OBVIOUS
    <3>2. Awarding(s, w, l, D) /\ Head(s)[1] \notin {"ensure", "credit"}
      BY <1>2, <3>1
    <3>3. /\ Head(s)[1] \in {"create", "write"} /\ w \in D
          /\ \/ Tail(s) = Saving(Ensuring(l, Crediting))
             \/ Tail(s) = Saving(Crediting) /\ l \in D
             \/ Tail(s) = Ensuring(l, Crediting)
             \/ Tail(s) = Crediting /\ l \in D
      BY <3>2, AwardingHeads
    <3> QED
      BY <3>1, <3>3
  <2>2. u.winner = t.winner /\ u.loser = t.loser
    BY DEF Same
  <2>3. t.winner \in Player /\ t.loser \in Player /\ t.winner # t.loser
    BY <1>2 DEF Awarding
  <2> QED
    BY <2>1, <2>2, <2>3 DEF Placed, Awarding
<1> QED
  BY <1>1, <1>2 DEF Placed

(* A call that leaves the table alone, and one that leaves a well typed one*)
LEMMA CallKeepsTypes ==
    ASSUME TypeInv, NEW h \in Handler, NEW t, Becomes(h, t),
           IsTable(stats'), DOMAIN stats \subseteq DOMAIN stats',
           t.todo = <<>> \/ (Fits(t, stats) /\ Placed(t))
    PROVE  TypeInv'
<1>1. t.todo = <<>> \/ (Fits(t, stats') /\ Placed(t))
  BY FitsLarger
<1>2. /\ run' = [run EXCEPT ![h] = IF t.todo = <<>> THEN Idle ELSE t]
      /\ owed' \in [Player -> Nat] /\ overlapped' \in BOOLEAN /\ started' \in 0..MaxOperations
  BY DEF Becomes, TypeInv, TypeOK
<1> QED
  BY <1>1, <1>2, TurnTaken

LEMMA EnsureTypes ==
    ASSUME TypeInv, NEW h \in Handler, EnsureStats(h)
    PROVE  TypeInv'
<1>1. PICK p, t :
        /\ p \in Player
        /\ Head(run[h].todo) = <<"ensure", p>>
        /\ run[h].todo # <<>> /\ Becomes(h, t) /\ stats' = stats /\ Fits(t, stats)
        /\ Same(t, run[h])
        /\ IF p \in DOMAIN stats
           THEN t.todo = Tail(run[h].todo) /\ t.held = WithRow(run[h].held, p, stats[p])
           ELSE /\ t.todo = Creating({p}, Tail(run[h].todo))
                /\ t.held = WithRow(run[h].held, p, FreshRow)
  BY EnsureStatsDoes
<1>2. Placed(run[h]) /\ IsTable(run[h].held) /\ IsTable(stats)
  BY <1>1, AtWork, FitsFields
<1>3. DOMAIN t.held = DOMAIN run[h].held \cup {p}
  <2>1. \A r \in Row : DOMAIN WithRow(run[h].held, p, r) = DOMAIN run[h].held \cup {p}
    BY <1>1, <1>2, WithRowIsTable
  <2>2. p \in DOMAIN stats => stats[p] \in Row
    BY <1>2, TableFields
  <2> QED
    BY <1>1, <2>1, <2>2, RowFields
<1>4. Placed(t)
  BY <1>1, <1>2, <1>3, PlacedAfterEnsure
<1> QED
  BY <1>1, <1>2, <1>4, CallKeepsTypes

LEMMA ListPlayersTypes ==
    ASSUME TypeInv, NEW h \in Handler, ListPlayers(h)
    PROVE  TypeInv'
<1>1. PICK t :
        /\ Head(run[h].todo)[1] = "listPlayers"
        /\ run[h].todo # <<>> /\ Becomes(h, t) /\ stats' = stats /\ Fits(t, stats)
        /\ Same(t, run[h])
        /\ IF Player \subseteq DOMAIN stats THEN t.todo = Tail(run[h].todo)
           ELSE t.todo = Creating(Player \ DOMAIN stats, Tail(run[h].todo))
  BY ListPlayersDoes
<1>2. Placed(run[h]) /\ IsTable(stats)
  BY <1>1, AtWork
<1>3. Tail(run[h].todo) \in Seq(Plain)
  <2>1. run[h].todo \in Seq(Plain)
    BY <1>1, <1>2, AwardingHeads DEF Placed
  <2> QED
    BY <1>1, <2>1, PlainPrograms
<1>4. Placed(t)
  BY <1>1, <1>3, PlainPrograms DEF Placed
<1> QED
  BY <1>1, <1>2, <1>4, CallKeepsTypes

LEMMA DecidesTypes ==
    ASSUME TypeInv, NEW h \in Handler, NEW R, Decides(h, R),
           \/ Head(run[h].todo)[1] \in {"create", "renumber"}
           \/ run[h].todo = Crediting
    PROVE  TypeInv'
<1>1. PICK t :
        /\ run[h].todo # <<>> /\ Becomes(h, t) /\ stats' = stats /\ Fits(t, stats)
        /\ Same(t, run[h]) /\ t.held = run[h].held /\ t.todo = Tail(run[h].todo)
  BY DEF Decides
<1>2. Placed(run[h]) /\ IsTable(stats)
  BY <1>1, AtWork
<1>3. CASE Head(run[h].todo)[1] \in {"create", "renumber"}
  <2>1. Placed(t)
    BY <1>1, <1>2, <1>3, PlacedAfterTail
  <2> QED
    BY <1>1, <1>2, <2>1, CallKeepsTypes
<1>4. CASE run[h].todo = Crediting
  <2>1. t.todo = Saving(Recalculating(<<>>))
    BY <1>1, <1>4, LastShapes
  <2>2. Placed(t)
    BY <2>1, PlainPrograms DEF Placed
  <2> QED
    BY <1>1, <1>2, <2>2, CallKeepsTypes
<1> QED
  BY <1>3, <1>4

LEMMA ReadTypes ==
    ASSUME TypeInv, NEW h \in Handler, ReadStats(h) \/ ReadList(h) \/ AnswerList(h)
    PROVE  TypeInv'
<1>1. PICK t :
        /\ Head(run[h].todo)[1] \in {"readStats", "list", "answer"}
        /\ run[h].todo # <<>> /\ Becomes(h, t) /\ stats' = stats /\ Fits(t, stats)
        /\ Same(t, run[h]) /\ t.todo = Tail(run[h].todo)
  BY ReadStatsDoes, ReadListDoes, AnswerListDoes
<1>2. Placed(run[h]) /\ IsTable(stats)
  BY <1>1, AtWork
<1>3. Placed(t)
  BY <1>1, <1>2, PlacedAfterTail
<1> QED
  BY <1>1, <1>2, <1>3, CallKeepsTypes

LEMMA WriteTypes ==
    ASSUME TypeInv, NEW h \in Handler, Write(h)
    PROVE  TypeInv'
<1>1. run[h].todo # <<>> /\ Head(run[h].todo)[1] = "write"
  BY WriteDoes
<1>2. Placed(run[h]) /\ IsTable(stats) /\ Fits(run[h], stats)
  BY <1>1, AtWork
<1>3. CASE Becomes(h, Idle) /\ stats' = stats
  BY <1>2, <1>3, IdleIsPlaced, CallKeepsTypes
<1>4. ASSUME NEW t, Becomes(h, t), Fits(t, stats), stats' = Saved(run[h].write, stats),
             Same(t, run[h]), t.todo = Tail(run[h].todo), t.held = run[h].held
      PROVE  TypeInv'
  <2>1. Placed(t)
    BY <1>1, <1>2, <1>4, PlacedAfterTail
  <2>2. /\ DOMAIN run[h].write \subseteq Player
        /\ \A p \in DOMAIN run[h].write :
             /\ run[h].write[p] \in Change
             /\ run[h].write[p].insert \/ p \in DOMAIN stats
    BY <1>2, FitsFields DEF Fits
  <2>3. IsTable(stats') /\ DOMAIN stats \subseteq DOMAIN stats'
    BY <1>2, <1>4, <2>2, SavedIsTable
  <2> QED
    BY <1>4, <2>1, <2>3, CallKeepsTypes
<1> QED
  BY <1>3, <1>4, WriteDoes

LEMMA BeginsTypes ==
    ASSUME TypeInv, NEW h \in Handler, NEW t, Begins(h, t),
           owed' \in [Player -> Nat], started' \in 0..MaxOperations
    PROVE  TypeInv'
<1>1. IsTable(stats)
  BY DEF TypeInv, TypeOK, IsTable
<1>2. overlapped' \in BOOLEAN
  BY DEF Begins, TypeInv, TypeOK, Quiet
<1> QED
  BY <1>1, <1>2, TurnTaken DEF Begins

LEMMA StartTypes ==
    ASSUME TypeInv, NEW h \in Handler,
           \/ \E w, l \in Player, diff \in RankDiff : StartAward(h, w, l, diff)
           \/ \E p, q \in Player : StartChallenge(h, p, q)
           \/ StartList(h)
    PROVE  TypeInv'
<1> USE DEF TypeInv, TypeOK
<1>1. ASSUME NEW w \in Player, NEW l \in Player, NEW d \in RankDiff, StartAward(h, w, l, d)
      PROVE  TypeInv'
  <2>1. PICK t : Begins(h, t)
    BY <1>1, StartAwardDoes
  <2>2. d \in Nat
    BY RankingAssumption
  <2>3. started' \in 0..MaxOperations
    BY <1>1, RankingAssumption DEF StartAward, Start
  <2>4. owed' \in [Player -> Nat]
    <3>1. \A x \in Nat : x + 125 + 5 * d \in Nat
      BY <2>2
    <3>2. /\ owed \in [Player -> Nat]
          /\ owed' = [owed EXCEPT ![w] = owed[w] + 125 + 5 * d,
                                  ![l] = [owed EXCEPT ![w] = owed[w] + 125 + 5 * d][l] + 25]
      BY <1>1 DEF StartAward
    <3>3. owed[w] + 125 + 5 * d \in Nat
      BY <3>1, <3>2
    <3> QED
      BY <3>2, <3>3
  <2> QED
    BY <2>1, <2>3, <2>4, BeginsTypes
<1>2. ASSUME NEW p \in Player, NEW q \in Player, StartChallenge(h, p, q)
      PROVE  TypeInv'
  <2>1. PICK t : Begins(h, t)
    BY <1>2, StartChallengeDoes
  <2>2. owed' \in [Player -> Nat] /\ started' \in 0..MaxOperations
    BY <1>2, RankingAssumption DEF StartChallenge, Start
  <2> QED
    BY <2>1, <2>2, BeginsTypes
<1>3. CASE StartList(h)
  <2>1. PICK t : Begins(h, t)
    BY <1>3, StartListDoes
  <2>2. owed' \in [Player -> Nat] /\ started' \in 0..MaxOperations
    BY <1>3, RankingAssumption DEF StartList, Start
  <2> QED
    BY <2>1, <2>2, BeginsTypes
<1> QED
  BY <1>1, <1>2, <1>3

LEMMA TypeInit == ASSUME Init PROVE TypeInv
<1>1. stats \in [{} -> Row] /\ {} \in SUBSET Player
  BY DEF Init, Nothing
<1>2. \A h \in Handler : run[h] = Idle /\ Placed(run[h])
  BY IdleIsPlaced DEF Init
<1>3. run = [h \in Handler |-> run[h]]
  BY DEF Init
<1>4. owed \in [Player -> Nat] /\ overlapped \in BOOLEAN
  BY DEF Init
<1>5. started \in 0..MaxOperations
  BY RankingAssumption DEF Init
<1> QED
  BY <1>1, <1>2, <1>3, <1>4, <1>5 DEF TypeInv, TypeOK

LEMMA TypeStep == ASSUME TypeInv, [Next]_vars PROVE TypeInv'
<1>1. CASE UNCHANGED vars
  <2>1. UNCHANGED <<stats, run, owed, overlapped, started>>
    BY <1>1 DEF vars
  <2> QED
    BY <2>1 DEF TypeInv, TypeOK, WorkOK, Placed
<1>2. ASSUME NEW h \in Handler,
             \/ \E w, l \in Player, diff \in RankDiff : StartAward(h, w, l, diff)
             \/ \E p, q \in Player : StartChallenge(h, p, q)
             \/ StartList(h)
      PROVE  TypeInv'
  BY <1>2, StartTypes
<1>3. ASSUME NEW h \in Handler, EnsureStats(h) PROVE TypeInv'
  BY <1>3, EnsureTypes
<1>4. ASSUME NEW h \in Handler, ListPlayers(h) PROVE TypeInv'
  BY <1>4, ListPlayersTypes
<1>5. ASSUME NEW h \in Handler, CreateRows(h) PROVE TypeInv'
  BY <1>5, CreateRowsDoes, DecidesTypes
<1>6. ASSUME NEW h \in Handler, Credit(h) PROVE TypeInv'
  BY <1>6, CreditDoes, DecidesTypes
<1>7. ASSUME NEW h \in Handler, Renumber(h) PROVE TypeInv'
  BY <1>7, RenumberDoes, DecidesTypes
<1>8. ASSUME NEW h \in Handler, ReadStats(h) \/ ReadList(h) \/ AnswerList(h) PROVE TypeInv'
  BY <1>8, ReadTypes
<1>9. ASSUME NEW h \in Handler, Write(h) PROVE TypeInv'
  BY <1>9, WriteTypes
<1> QED
  BY <1>1, <1>2, <1>3, <1>4, <1>5, <1>6, <1>7, <1>8, <1>9 DEF Next

(* The table, the copies of its rows and the calls operations have left.   *)
THEOREM TypeInvariant == Spec => []TypeInv
  BY TypeInit, TypeStep, PTL DEF Spec

(* The types, with what the SELECT of a save has found out: a change that  *)
(* is no INSERT is of a row there is, so no UPDATE is of a row nobody has. *)
THEOREM TypeCorrect == Spec => []TypeOK
<1>1. TypeInv => TypeOK
  BY DEF TypeInv
<1> QED
  BY <1>1, TypeInvariant, PTL
-----------------------------------------------------------------------------
(***************************************************************************)
(* The points that awards under way have still to add: a pile with as many *)
(* counters of each handler as it has points to give.                      *)
(***************************************************************************)
Pile(d) == {x \in Handler \X Nat : x[2] \in 1..d[x[1]]}

LEMMA PileChange ==
    ASSUME NEW d \in [Handler -> Nat], NEW e \in [Handler -> Nat], NEW h \in Handler,
           NEW n \in Nat, IsFiniteSet(Pile(d)), e[h] = n, \A g \in Handler \ {h} : e[g] = d[g]
    PROVE  /\ IsFiniteSet(Pile(e))
           /\ Cardinality(Pile(d)) \in Nat /\ Cardinality(Pile(e)) \in Nat
           /\ Cardinality(Pile(e)) + d[h] = Cardinality(Pile(d)) + n
<1> DEFINE Rest0 == {x \in Pile(d) : x[1] # h}
           Own(m) == {h} \X (1..m)
<1>1. \A m \in Nat : /\ IsFiniteSet(Own(m)) /\ Cardinality(Own(m)) = m
                     /\ Rest0 \cap Own(m) = {}
  <2> TAKE m \in Nat
  <2>1. IsFiniteSet(1..m) /\ Cardinality(1..m) = m
    <3>1. 1 \in Int /\ m \in Int
      OBVIOUS
    <3>2. IsFiniteSet(1..m) /\ Cardinality(1..m) = IF 1 > m THEN 0 ELSE m - 1 + 1
      BY <3>1, FS_Interval
    <3> QED
      BY <3>2
  <2>2. IsFiniteSet({h}) /\ Cardinality({h}) = 1
    BY FS_Singleton
  <2>3. IsFiniteSet(Own(m)) /\ Cardinality(Own(m)) = 1 * m
    BY <2>1, <2>2, FS_Product
  <2>4. Rest0 \cap Own(m) = {}
    OBVIOUS
  <2> QED
    BY <2>3, <2>4
<1>2. Pile(d) = Rest0 \cup Own(d[h])
  BY DEF Pile
<1>3. Pile(e) = Rest0 \cup Own(n)
  BY DEF Pile
<1>4. IsFiniteSet(Rest0) /\ Cardinality(Rest0) \in Nat
  BY FS_Subset, FS_CardinalityType
<1> HIDE DEF Rest0, Own
<1>5. ASSUME NEW m \in Nat
      PROVE  /\ IsFiniteSet(Rest0 \cup Own(m))
             /\ Cardinality(Rest0 \cup Own(m)) = Cardinality(Rest0) + m
  <2>1. /\ IsFiniteSet(Rest0 \cup Own(m))
        /\ Cardinality(Rest0 \cup Own(m)) =
             Cardinality(Rest0) + Cardinality(Own(m)) - Cardinality(Rest0 \cap Own(m))
    BY <1>1, <1>4, FS_Union
  <2>2. Cardinality(Rest0 \cap Own(m)) = 0
    BY <1>1, FS_EmptySet
  <2> QED
    BY <1>1, <1>4, <2>1, <2>2
<1>6. PICK a, k : a = d[h] /\ k = Cardinality(Rest0)
  OBVIOUS
<1>7. a \in Nat /\ k \in Nat
  BY <1>4, <1>6
<1>8. IsFiniteSet(Pile(e)) /\ Cardinality(Pile(e)) = k + n /\ Cardinality(Pile(d)) = k + a
  BY <1>2, <1>3, <1>5, <1>6, <1>7
<1> QED
  BY <1>6, <1>7, <1>8

(* What a task has still to add to the points of a player.                 *)
Due(t, p) == IF t.todo \in Seq(Plain) THEN 0 ELSE Amount(t, p)
Debts(p) == [g \in Handler |-> Due(run[g], p)]
Room(p) == owed[p] - Cardinality(Pile(Debts(p)))

Bounded(t, p, b) ==
    /\ p \in DOMAIN t.held => t.held[p].points <= b
    /\ p \in DOMAIN t.write => t.write[p].row.points <= b

(* No copy of a row, in the table, in memory or about to be written, has a *)
(* point that is still due to its player.                                  *)
Covered ==
    \A p \in Player :
        /\ IsFiniteSet(Pile(Debts(p)))
        /\ Points(p) <= Room(p)
        /\ \A h \in Handler : run[h] # Idle => Bounded(run[h], p, Room(p))

LEMMA AmountIsNat == ASSUME NEW t, NEW T, Fits(t, T), NEW p PROVE Amount(t, p) \in Nat
  BY FitsFields DEF Amount

LEMMA DueIsNat == ASSUME NEW t, NEW p, t.todo \in Seq(Plain) \/ \E T : Fits(t, T)
                  PROVE  Due(t, p) \in Nat
  BY AmountIsNat DEF Due

LEMMA DebtsAreNat ==
    /\ TypeInv => \A p : Debts(p) \in [Handler -> Nat]
    /\ TypeInv' => \A p : Debts(p)' \in [Handler -> Nat]
<1>1. ASSUME TypeInv, NEW p PROVE Debts(p) \in [Handler -> Nat]
  <2>1. \A h \in Handler : run[h].todo \in Seq(Plain) \/ Fits(run[h], stats)
    BY <1>1, AtWork, PlainPrograms
  <2> QED
    BY <2>1, DueIsNat DEF Debts
<1>2. ASSUME TypeInv', NEW p PROVE Debts(p)' \in [Handler -> Nat]
  <2>1. ASSUME NEW h \in Handler PROVE Due(run'[h], p) \in Nat
    <3>1. run'[h] = Idle \/ WorkOK(run[h])'
      BY <1>2 DEF TypeInv, TypeOK
    <3>2. WorkOK(run[h])' => Fits(run'[h], stats')
      BY DEF WorkOK, Fits, Work
    <3>3. Idle.todo \in Seq(Plain)
      BY IdleIsPlaced, PlainPrograms
    <3> QED
      BY <3>1, <3>2, <3>3, DueIsNat
  <2> QED
    BY <2>1 DEF Debts
<1> QED
  BY <1>1, <1>2

LEMMA RoomChange ==
    ASSUME TypeInv, TypeInv', NEW h \in Handler, NEW u, run' = [run EXCEPT ![h] = u],
           NEW p \in Player, IsFiniteSet(Pile(Debts(p)))
    PROVE  /\ IsFiniteSet(Pile(Debts(p)))'
           /\ Due(run[h], p) \in Nat /\ Due(u, p) \in Nat
           /\ Room(p) \in Int /\ Room(p)' \in Int
           /\ Room(p)' = Room(p) + (owed'[p] - owed[p]) + Due(run[h], p) - Due(u, p)
<1>1. PICK d, e, n : d = Debts(p) /\ e = Debts(p)' /\ n = Due(u, p)
  OBVIOUS
<1>2. d \in [Handler -> Nat] /\ e \in [Handler -> Nat]
  BY <1>1, DebtsAreNat
<1>3. run'[h] = u /\ \A g \in Handler : g # h => run'[g] = run[g]
  BY DEF TypeInv, TypeOK
<1>4. n \in Nat /\ d[h] = Due(run[h], p) /\ e = [d EXCEPT ![h] = n]
  <2>1. d = [g \in Handler |-> Due(run[g], p)] /\ e = [g \in Handler |-> Due(run'[g], p)]
    BY <1>1 DEF Debts
  <2>2. e[h] = n /\ \A g \in Handler : g # h => e[g] = d[g]
    BY <1>1, <1>3, <2>1
  <2> QED
    BY <1>2, <2>1, <2>2
<1>5. /\ IsFiniteSet(Pile(e)) /\ Cardinality(Pile(d)) \in Nat /\ Cardinality(Pile(e)) \in Nat
      /\ Cardinality(Pile(e)) + d[h] = Cardinality(Pile(d)) + n
  <2>1. IsFiniteSet(Pile(d))
    BY <1>1
  <2>2. d \in [Handler -> Nat] /\ e \in [Handler -> Nat] /\ n \in Nat
    BY <1>2, <1>4
  <2>3. e[h] = n /\ \A g \in Handler \ {h} : e[g] = d[g]
    BY <1>2, <1>4
  <2> QED
    BY <2>1, <2>2, <2>3, PileChange
<1>6. owed[p] \in Nat /\ owed'[p] \in Nat
  BY DEF TypeInv, TypeOK
<1>7. Room(p) = owed[p] - Cardinality(Pile(d)) /\ Room(p)' = owed'[p] - Cardinality(Pile(e))
  BY <1>1 DEF Room
<1>8. IsFiniteSet(Pile(Debts(p)))'
  BY <1>1, <1>5
<1>9. d[h] \in Nat
  BY <1>2
<1> QED
  BY <1>1, <1>4, <1>5, <1>6, <1>7, <1>8, <1>9

LEMMA BoundedMore ==
    ASSUME NEW t, NEW T, Fits(t, T), NEW p, NEW b \in Int, NEW c \in Int, b <= c,
           Bounded(t, p, b)
    PROVE  Bounded(t, p, c)
<1>1. p \in DOMAIN t.held => t.held[p].points \in Nat
  BY FitsFields, TableFields
<1>2. p \in DOMAIN t.write => t.write[p].row.points \in Nat
  BY FitsFields, RowFields DEF Change
<1> QED
  BY <1>1, <1>2 DEF Bounded

LEMMA CoverTurn ==
    ASSUME TypeInv, TypeInv', Covered, NEW h \in Handler, NEW u, run' = [run EXCEPT ![h] = u],
           \A p \in Player : /\ Room(p) <= Room(p)' /\ Points(p)' <= Room(p)'
                             /\ u = Idle \/ Bounded(u, p, Room(p)')
    PROVE  Covered'
<1> SUFFICES ASSUME NEW p \in Player
             PROVE  /\ IsFiniteSet(Pile(Debts(p)))' /\ Points(p)' <= Room(p)'
                    /\ \A g \in Handler : run'[g] # Idle => Bounded(run'[g], p, Room(p)')
  BY DEF Covered
<1>1. IsFiniteSet(Pile(Debts(p)))' /\ Room(p) \in Int /\ Room(p)' \in Int
  <2>1. IsFiniteSet(Pile(Debts(p)))
    BY DEF Covered
  <2>2. owed[p] \in Nat /\ owed'[p] \in Nat
    BY DEF TypeInv, TypeOK
  <2> QED
    BY <2>1, <2>2, RoomChange
<1>2. run'[h] = u /\ \A g \in Handler : g # h => run'[g] = run[g]
  BY DEF TypeInv, TypeOK
<1>3. ASSUME NEW g \in Handler, run'[g] # Idle PROVE Bounded(run'[g], p, Room(p)')
  <2>1. CASE g = h
    BY <1>2, <1>3, <2>1
  <2>2. CASE g # h
    <3>1. PICK t, b, c : t = run[g] /\ b = Room(p) /\ c = Room(p)'
      OBVIOUS
    <3>2. run'[g] = t /\ t # Idle /\ Bounded(t, p, b)
      BY <1>2, <1>3, <2>2, <3>1 DEF Covered
    <3>3. Fits(t, stats)
      BY <3>1, <3>2, FitsIsWorkOK DEF TypeInv, TypeOK
    <3>4. b \in Int /\ c \in Int /\ b <= c
      BY <1>1, <3>1
    <3>5. Bounded(t, p, c)
      BY <3>2, <3>3, <3>4, BoundedMore
    <3> QED
      BY <3>1, <3>2, <3>5
  <2> QED
    BY <2>1, <2>2
<1> QED
  BY <1>1, <1>3

(* A call that adds nothing: what is due to a player can only fall.        *)
LEMMA CoverCall ==
    ASSUME TypeInv, TypeInv', Covered, NEW h \in Handler, NEW t, Becomes(h, t),
           run[h].todo # <<>>,
           \A p \in Player : t.todo = <<>> \/ Due(t, p) <= Due(run[h], p),
           \A p \in Player : Points(p)' <= Room(p),
           t.todo = <<>> \/ (Fits(t, stats) /\ \A p \in Player : Bounded(t, p, Room(p)))
    PROVE  Covered'
<1>1. PICK u : u = IF t.todo = <<>> THEN Idle ELSE t
  OBVIOUS
<1>2. run' = [run EXCEPT ![h] = u] /\ owed' = owed
  BY <1>1 DEF Becomes
<1>3. IsTable(stats')
  BY DEF TypeInv, TypeOK, IsTable
<1>4. ASSUME NEW p \in Player
      PROVE  /\ Room(p) <= Room(p)' /\ Points(p)' <= Room(p)'
             /\ u = Idle \/ Bounded(u, p, Room(p)')
  <2>1. IsFiniteSet(Pile(Debts(p)))
    BY DEF Covered
  <2>2. /\ Due(run[h], p) \in Nat /\ Due(u, p) \in Nat /\ Room(p) \in Int
        /\ Room(p)' = Room(p) + (owed'[p] - owed[p]) + Due(run[h], p) - Due(u, p)
    BY <1>2, <2>1, RoomChange
  <2>3. Due(u, p) <= Due(run[h], p)
    <3>1. CASE t.todo = <<>>
      <4>1. Due(u, p) = 0
        BY <1>1, <3>1, IdleIsPlaced, PlainPrograms DEF Due
      <4> QED
        BY <2>2, <4>1
    <3>2. CASE t.todo # <<>>
      BY <1>1, <3>2
    <3> QED
      BY <3>1, <3>2
  <2>4. PICK b, c, x, y, o : /\ b = Room(p) /\ c = Room(p)' /\ x = Due(run[h], p)
                             /\ y = Due(u, p) /\ o = owed[p]
    OBVIOUS
  <2>5. o \in Nat /\ c = b + (o - o) + x - y
    BY <1>2, <2>2, <2>4 DEF TypeInv, TypeOK
  <2>6. b \in Int /\ c \in Int /\ b <= c
    BY <2>2, <2>3, <2>4, <2>5
  <2>7. Points(p)' <= c
    <3>1. Points(p)' \in Nat
      BY <1>3, TableFields DEF Points
    <3> QED
      BY <2>4, <2>6, <3>1
  <2>8. u = Idle \/ Bounded(u, p, c)
    <3>1. CASE t.todo = <<>>
      BY <1>1, <3>1
    <3>2. CASE t.todo # <<>>
      <4>1. u = t /\ Fits(u, stats) /\ Bounded(u, p, b)
        BY <1>1, <2>4, <3>2
      <4> QED
        BY <2>6, <4>1, BoundedMore
    <3> QED
      BY <3>1, <3>2
  <2> QED
    BY <2>4, <2>6, <2>7, <2>8
<1> QED
  BY <1>2, <1>4, CoverTurn

LEMMA CoverNow ==
    ASSUME TypeInv, Covered, NEW p \in Player
    PROVE  /\ Room(p) \in Int /\ Points(p) \in Nat /\ Points(p) <= Room(p) /\ 0 <= Room(p)
           /\ \A h \in Handler : run[h].todo # <<>> => Bounded(run[h], p, Room(p))
<1>1. owed[p] \in Nat /\ Cardinality(Pile(Debts(p))) \in Nat
  BY FS_CardinalityType DEF Covered, TypeInv, TypeOK
<1>2. Room(p) \in Int
  BY <1>1 DEF Room
<1>3. IsTable(stats)
  BY DEF TypeInv, TypeOK, IsTable
<1>4. Points(p) \in Nat
  BY <1>3, TableFields DEF Points
<1>5. Points(p) <= Room(p)
  BY DEF Covered
<1>6. 0 <= Room(p)
  BY <1>2, <1>4, <1>5
<1>7. \A h \in Handler : run[h].todo # <<>> => Bounded(run[h], p, Room(p))
  BY IdleIsPlaced DEF Covered
<1> QED
  BY <1>2, <1>4, <1>5, <1>6, <1>7

LEMMA DueFalls ==
    ASSUME NEW t, NEW u, NEW T, Fits(t, T), Fits(u, T), Same(t, u),
           u.todo \in Seq(Plain) => t.todo \in Seq(Plain), NEW p
    PROVE  Due(t, p) <= Due(u, p)
<1>1. Due(t, p) \in Nat /\ Due(u, p) \in Nat
  BY DueIsNat
<1>2. Amount(t, p) = Amount(u, p)
  BY DEF Same, Amount
<1>3. CASE t.todo \in Seq(Plain)
  <2>1. Due(t, p) = 0
    BY <1>3 DEF Due
  <2> QED
    BY <1>1, <2>1
<1>4. CASE t.todo \notin Seq(Plain)
  <2>1. Due(t, p) = Due(u, p)
    BY <1>2, <1>4 DEF Due
  <2> QED
    BY <1>1, <2>1
<1> QED
  BY <1>3, <1>4

(* A call that leaves the table as it is and takes no point it has not got.*)
LEMMA CoverRead ==
    ASSUME TypeInv, TypeInv', Covered, NEW h \in Handler, NEW t, Becomes(h, t), stats' = stats,
           run[h].todo # <<>>, Fits(t, stats), Same(t, run[h]),
           run[h].todo \in Seq(Plain) => t.todo \in Seq(Plain),
           \A p \in Player : Bounded(t, p, Room(p))
    PROVE  Covered'
<1>1. Fits(run[h], stats)
  BY AtWork
<1>2. \A p \in Player : Due(t, p) <= Due(run[h], p)
  BY <1>1, DueFalls
<1>3. \A p \in Player : Points(p)' <= Room(p)
  BY DEF Covered, Points
<1> QED
  BY <1>2, <1>3, CoverCall

LEMMA EnsureCovers ==
    ASSUME TypeInv, TypeInv', Covered, NEW h \in Handler, EnsureStats(h)
    PROVE  Covered'
<1>1. PICK q, t :
        /\ q \in Player
        /\ run[h].todo # <<>> /\ Becomes(h, t) /\ stats' = stats /\ Fits(t, stats)
        /\ Same(t, run[h]) /\ t.write = run[h].write
        /\ IF q \in DOMAIN stats
           THEN t.todo = Tail(run[h].todo) /\ t.held = WithRow(run[h].held, q, stats[q])
           ELSE /\ t.todo = Creating({q}, Tail(run[h].todo))
                /\ t.held = WithRow(run[h].held, q, FreshRow)
  BY EnsureStatsDoes
<1>2. IsTable(run[h].held) /\ IsTable(stats)
  BY <1>1, AtWork, FitsFields
<1>3. run[h].todo \in Seq(Plain) => t.todo \in Seq(Plain)
  BY <1>1, PlainPrograms
<1>4. PICK r : r = IF q \in DOMAIN stats THEN stats[q] ELSE FreshRow
  OBVIOUS
<1>5. r \in Row /\ r.points = Points(q) /\ t.held = WithRow(run[h].held, q, r)
  BY <1>1, <1>2, <1>4, TableFields, RowFields DEF Points
<1>6. /\ DOMAIN t.held = DOMAIN run[h].held \cup {q} /\ t.held[q] = r
      /\ \A p \in DOMAIN run[h].held : p # q => t.held[p] = run[h].held[p]
  <2>1. PICK H : H = run[h].held
    OBVIOUS
  <2>2. IsTable(H) /\ r \in Row /\ q \in Player
    BY <1>1, <1>2, <1>5, <2>1
  <2>3. /\ DOMAIN WithRow(H, q, r) = DOMAIN H \cup {q} /\ WithRow(H, q, r)[q] = r
        /\ \A p \in DOMAIN H : p # q => WithRow(H, q, r)[p] = H[p]
    BY <2>2, WithRowIsTable
  <2> QED
    BY <1>5, <2>1, <2>3
<1>7. ASSUME NEW p \in Player PROVE Bounded(t, p, Room(p))
  <2>1. Bounded(run[h], p, Room(p)) /\ Points(p) <= Room(p)
    BY <1>1, CoverNow
  <2> QED
    BY <1>1, <1>5, <1>6, <2>1 DEF Bounded
<1> QED
  BY <1>1, <1>3, <1>7, CoverRead

LEMMA ListPlayersCovers ==
    ASSUME TypeInv, TypeInv', Covered, NEW h \in Handler, ListPlayers(h)
    PROVE  Covered'
<1>1. PICK t :
        /\ run[h].todo # <<>> /\ Becomes(h, t) /\ stats' = stats /\ Fits(t, stats)
        /\ Same(t, run[h]) /\ t.write = run[h].write /\ t.held = run[h].held
        /\ \/ t.todo = Tail(run[h].todo)
           \/ t.todo = Creating(Player \ DOMAIN stats, Tail(run[h].todo))
  BY ListPlayersDoes
<1>2. run[h].todo \in Seq(Plain) => t.todo \in Seq(Plain)
  BY <1>1, PlainPrograms
<1>3. \A p \in Player : Bounded(t, p, Room(p))
  BY <1>1, CoverNow DEF Bounded
<1> QED
  BY <1>1, <1>2, <1>3, CoverRead

LEMMA DecidesCovers ==
    ASSUME TypeInv, TypeInv', Covered, NEW h \in Handler, NEW R, IsTable(R), Decides(h, R),
           \A p \in DOMAIN R : R[p].points <= Room(p)
    PROVE  Covered'
<1>1. PICK t :
        /\ run[h].todo # <<>> /\ Becomes(h, t) /\ stats' = stats /\ Fits(t, stats)
        /\ Same(t, run[h]) /\ t.held = run[h].held /\ t.todo = Tail(run[h].todo)
        /\ t.write = Diff(R)
  BY DEF Decides
<1>2. run[h].todo \in Seq(Plain) => t.todo \in Seq(Plain)
  BY <1>1, PlainPrograms
<1>3. DOMAIN t.write = DOMAIN R /\ \A p \in DOMAIN R : t.write[p].row = R[p]
  BY <1>1, AtWork, DiffFits
<1>4. \A p \in Player : Bounded(t, p, Room(p))
  BY <1>1, <1>3, CoverNow DEF Bounded
<1> QED
  BY <1>1, <1>2, <1>4, CoverRead

LEMMA CreateRowsCovers ==
    ASSUME TypeInv, TypeInv', Covered, NEW h \in Handler, CreateRows(h)
    PROVE  Covered'
<1>1. PICK D \in SUBSET Player : Decides(h, Fresh(D))
  BY CreateRowsDoes
<1>2. IsTable(Fresh(D)) /\ DOMAIN Fresh(D) = D
  BY FreshIsTable
<1>3. \A p \in D : Fresh(D)[p].points <= Room(p)
  BY CoverNow, RowFields DEF Fresh
<1> QED
  BY <1>1, <1>2, <1>3, DecidesCovers

LEMMA RenumberCovers ==
    ASSUME TypeInv, TypeInv', Covered, NEW h \in Handler, Renumber(h)
    PROVE  Covered'
<1>1. run[h].todo # <<>> /\ Decides(h, run[h].held)
  BY RenumberDoes DEF Decides
<1>2. IsTable(run[h].held) /\ DOMAIN run[h].held \subseteq Player
  BY <1>1, AtWork, FitsFields, TableFields
<1>3. \A p \in DOMAIN run[h].held : run[h].held[p].points <= Room(p)
  BY <1>1, <1>2, CoverNow DEF Bounded
<1> QED
  BY <1>1, <1>2, <1>3, DecidesCovers

LEMMA ReadCovers ==
    ASSUME TypeInv, TypeInv', Covered, NEW h \in Handler,
           ReadStats(h) \/ ReadList(h) \/ AnswerList(h)
    PROVE  Covered'
<1>1. PICK t :
        /\ run[h].todo # <<>> /\ Becomes(h, t) /\ stats' = stats /\ Fits(t, stats)
        /\ Same(t, run[h]) /\ t.todo = Tail(run[h].todo) /\ t.write = run[h].write
        /\ t.held \in {Renumbered(stats), stats, run[h].held}
  BY ReadStatsDoes, ReadListDoes, AnswerListDoes
<1>2. run[h].todo \in Seq(Plain) => t.todo \in Seq(Plain)
  BY <1>1, PlainPrograms
<1>3. IsTable(stats)
  BY <1>1, AtWork
<1>4. ASSUME NEW p \in Player PROVE Bounded(t, p, Room(p))
  <2>1. Bounded(run[h], p, Room(p)) /\ Points(p) <= Room(p)
    BY <1>1, CoverNow
  <2>2. p \in DOMAIN Renumbered(stats) =>
          p \in DOMAIN stats /\ Renumbered(stats)[p].points = stats[p].points
    BY <1>3, RenumberedIsTable
  <2> QED
    BY <1>1, <2>1, <2>2 DEF Bounded, Points
<1> QED
  BY <1>1, <1>2, <1>4, CoverRead

LEMMA WriteCovers ==
    ASSUME TypeInv, TypeInv', Covered, NEW h \in Handler, Write(h)
    PROVE  Covered'
<1>1. run[h].todo # <<>>
  BY WriteDoes
<1>2. IsTable(stats) /\ Fits(run[h], stats)
  BY <1>1, AtWork
<1>3. CASE Becomes(h, Idle) /\ stats' = stats
  <2>1. \A p \in Player : Points(p)' <= Room(p)
    BY <1>3 DEF Covered, Points
  <2> QED
    BY <1>1, <1>3, <2>1, IdleIsPlaced, CoverCall
<1>4. ASSUME NEW t, Becomes(h, t), Fits(t, stats), stats' = Saved(run[h].write, stats),
             Same(t, run[h]), t.todo = Tail(run[h].todo), t.held = run[h].held,
             t.write = Nothing
      PROVE  Covered'
  <2>1. \A p \in Player : Bounded(t, p, Room(p))
    BY <1>1, <1>4, CoverNow DEF Bounded, Nothing
  <2>2. run[h].todo \in Seq(Plain) => t.todo \in Seq(Plain)
    BY <1>1, <1>4, PlainPrograms
  <2>3. \A p \in Player : Due(t, p) <= Due(run[h], p)
    BY <1>2, <1>4, <2>2, DueFalls
  <2>4. ASSUME NEW p \in Player PROVE Points(p)' <= Room(p)
    <3>1. Bounded(run[h], p, Room(p)) /\ Points(p) <= Room(p) /\ 0 <= Room(p)
      BY <1>1, CoverNow
    <3>2. PICK W : W = run[h].write
      OBVIOUS
    <3>3. p \in DOMAIN W => W[p].insert \/ p \in DOMAIN stats
      BY <1>2, <3>2 DEF Fits
    <3>4. stats' = Saved(W, stats) /\ (p \in DOMAIN W => W[p].row.points <= Room(p))
      BY <1>4, <3>1, <3>2 DEF Bounded
    <3>5. Points(p)' = IF p \in DOMAIN stats' THEN stats'[p].points ELSE 0
      BY DEF Points
    <3>6. CASE p \in DOMAIN W
      <4>1. /\ p \in DOMAIN stats'
            /\ stats'[p] = IF W[p].insert THEN W[p].row ELSE Replaced(W[p], stats[p])
        BY <3>4, <3>6 DEF Saved
      <4>2. CASE W[p].insert
        BY <3>4, <3>5, <3>6, <4>1, <4>2
      <4>3. CASE ~W[p].insert
        <5>1. p \in DOMAIN stats /\ stats'[p] = Replaced(W[p], stats[p])
          BY <3>3, <3>6, <4>1, <4>3
        <5>2. stats'[p].points = IF W[p].points THEN W[p].row.points ELSE stats[p].points
          BY <5>1 DEF Replaced
        <5>3. stats[p].points <= Room(p)
          BY <3>1, <5>1 DEF Points
        <5> QED
          BY <3>4, <3>5, <3>6, <4>1, <5>2, <5>3
      <4> QED
        BY <4>2, <4>3
    <3>7. CASE p \notin DOMAIN W
      <4>1. /\ p \in DOMAIN stats' <=> p \in DOMAIN stats
            /\ p \in DOMAIN stats => stats'[p] = stats[p]
        BY <3>4, <3>7 DEF Saved
      <4> QED
        BY <3>1, <3>5, <4>1 DEF Points
    <3> QED
      BY <3>6, <3>7
  <2> QED
    BY <1>1, <1>4, <2>1, <2>3, <2>4, CoverCall
<1> QED
  BY <1>3, <1>4, WriteDoes

LEMMA CreditCovers ==
    ASSUME TypeInv, TypeInv', Covered, NEW h \in Handler, Credit(h)
    PROVE  Covered'
<1>1. /\ run[h].todo = Crediting
      /\ run[h].winner \in DOMAIN run[h].held /\ run[h].loser \in DOMAIN run[h].held
      /\ run[h].winner # run[h].loser
      /\ Decides(h, Credited(run[h]))
  BY CreditDoes DEF Awarding
<1>2. PICK t :
        /\ run[h].todo # <<>> /\ Becomes(h, t) /\ stats' = stats /\ Fits(t, stats)
        /\ t.held = run[h].held /\ t.todo = Tail(run[h].todo)
        /\ t.write = Diff(Credited(run[h]))
  BY <1>1 DEF Decides
<1>3. Fits(run[h], stats) /\ IsTable(stats)
  BY <1>2, AtWork
<1>4. t.todo = Saving(Recalculating(<<>>)) /\ t.todo # <<>> /\ t.todo \in Seq(Plain)
  <2>1. t.todo = Saving(Recalculating(<<>>))
    BY <1>1, <1>2, LastShapes
  <2>2. Recalculating(<<>>) \in Seq(Call)
    BY Endings, Programs
  <2> QED
    BY <2>1, <2>2, PlainPrograms, Programs
<1>5. Crediting \notin Seq(Plain)
  <2>1. Head(Crediting) \notin Plain /\ Crediting # <<>>
    BY LastShapes, Endings DEF Plain
  <2> QED
    BY <2>1
<1>6. run' = [run EXCEPT ![h] = t] /\ owed' = owed
  BY <1>2, <1>4 DEF Becomes
<1>7. PICK r : r = run[h]
  OBVIOUS
<1>8. PICK R : R = Credited(r)
  OBVIOUS
<1>9. /\ IsTable(R) /\ DOMAIN R = {r.winner, r.loser}
      /\ \A p \in {r.winner, r.loser} : R[p].points = r.held[p].points + Amount(r, p)
  BY <1>1, <1>3, <1>7, <1>8, CreditedIsTable
<1>10. DOMAIN t.write = DOMAIN R /\ \A p \in DOMAIN R : t.write[p].row = R[p]
  BY <1>2, <1>3, <1>7, <1>8, <1>9, DiffFits
<1>11. ASSUME NEW p \in Player
       PROVE  /\ Room(p) <= Room(p)' /\ Points(p)' <= Room(p)' /\ Bounded(t, p, Room(p)')
  <2>1. IsFiniteSet(Pile(Debts(p)))
    BY DEF Covered
  <2>2. Room(p)' = Room(p) + (owed'[p] - owed[p]) + Due(r, p) - Due(t, p)
    BY <1>6, <1>7, <2>1, RoomChange
  <2>3. Due(t, p) = 0 /\ Due(r, p) = Amount(r, p)
    BY <1>1, <1>4, <1>5, <1>7 DEF Due
  <2>4. Amount(r, p) \in Nat
    BY <1>3, <1>7, AmountIsNat
  <2>5. Bounded(r, p, Room(p)) /\ Room(p) \in Int /\ Points(p) \in Nat /\ Points(p) <= Room(p)
    BY <1>2, <1>7, CoverNow
  <2>6. PICK b, c, a, o : b = Room(p) /\ c = Room(p)' /\ a = Amount(r, p) /\ o = owed[p]
    OBVIOUS
  <2>7. o \in Nat /\ c = b + (o - o) + a - 0
    BY <1>6, <2>2, <2>3, <2>6 DEF TypeInv, TypeOK
  <2>8. b \in Int /\ a \in Nat /\ c = b + a /\ b <= c /\ c \in Int
    BY <2>4, <2>5, <2>6, <2>7
  <2>9. Points(p)' <= c
    <3>1. Points(p)' = Points(p)
      BY <1>2 DEF Points
    <3> QED
      BY <2>5, <2>6, <2>8, <3>1
  <2>10. p \in DOMAIN t.held => t.held[p].points <= c
    <3> SUFFICES ASSUME p \in DOMAIN t.held PROVE t.held[p].points <= c
      OBVIOUS
    <3>1. t.held[p].points \in Nat /\ t.held[p].points <= b
      BY <1>2, <1>7, <2>5, <2>6, FitsFields, TableFields DEF Bounded
    <3> QED
      BY <2>8, <3>1
  <2>11. p \in DOMAIN t.write => t.write[p].row.points <= c
    <3> SUFFICES ASSUME p \in DOMAIN R PROVE R[p].points <= c
      BY <1>10
    <3>1. R[p].points = r.held[p].points + a /\ p \in DOMAIN r.held
      BY <1>1, <1>7, <1>9, <2>6
    <3>2. r.held[p].points \in Nat /\ r.held[p].points <= b
      BY <1>3, <1>7, <2>5, <2>6, <3>1, FitsFields, TableFields DEF Bounded
    <3> QED
      BY <2>8, <3>1, <3>2
  <2> QED
    BY <2>6, <2>8, <2>9, <2>10, <2>11 DEF Bounded
<1> QED
  BY <1>6, <1>11, CoverTurn

(* A new operation owes what its award adds, and has no row in memory.     *)
LEMMA BeginsCovers ==
    ASSUME TypeInv, TypeInv', Covered, NEW h \in Handler, NEW t, Begins(h, t),
           \A p \in Player : Due(t, p) <= owed'[p] - owed[p]
    PROVE  Covered'
<1>1. run' = [run EXCEPT ![h] = t] /\ run[h] = Idle /\ stats' = stats
      /\ t.held = Nothing /\ t.write = Nothing
  BY DEF Begins
<1>2. ASSUME NEW p \in Player
      PROVE  /\ Room(p) <= Room(p)' /\ Points(p)' <= Room(p)' /\ Bounded(t, p, Room(p)')
  <2>1. IsFiniteSet(Pile(Debts(p)))
    BY DEF Covered
  <2>2. /\ Due(run[h], p) \in Nat /\ Due(t, p) \in Nat
        /\ Room(p) \in Int /\ Room(p)' \in Int
        /\ Room(p)' = Room(p) + (owed'[p] - owed[p]) + Due(run[h], p) - Due(t, p)
    BY <1>1, <2>1, RoomChange
  <2>3. PICK b, c, x, y, o, n : /\ b = Room(p) /\ c = Room(p)' /\ x = Due(run[h], p)
                                /\ y = Due(t, p) /\ o = owed[p] /\ n = owed'[p]
    OBVIOUS
  <2>4. o \in Nat /\ n \in Nat /\ y <= n - o /\ c = b + (n - o) + x - y
    BY <2>2, <2>3 DEF TypeInv, TypeOK
  <2>5. b <= c
    BY <2>2, <2>3, <2>4
  <2>6. Points(p)' \in Nat /\ Points(p)' <= b
    <3>1. Points(p)' = Points(p)
      BY <1>1 DEF Points
    <3> QED
      BY <2>3, <3>1, CoverNow
  <2>7. Points(p)' <= c
    BY <2>2, <2>3, <2>5, <2>6
  <2>8. Bounded(t, p, Room(p)')
    BY <1>1 DEF Bounded, Nothing
  <2> QED
    BY <2>3, <2>5, <2>7, <2>8
<1> QED
  BY <1>1, <1>2, CoverTurn

LEMMA StartCovers ==
    ASSUME TypeInv, TypeInv', Covered, NEW h \in Handler,
           \/ \E w, l \in Player, diff \in RankDiff : StartAward(h, w, l, diff)
           \/ \E p, q \in Player : StartChallenge(h, p, q)
           \/ StartList(h)
    PROVE  Covered'
<1>1. ASSUME NEW w \in Player, NEW l \in Player, NEW d \in RankDiff, StartAward(h, w, l, d)
      PROVE  Covered'
  <2>1. PICK t : /\ Begins(h, t) /\ w # l
                 /\ t.winner = w /\ t.loser = l /\ t.diff = d
    BY <1>1, StartAwardDoes
  <2>2. /\ owed \in [Player -> Nat] /\ d \in Nat
        /\ owed' = [owed EXCEPT ![w] = @ + 125 + 5 * d, ![l] = @ + 25]
    BY <1>1, RankingAssumption DEF StartAward, TypeInv, TypeOK
  <2>3. ASSUME NEW p \in Player PROVE Due(t, p) <= owed'[p] - owed[p]
    <3>1. owed[p] \in Nat /\ 125 + 5 * d \in Nat
      BY <2>2
    <3>2. Due(t, p) = Amount(t, p) \/ Due(t, p) = 0
      BY DEF Due
    <3>3. Amount(t, p) = IF p = w THEN 125 + 5 * d ELSE IF p = l THEN 25 ELSE 0
      BY <2>1 DEF Amount
    <3>4. owed'[p] = IF p = w THEN owed[p] + 125 + 5 * d
                     ELSE IF p = l THEN owed[p] + 25 ELSE owed[p]
      BY <2>1, <2>2
    <3>5. PICK o, a : o = owed[p] /\ a = 5 * d
      OBVIOUS
    <3>6. o \in Nat /\ a \in Nat
      BY <2>2, <3>1, <3>5
    <3> QED
      BY <3>2, <3>3, <3>4, <3>5, <3>6
  <2> QED
    BY <2>1, <2>3, BeginsCovers
<1>2. ASSUME NEW t, Begins(h, t), t.todo \in Seq(Plain), owed' = owed
      PROVE  Covered'
  <2>1. \A p \in Player : Due(t, p) <= owed'[p] - owed[p]
    BY <1>2 DEF Due, TypeInv, TypeOK
  <2> QED
    BY <1>2, <2>1, BeginsCovers
<1>3. ASSUME NEW p \in Player, NEW q \in Player, StartChallenge(h, p, q)
      PROVE  Covered'
  BY <1>2, <1>3, StartChallengeDoes DEF StartChallenge
<1>4. CASE StartList(h)
  BY <1>2, <1>4, StartListDoes DEF StartList
<1> QED
  BY <1>1, <1>3, <1>4

LEMMA CoverInit == ASSUME Init PROVE Covered
<1> SUFFICES ASSUME NEW p \in Player
             PROVE  IsFiniteSet(Pile(Debts(p))) /\ Points(p) <= Room(p)
  BY DEF Init, Covered
<1>1. Debts(p) = [h \in Handler |-> 0]
  BY IdleIsPlaced, PlainPrograms DEF Init, Debts, Due
<1>2. Pile(Debts(p)) = {}
  BY <1>1 DEF Pile
<1>3. owed[p] = 0 /\ Points(p) = 0
  BY DEF Init, Nothing, Points
<1> QED
  BY <1>2, <1>3, FS_EmptySet DEF Room

LEMMA CoverStep == ASSUME TypeInv, TypeInv', Covered, [Next]_vars PROVE Covered'
<1>1. CASE UNCHANGED vars
  <2>1. UNCHANGED <<stats, run, owed, overlapped, started>>
    BY <1>1 DEF vars
  <2>2. \A p : Debts(p)' = Debts(p) /\ Room(p)' = Room(p) /\ Points(p)' = Points(p)
    BY <2>1 DEF Debts, Room, Points
  <2> QED
    BY <2>1, <2>2 DEF Covered
<1>2. ASSUME NEW h \in Handler,
             \/ \E w, l \in Player, diff \in RankDiff : StartAward(h, w, l, diff)
             \/ \E p, q \in Player : StartChallenge(h, p, q)
             \/ StartList(h)
      PROVE  Covered'
  BY <1>2, StartCovers
<1>3. ASSUME NEW h \in Handler, EnsureStats(h) \/ ListPlayers(h) \/ CreateRows(h)
      PROVE  Covered'
  BY <1>3, EnsureCovers, ListPlayersCovers, CreateRowsCovers
<1>4. ASSUME NEW h \in Handler, Credit(h) \/ Renumber(h) \/ Write(h)
      PROVE  Covered'
  BY <1>4, CreditCovers, RenumberCovers, WriteCovers
<1>5. ASSUME NEW h \in Handler, ReadStats(h) \/ ReadList(h) \/ AnswerList(h)
      PROVE  Covered'
  BY <1>5, ReadCovers
<1> QED
  BY <1>1, <1>2, <1>3, <1>4, <1>5 DEF Next

(* However the operations overlap, and whatever stale copies they save or  *)
(* inserts fail, no player ever has a point that applyMatchPoints was not  *)
(* called to add.                                                          *)
THEOREM PointsAreOwed == Spec => []NoPointFromNowhere
<1>1. ASSUME TypeInv, Covered PROVE NoPointFromNowhere
  <2> SUFFICES ASSUME NEW p \in Player PROVE Points(p) <= owed[p]
    BY DEF NoPointFromNowhere
  <2>1. owed[p] \in Nat /\ Cardinality(Pile(Debts(p))) \in Nat /\ Points(p) <= Room(p)
    BY <1>1, FS_CardinalityType DEF Covered, TypeInv, TypeOK
  <2>2. Points(p) \in Nat
    BY <1>1, CoverNow
  <2> QED
    BY <2>1, <2>2 DEF Room
<1>2. Init => Covered
  BY CoverInit
<1>3. TypeInv /\ TypeInv' /\ Covered /\ [Next]_vars => Covered'
  BY CoverStep
<1> QED
  BY <1>1, <1>2, <1>3, TypeInvariant, PTL DEF Spec
-----------------------------------------------------------------------------
(***************************************************************************)
(* One operation after the other. A task is ready to go on with the calls s*)
(* on the table T when T holds what the calls before them leave; o is what *)
(* is owed.                                                                *)
(***************************************************************************)
PointsIn(T, p) == IF p \in DOMAIN T THEN T[p].points ELSE 0
Settled(T, o) == \A p \in Player : PointsIn(T, p) = o[p]
Owing(t, T, o) == \A p \in Player : PointsIn(T, p) + Amount(t, p) = o[p]
Ranked(T) == \A p \in DOMAIN T : T[p].rank = Position(T, p)
Complete(T) == Player \subseteq DOMAIN T

RanksHold(t, T) ==
    /\ Len(t.ranks) <= Len(t.asks)
    /\ t.ranks # <<>> => Complete(T)
    /\ \A i \in 1..Len(t.ranks) : t.ranks[i] = Position(T, t.asks[i])

(* What may come after the write of a recalculation.                       *)
Ends == {<<>>, Listing} \cup {Ensuring(q, Recalculating(<<>>)) : q \in Player}

Keeps(t, T, p) == p \in DOMAIN T /\ p \in DOMAIN t.held /\ t.held[p] = T[p]

(* An award before its credit, with the rows of its players as they are.   *)
ReadyToAward(s, t, T, o) ==
    /\ Owing(t, T, o) /\ t.ranks = <<>>
    /\ t.winner \in Player /\ t.loser \in Player /\ t.winner # t.loser
    /\ \/ s = Ensuring(t.winner, Ensuring(t.loser, Crediting))
       \/ s = Ensuring(t.loser, Crediting) /\ Keeps(t, T, t.winner)
       \/ s = Crediting /\ Keeps(t, T, t.winner) /\ Keeps(t, T, t.loser)

ReadyToRank(s, t, T) ==
    \E e \in Ends :
       \/ \E p \in Player : s = Ensuring(p, Recalculating(e))
       \/ s = Recalculating(e)
       \/ s = Reading(e) /\ Complete(T)
       \/ s = Renumbering(e) /\ Complete(T) /\ t.held = Renumbered(T)

ReadyToEnd(s, t, T) ==
    /\ Ranked(T)
    /\ s = <<>> \/ s = Listing \/ (s = Answering /\ t.held = T)

Ready(s, t, T, o) ==
    \/ ReadyToAward(s, t, T, o)
    \/ /\ Settled(T, o) /\ RanksHold(t, T)
       /\ ReadyToRank(s, t, T) \/ ReadyToEnd(s, t, T)

(* Ready once the rows it creates, or its write, are in the table.         *)
ReadyToCreate(D, s, t, T, o) ==
    /\ t.ranks = <<>> /\ D \cap DOMAIN T = {}
    /\ Ready(s, t, Overlay(T, Fresh(D)), o)

ReadyToWrite(s, t, T, o) ==
    /\ RanksHold(t, T)
    /\ \A p \in DOMAIN t.write : t.write[p].insert => p \notin DOMAIN T
    /\ Ready(s, t, Saved(t.write, T), o)

InTurn(t, T, o) ==
    \/ Ready(t.todo, t, T, o)
    \/ \E D \in SUBSET Player, s \in Seq(Call) :
         t.todo = Creating(D, s) /\ ReadyToCreate(D, s, t, T, o)
    \/ \E s \in Seq(Call) : t.todo = Saving(s) /\ ReadyToWrite(s, t, T, o)

OneAtATime ==
    ~overlapped =>
        /\ \A h, g \in Handler : run[h] # Idle /\ run[g] # Idle => h = g
        /\ \A h \in Handler : run[h] # Idle => InTurn(run[h], stats, owed)
        /\ Quiet => Settled(stats, owed) /\ Ranked(stats)

LEMMA EndsAreCalls ==
    /\ Ends \subseteq Seq(Call)
    /\ \A e \in Ends : /\ Saving(e) \in Seq(Call) /\ Renumbering(e) \in Seq(Call)
                       /\ Reading(e) \in Seq(Call) /\ Recalculating(e) \in Seq(Call)
<1>1. Ends \subseteq Seq(Call)
  <2>1. Recalculating(<<>>) \in Seq(Call)
    BY Endings, Programs
  <2>2. \A q \in Player : Ensuring(q, Recalculating(<<>>)) \in Seq(Call)
    BY <2>1, Programs
  <2> QED
    BY <2>2, Endings DEF Ends
<1> QED
  BY <1>1, Programs

(* A position depends on the points alone.                                 *)
LEMMA PositionSame ==
    ASSUME NEW T, NEW U, DOMAIN U = DOMAIN T, \A q \in DOMAIN T : U[q].points = T[q].points,
           NEW p \in DOMAIN T
    PROVE  Position(U, p) = Position(T, p)
<1>1. {q \in DOMAIN U : \/ U[q].points > U[p].points
                        \/ U[q].points = U[p].points /\ q < p} =
      {q \in DOMAIN T : \/ T[q].points > T[p].points
                        \/ T[q].points = T[p].points /\ q < p}
  OBVIOUS
<1> QED
  BY <1>1 DEF Position

LEMMA RenumberedIsRanked ==
    ASSUME NEW T, IsTable(T)
    PROVE  /\ Ranked(Renumbered(T))
           /\ \A p : PointsIn(Renumbered(T), p) = PointsIn(T, p)
           /\ \A p \in DOMAIN T : Position(Renumbered(T), p) = Position(T, p)
           /\ \A t : RanksHold(t, T) /\ t.asks \in Seq(Player) => RanksHold(t, Renumbered(T))
<1>1. PICK U : U = Renumbered(T)
  OBVIOUS
<1>2. DOMAIN U = DOMAIN T /\ \A p \in DOMAIN T : /\ U[p].points = T[p].points
                                                 /\ U[p].rank = Position(T, p)
  BY <1>1, RenumberedIsTable
<1>3. \A p \in DOMAIN T : Position(U, p) = Position(T, p)
  BY <1>2, PositionSame
<1>4. Ranked(U)
  BY <1>2, <1>3 DEF Ranked
<1>5. \A p : PointsIn(U, p) = PointsIn(T, p)
  BY <1>2 DEF PointsIn
<1>6. ASSUME NEW t, RanksHold(t, T), t.asks \in Seq(Player)
      PROVE  RanksHold(t, U)
  <2>1. Complete(T) => Complete(U)
    BY <1>2 DEF Complete
  <2>2. ASSUME NEW i \in 1..Len(t.ranks) PROVE t.ranks[i] = Position(U, t.asks[i])
    <3>1. t.ranks # <<>>
      BY <2>2
    <3>2. Complete(T) /\ i \in 1..Len(t.asks)
      BY <1>6, <3>1 DEF RanksHold
    <3>3. t.asks[i] \in DOMAIN T
      BY <1>6, <3>2 DEF Complete
    <3> QED
      BY <1>3, <1>6, <3>3 DEF RanksHold
  <2> QED
    BY <1>6, <2>1, <2>2 DEF RanksHold
<1> QED
  BY <1>1, <1>3, <1>4, <1>5, <1>6

LEMMA FreshOverlay ==
    ASSUME NEW T, IsTable(T), NEW D \in SUBSET Player, D \cap DOMAIN T = {}
    PROVE  /\ DOMAIN Overlay(T, Fresh(D)) = DOMAIN T \cup D
           /\ \A p \in DOMAIN T : Overlay(T, Fresh(D))[p] = T[p]
           /\ \A p \in D : Overlay(T, Fresh(D))[p] = FreshRow
           /\ \A p : PointsIn(Overlay(T, Fresh(D)), p) = PointsIn(T, p)
<1>1. PICK U, R : R = Fresh(D) /\ U = Overlay(T, R)
  OBVIOUS
<1>2. DOMAIN R = D /\ IsTable(R) /\ \A p \in D : R[p] = FreshRow
  BY <1>1, FreshIsTable DEF Fresh
<1>3. /\ DOMAIN U = DOMAIN T \cup D
      /\ \A p \in DOMAIN T : U[p] = T[p]
      /\ \A p \in D : U[p] = FreshRow
  <2>1. /\ DOMAIN Overlay(T, R) = DOMAIN T \cup DOMAIN R
        /\ \A p \in DOMAIN R : Overlay(T, R)[p] = R[p]
        /\ \A p \in DOMAIN T \ DOMAIN R : Overlay(T, R)[p] = T[p]
    BY <1>2, OverlayIsTable
  <2> QED
    BY <1>1, <1>2, <2>1
<1>4. \A p : PointsIn(U, p) = PointsIn(T, p)
  BY <1>3, RowFields DEF PointsIn
<1> QED
  BY <1>1, <1>3, <1>4

LEMMA ReadySame ==
    ASSUME NEW s, NEW t, NEW u, NEW T, NEW o, Same(u, t), u.held = t.held, u.ranks = t.ranks,
           Ready(s, t, T, o)
    PROVE  Ready(s, u, T, o)
<1>1. Owing(t, T, o) => Owing(u, T, o)
  BY DEF Owing, Amount, Same
<1>2. RanksHold(t, T) => RanksHold(u, T)
  BY DEF RanksHold, Same
<1>3. ReadyToAward(s, t, T, o) => ReadyToAward(s, u, T, o)
  BY <1>1 DEF ReadyToAward, Keeps, Same
<1>4. ReadyToRank(s, t, T) \/ ReadyToEnd(s, t, T) =>
      ReadyToRank(s, u, T) \/ ReadyToEnd(s, u, T)
  BY DEF ReadyToRank, ReadyToEnd
<1> QED
  BY <1>2, <1>3, <1>4 DEF Ready

(* What a ready task is about to do, by the name of its call.              *)
EnsuresReady(s, t, T, o, p) ==
    \/ ReadyToAward(s, t, T, o) /\ p = t.winner /\ Tail(s) = Ensuring(t.loser, Crediting)
    \/ /\ ReadyToAward(s, t, T, o) /\ p = t.loser
       /\ Tail(s) = Crediting /\ Keeps(t, T, t.winner)
    \/ Settled(T, o) /\ RanksHold(t, T) /\ \E e \in Ends : Tail(s) = Recalculating(e)

RanksReady(s, t, T, o) ==
    /\ Settled(T, o) /\ RanksHold(t, T)
    /\ Head(s)[1] = "listPlayers" => \E e \in Ends : Tail(s) = Reading(e)
    /\ Head(s)[1] = "readStats" => Complete(T) /\ \E e \in Ends : Tail(s) = Renumbering(e)
    /\ Head(s)[1] = "renumber" =>
         Complete(T) /\ t.held = Renumbered(T) /\ \E e \in Ends : Tail(s) = Saving(e)
    /\ Head(s)[1] = "list" => Ranked(T) /\ Tail(s) = Answering
    /\ Head(s)[1] = "answer" => Ranked(T) /\ t.held = T /\ Tail(s) = <<>>

CreditsReady(s, t, T, o) ==
    /\ ReadyToAward(s, t, T, o) /\ Tail(s) = Saving(Recalculating(<<>>))
    /\ Keeps(t, T, t.winner) /\ Keeps(t, T, t.loser)

LEMMA ReadyHeads ==
    ASSUME NEW s, NEW t, NEW T, NEW o, Ready(s, t, T, o), s # <<>>
    PROVE  \/ Head(s)[1] = "ensure" /\ EnsuresReady(s, t, T, o, Head(s)[2])
           \/ Head(s)[1] = "credit" /\ CreditsReady(s, t, T, o)
           \/ /\ Head(s)[1] \in {"listPlayers", "readStats", "renumber", "list", "answer"}
              /\ RanksReady(s, t, T, o)
<1>1. CASE ReadyToAward(s, t, T, o)
  <2>1. t.winner \in Player /\ t.loser \in Player
    BY <1>1 DEF ReadyToAward
  <2>2. Crediting \in Seq(Call) /\ Ensuring(t.loser, Crediting) \in Seq(Call)
    BY <2>1, AwardingPrograms
  <2>3. CASE s = Ensuring(t.winner, Ensuring(t.loser, Crediting))
    <3>1. Head(s) = <<"ensure", t.winner>> /\ Tail(s) = Ensuring(t.loser, Crediting)
      BY <2>1, <2>2, <2>3, Shapes
    <3>2. Head(s)[1] = "ensure" /\ Head(s)[2] = t.winner
      BY <3>1
    <3> QED
      BY <1>1, <3>1, <3>2 DEF EnsuresReady
  <2>4. CASE s = Ensuring(t.loser, Crediting) /\ Keeps(t, T, t.winner)
    <3>1. Head(s) = <<"ensure", t.loser>> /\ Tail(s) = Crediting
      BY <2>1, <2>2, <2>4, Shapes
    <3>2. Head(s)[1] = "ensure" /\ Head(s)[2] = t.loser
      BY <3>1
    <3> QED
      BY <1>1, <2>4, <3>1, <3>2 DEF EnsuresReady
  <2>5. CASE s = Crediting /\ Keeps(t, T, t.winner) /\ Keeps(t, T, t.loser)
    <3>1. Head(s) = <<"credit">> /\ Tail(s) = Saving(Recalculating(<<>>))
      BY <2>5, LastShapes
    <3>2. Head(s)[1] = "credit"
      BY <3>1
    <3> QED
      BY <1>1, <2>5, <3>1, <3>2 DEF CreditsReady
  <2> QED
    BY <1>1, <2>3, <2>4, <2>5 DEF ReadyToAward
<1>2. ASSUME Settled(T, o), RanksHold(t, T), ReadyToRank(s, t, T)
      PROVE  \/ Head(s)[1] = "ensure" /\ EnsuresReady(s, t, T, o, Head(s)[2])
             \/ /\ Head(s)[1] \in {"listPlayers", "readStats", "renumber", "list", "answer"}
                /\ RanksReady(s, t, T, o)
  <2>1. PICK e \in Ends :
          \/ \E p \in Player : s = Ensuring(p, Recalculating(e))
          \/ s = Recalculating(e)
          \/ s = Reading(e) /\ Complete(T)
          \/ s = Renumbering(e) /\ Complete(T) /\ t.held = Renumbered(T)
    BY <1>2 DEF ReadyToRank
  <2>2. e \in Seq(Call) /\ Recalculating(e) \in Seq(Call)
    BY EndsAreCalls
  <2>3. ASSUME NEW p \in Player, s = Ensuring(p, Recalculating(e))
        PROVE  Head(s)[1] = "ensure" /\ EnsuresReady(s, t, T, o, Head(s)[2])
    <3>1. Head(s) = <<"ensure", p>> /\ Tail(s) = Recalculating(e)
      BY <2>2, <2>3, Shapes
    <3>2. Head(s)[1] = "ensure"
      BY <3>1
    <3> QED
      BY <1>2, <2>3, <3>1, <3>2 DEF EnsuresReady
  <2>4. CASE s = Recalculating(e)
    <3>1. Head(s) = <<"listPlayers">> /\ Tail(s) = Reading(e)
      BY <2>2, <2>4, Shapes
    <3>2. Head(s)[1] = "listPlayers"
      BY <3>1
    <3> QED
      BY <1>2, <2>4, <3>1, <3>2 DEF RanksReady
  <2>5. CASE s = Reading(e) /\ Complete(T)
    <3>1. Head(s) = <<"readStats">> /\ Tail(s) = Renumbering(e)
      BY <2>2, <2>5, Shapes
    <3>2. Head(s)[1] = "readStats"
      BY <3>1
    <3> QED
      BY <1>2, <2>5, <3>1, <3>2 DEF RanksReady
  <2>6. CASE s = Renumbering(e) /\ Complete(T) /\ t.held = Renumbered(T)
    <3>1. Head(s) = <<"renumber">> /\ Tail(s) = Saving(e)
      BY <2>2, <2>6, Shapes
    <3>2. Head(s)[1] = "renumber"
      BY <3>1
    <3> QED
      BY <1>2, <2>6, <3>1, <3>2 DEF RanksReady
  <2> QED
    BY <2>1, <2>3, <2>4, <2>5, <2>6
<1>3. ASSUME Settled(T, o), RanksHold(t, T), ReadyToEnd(s, t, T)
      PROVE  /\ Head(s)[1] \in {"listPlayers", "readStats", "renumber", "list", "answer"}
             /\ RanksReady(s, t, T, o)
  <2>1. CASE s = Listing
    <3>1. Head(s) = <<"list">> /\ Tail(s) = Answering
      BY <2>1, LastShapes
    <3>2. Head(s)[1] = "list"
      BY <3>1
    <3> QED
      BY <1>3, <3>1, <3>2 DEF RanksReady, ReadyToEnd
  <2>2. CASE s = Answering /\ t.held = T
    <3>1. Head(s) = <<"answer">> /\ Tail(s) = <<>>
      BY <2>2, LastShapes
    <3>2. Head(s)[1] = "answer"
      BY <3>1
    <3> QED
      BY <1>3, <2>2, <3>1, <3>2 DEF RanksReady, ReadyToEnd
  <2> QED
    BY <1>3, <2>1, <2>2 DEF ReadyToEnd
<1> QED
  BY <1>1, <1>2, <1>3 DEF Ready

(* Which of the three ways a task is in turn, by the name of its call.     *)
LEMMA InTurnHeads ==
    ASSUME NEW t, NEW T, NEW o, InTurn(t, T, o), t.todo # <<>>
    PROVE  /\ Head(t.todo)[1] \notin {"create", "write"} => Ready(t.todo, t, T, o)
           /\ Head(t.todo)[1] = "create" =>
                \E D \in SUBSET Player, s \in Seq(Call) :
                   /\ Head(t.todo) = <<"create", D>> /\ Tail(t.todo) = Saving(s)
                   /\ ReadyToCreate(D, s, t, T, o)
           /\ Head(t.todo)[1] = "write" =>
                Tail(t.todo) \in Seq(Call) /\ ReadyToWrite(Tail(t.todo), t, T, o)
<1>1. ASSUME Ready(t.todo, t, T, o)
      PROVE  Head(t.todo)[1] \notin {"create", "write"}
  BY <1>1, ReadyHeads
<1>2. ASSUME NEW D \in SUBSET Player, NEW s \in Seq(Call), t.todo = Creating(D, s)
      PROVE  /\ Head(t.todo) = <<"create", D>> /\ Head(t.todo)[1] = "create"
             /\ Tail(t.todo) = Saving(s)
  <2>1. Head(t.todo) = <<"create", D>> /\ Tail(t.todo) = Saving(s)
    BY <1>2, Shapes
  <2> QED
    BY <2>1
<1>3. ASSUME NEW s \in Seq(Call), t.todo = Saving(s)
      PROVE  Head(t.todo)[1] = "write" /\ Tail(t.todo) = s
  <2>1. Head(t.todo) = <<"write">> /\ Tail(t.todo) = s
    BY <1>3, Shapes
  <2> QED
    BY <2>1
<1> QED
  BY <1>1, <1>2, <1>3 DEF InTurn

LEMMA EndedInTurn ==
    ASSUME NEW t, NEW T, NEW o, InTurn(t, T, o), t.todo = <<>>
    PROVE  Settled(T, o) /\ Ranked(T)
<1>1. ~ReadyToAward(t.todo, t, T, o)
  <2> SUFFICES ASSUME ReadyToAward(t.todo, t, T, o) PROVE FALSE
    OBVIOUS
  <2>1. t.winner \in Player /\ t.loser \in Player
    BY DEF ReadyToAward
  <2>2. Crediting \in Seq(Call) \ {<<>>} /\ Ensuring(t.loser, Crediting) \in Seq(Call) \ {<<>>}
    BY <2>1, Endings, Programs
  <2>3. Ensuring(t.winner, Ensuring(t.loser, Crediting)) # <<>>
    BY <2>1, <2>2, Programs
  <2> QED
    BY <2>2, <2>3 DEF ReadyToAward
<1>2. ~ReadyToRank(t.todo, t, T)
  <2>1. ASSUME NEW e \in Ends
        PROVE  /\ Recalculating(e) # <<>> /\ Reading(e) # <<>> /\ Renumbering(e) # <<>>
               /\ \A p \in Player : Ensuring(p, Recalculating(e)) # <<>>
    <3>1. e \in Seq(Call) /\ Recalculating(e) \in Seq(Call)
      BY EndsAreCalls
    <3> QED
      BY <3>1, Programs
  <2> QED
    BY <2>1 DEF ReadyToRank
<1>3. \A s \in Seq(Call) : /\ Saving(s) # <<>>
                           /\ \A D \in SUBSET Player : Creating(D, s) # <<>>
  BY Programs
<1> QED
  BY <1>1, <1>2, <1>3 DEF InTurn, Ready, ReadyToEnd

LEMMA SerialTurn ==
    ASSUME TypeInv, OneAtATime, ~overlapped, NEW h \in Handler, run[h].todo # <<>>,
           NEW t, Becomes(h, t), InTurn(t, stats', owed')
    PROVE  OneAtATime'
<1>1. \A g \in Handler : g # h => run[g] = Idle
  BY IdleIsPlaced DEF OneAtATime
<1>2. /\ \A g \in Handler : g # h => run'[g] = Idle
      /\ run'[h] = IF t.todo = <<>> THEN Idle ELSE t
  BY <1>1 DEF Becomes, TypeInv, TypeOK
<1>3. CASE t.todo = <<>>
  <2>1. \A g \in Handler : run'[g] = Idle
    BY <1>2, <1>3
  <2>2. Settled(stats', owed') /\ Ranked(stats')
    BY <1>3, EndedInTurn
  <2> QED
    BY <2>1, <2>2 DEF OneAtATime
<1>4. CASE t.todo # <<>>
  <2>1. run'[h] = t /\ t # Idle
    BY <1>2, <1>4, IdleIsPlaced
  <2>2. ~Quiet'
    BY <2>1 DEF Quiet
  <2> QED
    BY <1>2, <2>1, <2>2 DEF OneAtATime
<1> QED
  BY <1>3, <1>4

LEMMA SerialNow ==
    ASSUME TypeInv, OneAtATime, ~overlapped, NEW h \in Handler, run[h].todo # <<>>
    PROVE  InTurn(run[h], stats, owed)
  BY IdleIsPlaced DEF OneAtATime

LEMMA EnsureInTurn ==
    ASSUME TypeInv, OneAtATime, ~overlapped, NEW h \in Handler, EnsureStats(h)
    PROVE  OneAtATime'
<1>1. PICK p, t :
        /\ p \in Player
        /\ Head(run[h].todo) = <<"ensure", p>> /\ Head(run[h].todo)[1] = "ensure"
        /\ run[h].todo # <<>> /\ Becomes(h, t) /\ stats' = stats /\ Fits(t, stats)
        /\ Same(t, run[h]) /\ t.ranks = run[h].ranks
        /\ IF p \in DOMAIN stats
           THEN t.todo = Tail(run[h].todo) /\ t.held = WithRow(run[h].held, p, stats[p])
           ELSE /\ t.todo = Creating({p}, Tail(run[h].todo))
                /\ t.held = WithRow(run[h].held, p, FreshRow)
  BY EnsureStatsDoes
<1>2. PICK r : r = run[h]
  OBVIOUS
<1>3. PICK k : k = Tail(run[h].todo)
  OBVIOUS
<1>4. IsTable(stats) /\ IsTable(r.held) /\ k \in Seq(Call)
  BY <1>1, <1>2, <1>3, AtWork, FitsFields, Heads
<1>5. PICK T : T = stats
  OBVIOUS
<1>6. owed' = owed
  BY <1>1 DEF Becomes
<1>7. PICK o : o = owed
  OBVIOUS
<1>8. Ready(r.todo, r, T, o)
  BY <1>1, <1>2, <1>5, <1>7, SerialNow, InTurnHeads
<1>9. Head(r.todo)[2] = p
  BY <1>1, <1>2
<1>10. EnsuresReady(r.todo, r, T, o, p)
  BY <1>1, <1>2, <1>8, <1>9, ReadyHeads
<1>11. PICK row : row = IF p \in DOMAIN T THEN T[p] ELSE FreshRow
  OBVIOUS
<1>12. /\ t.held = WithRow(r.held, p, row) /\ row \in Row
       /\ DOMAIN t.held = DOMAIN r.held \cup {p} /\ t.held[p] = row
       /\ \A q \in DOMAIN r.held : q # p => t.held[q] = r.held[q]
  <2>1. t.held = WithRow(r.held, p, row) /\ row \in Row
    BY <1>1, <1>2, <1>4, <1>5, <1>11, TableFields, RowFields
  <2>2. PICK H, H2 : H = r.held /\ H2 = WithRow(H, p, row)
    OBVIOUS
  <2>3. IsTable(H) /\ row \in Row
    BY <1>4, <2>1, <2>2
  <2>4. /\ DOMAIN WithRow(H, p, row) = DOMAIN H \cup {p} /\ WithRow(H, p, row)[p] = row
        /\ \A q \in DOMAIN H : q # p => WithRow(H, p, row)[q] = H[q]
    <3>1. p \in Player
      BY <1>1
    <3> QED
      BY <2>3, <3>1, WithRowIsTable
  <2> QED
    BY <2>1, <2>2, <2>4
<1>13. PICK U : U = IF p \in DOMAIN T THEN T ELSE Overlay(T, Fresh({p}))
  OBVIOUS
<1>14. /\ p \in DOMAIN U /\ U[p] = row
       /\ \A q \in DOMAIN T : q # p => q \in DOMAIN U /\ U[q] = T[q]
       /\ \A q : PointsIn(U, q) = PointsIn(T, q)
  <2>1. CASE p \in DOMAIN T
    BY <1>11, <1>13, <2>1
  <2>2. CASE p \notin DOMAIN T
    <3>1. PICK D : D = {p}
      OBVIOUS
    <3>2. D \in SUBSET Player /\ D \cap DOMAIN T = {} /\ IsTable(T)
      BY <1>1, <1>4, <1>5, <2>2, <3>1
    <3>3. U = Overlay(T, Fresh(D))
      BY <1>13, <2>2, <3>1
    <3>4. /\ DOMAIN Overlay(T, Fresh(D)) = DOMAIN T \cup D
          /\ \A q \in DOMAIN T : Overlay(T, Fresh(D))[q] = T[q]
          /\ \A q \in D : Overlay(T, Fresh(D))[q] = FreshRow
          /\ \A q : PointsIn(Overlay(T, Fresh(D)), q) = PointsIn(T, q)
      BY <3>2, FreshOverlay
    <3> QED
      BY <1>11, <2>2, <3>1, <3>3, <3>4
  <2> QED
    BY <2>1, <2>2
<1>15. Ready(k, t, U, o) /\ (p \notin DOMAIN T => t.ranks = <<>>)
  <2>1. Same(t, r) /\ t.ranks = r.ranks /\ k = Tail(r.todo)
    BY <1>1, <1>2, <1>3
  <2>2. Owing(r, T, o) => Owing(t, U, o)
    BY <1>14, <2>1 DEF Owing, Amount, Same
  <2>3. CASE /\ ReadyToAward(r.todo, r, T, o) /\ p = r.winner
             /\ Tail(r.todo) = Ensuring(r.loser, Crediting)
    <3>1. Keeps(t, U, t.winner)
      BY <1>12, <1>14, <2>1, <2>3 DEF Keeps, Same
    <3>2. ReadyToAward(k, t, U, o)
      BY <2>1, <2>2, <2>3, <3>1 DEF ReadyToAward, Same
    <3> QED
      BY <2>1, <2>3, <3>2 DEF Ready, ReadyToAward
  <2>4. CASE /\ ReadyToAward(r.todo, r, T, o) /\ p = r.loser
             /\ Tail(r.todo) = Crediting /\ Keeps(r, T, r.winner)
    <3>1. Keeps(t, U, t.loser)
      BY <1>12, <1>14, <2>1, <2>4 DEF Keeps, Same
    <3>2. Keeps(t, U, t.winner)
      BY <1>12, <1>14, <2>1, <2>4 DEF Keeps, Same, ReadyToAward
    <3>3. ReadyToAward(k, t, U, o)
      BY <2>1, <2>2, <2>4, <3>1, <3>2 DEF ReadyToAward, Same
    <3> QED
      BY <2>1, <2>4, <3>3 DEF Ready, ReadyToAward
  <2>5. ASSUME Settled(T, o), RanksHold(r, T), NEW e \in Ends, Tail(r.todo) = Recalculating(e)
        PROVE  Ready(k, t, U, o) /\ (p \notin DOMAIN T => t.ranks = <<>>)
    <3>1. p \notin DOMAIN T => t.ranks = <<>>
      BY <1>1, <2>1, <2>5 DEF RanksHold, Complete
    <3>2. Settled(U, o)
      BY <1>14, <2>5 DEF Settled
    <3>3. RanksHold(t, U)
      <4>1. CASE p \in DOMAIN T
        BY <1>13, <2>1, <2>5, <4>1 DEF RanksHold, Same
      <4>2. CASE p \notin DOMAIN T
        <5>1. t.ranks = <<>> /\ Len(t.ranks) = 0 /\ Len(t.asks) \in Nat
          BY <1>1, <3>1, <4>2, FitsFields
        <5> QED
          BY <5>1 DEF RanksHold
      <4> QED
        BY <4>1, <4>2
    <3>4. ReadyToRank(k, t, U)
      BY <2>1, <2>5 DEF ReadyToRank
    <3> QED
      BY <3>1, <3>2, <3>3, <3>4 DEF Ready
  <2> QED
    BY <1>10, <2>3, <2>4, <2>5 DEF EnsuresReady
<1>16. InTurn(t, T, o)
  <2>1. CASE p \in DOMAIN T
    <3>1. t.todo = k
      BY <1>1, <1>3, <1>5, <2>1
    <3> QED
      BY <1>13, <1>15, <2>1, <3>1 DEF InTurn
  <2>2. CASE p \notin DOMAIN T
    <3>1. PICK D : D = {p}
      OBVIOUS
    <3>2. D \in SUBSET Player /\ D \cap DOMAIN T = {} /\ U = Overlay(T, Fresh(D))
      BY <1>1, <1>13, <2>2, <3>1
    <3>3. t.todo = Creating(D, k)
      BY <1>1, <1>3, <1>5, <2>2, <3>1
    <3>4. ReadyToCreate(D, k, t, T, o)
      BY <1>15, <2>2, <3>2 DEF ReadyToCreate
    <3> QED
      BY <1>4, <3>2, <3>3, <3>4 DEF InTurn
  <2> QED
    BY <2>1, <2>2
<1> QED
  BY <1>1, <1>5, <1>6, <1>7, <1>16, SerialTurn

LEMMA ListPlayersInTurn ==
    ASSUME TypeInv, OneAtATime, ~overlapped, NEW h \in Handler, ListPlayers(h)
    PROVE  OneAtATime'
<1>1. PICK t :
        /\ Head(run[h].todo)[1] = "listPlayers"
        /\ run[h].todo # <<>> /\ Becomes(h, t) /\ stats' = stats /\ Fits(t, stats)
        /\ Same(t, run[h]) /\ t.ranks = run[h].ranks /\ t.held = run[h].held
        /\ IF Player \subseteq DOMAIN stats THEN t.todo = Tail(run[h].todo)
           ELSE t.todo = Creating(Player \ DOMAIN stats, Tail(run[h].todo))
  BY ListPlayersDoes
<1>2. PICK r, T, o : r = run[h] /\ T = stats /\ o = owed
  OBVIOUS
<1>3. IsTable(T) /\ owed' = o
  BY <1>1, <1>2, AtWork DEF Becomes
<1>4. Ready(r.todo, r, T, o)
  BY <1>1, <1>2, SerialNow, InTurnHeads
<1>5. RanksReady(r.todo, r, T, o)
  BY <1>1, <1>2, <1>4, ReadyHeads
<1>6. PICK e \in Ends : Tail(r.todo) = Reading(e)
  BY <1>1, <1>2, <1>5 DEF RanksReady
<1>7. Settled(T, o) /\ RanksHold(t, T) /\ Reading(e) \in Seq(Call)
  BY <1>1, <1>2, <1>5, EndsAreCalls DEF RanksReady, RanksHold, Same
<1>8. CASE Complete(T)
  <2>1. t.todo = Reading(e)
    BY <1>1, <1>2, <1>6, <1>8 DEF Complete
  <2>2. InTurn(t, T, o)
    BY <1>7, <1>8, <2>1 DEF InTurn, Ready, ReadyToRank
  <2> QED
    BY <1>1, <1>2, <1>3, <2>2, SerialTurn
<1>9. CASE ~Complete(T)
  <2>1. PICK D : D = Player \ DOMAIN T
    OBVIOUS
  <2>2. PICK U : U = Overlay(T, Fresh(D))
    OBVIOUS
  <2>3. t.todo = Creating(D, Reading(e)) /\ D \in SUBSET Player /\ D \cap DOMAIN T = {}
    BY <1>1, <1>2, <1>6, <1>9, <2>1 DEF Complete
  <2>4. /\ DOMAIN Overlay(T, Fresh(D)) = DOMAIN T \cup D
        /\ \A q : PointsIn(Overlay(T, Fresh(D)), q) = PointsIn(T, q)
    BY <1>3, <2>3, FreshOverlay
  <2>5. Settled(U, o) /\ Complete(U)
    BY <1>7, <2>1, <2>2, <2>4 DEF Settled, Complete
  <2>6. t.ranks = <<>> /\ RanksHold(t, U)
    <3>1. t.ranks = <<>>
      BY <1>7, <1>9 DEF RanksHold
    <3>2. Len(t.ranks) = 0 /\ Len(t.asks) \in Nat
      BY <1>1, <3>1, FitsFields
    <3> QED
      BY <3>1, <3>2 DEF RanksHold
  <2>7. Ready(Reading(e), t, U, o)
    BY <2>5, <2>6 DEF Ready, ReadyToRank
  <2>8. ReadyToCreate(D, Reading(e), t, T, o)
    BY <2>2, <2>3, <2>6, <2>7 DEF ReadyToCreate
  <2>9. InTurn(t, T, o)
    BY <1>7, <2>3, <2>8 DEF InTurn
  <2> QED
    BY <1>1, <1>2, <1>3, <2>9, SerialTurn
<1> QED
  BY <1>8, <1>9

LEMMA DecidesInTurn ==
    ASSUME TypeInv, OneAtATime, ~overlapped, NEW h \in Handler, NEW R, IsTable(R),
           Decides(h, R), NEW s \in Seq(Call), Tail(run[h].todo) = Saving(s),
           RanksHold(run[h], stats), Ready(s, run[h], Overlay(stats, R), owed)
    PROVE  OneAtATime'
<1>1. PICK t :
        /\ run[h].todo # <<>> /\ Becomes(h, t) /\ stats' = stats /\ Fits(t, stats)
        /\ Same(t, run[h]) /\ t.ranks = run[h].ranks /\ t.held = run[h].held
        /\ t.todo = Tail(run[h].todo) /\ t.write = Diff(R)
  BY DEF Decides
<1>2. IsTable(stats) /\ owed' = owed
  BY <1>1, AtWork DEF Becomes
<1>3. PICK r, U : r = run[h] /\ U = Overlay(stats, R)
  OBVIOUS
<1>4. Saved(t.write, stats) = U
  BY <1>1, <1>2, <1>3, SavedDiff
<1>5. \A p \in DOMAIN t.write : t.write[p].insert => p \notin DOMAIN stats
  BY <1>1, <1>2, DiffFits
<1>6. Ready(s, t, U, owed)
  <2>1. Ready(s, r, U, owed) /\ Same(t, r) /\ t.held = r.held /\ t.ranks = r.ranks
    BY <1>1, <1>3
  <2> QED
    BY <2>1, ReadySame
<1>7. RanksHold(t, stats)
  BY <1>1 DEF RanksHold, Same
<1>8. ReadyToWrite(s, t, stats, owed)
  BY <1>4, <1>5, <1>6, <1>7 DEF ReadyToWrite
<1>9. InTurn(t, stats, owed)
  BY <1>1, <1>8 DEF InTurn
<1> QED
  BY <1>1, <1>2, <1>9, SerialTurn

LEMMA NoRanksHold ==
    ASSUME NEW t, NEW T, Fits(t, T), t.ranks = <<>>, NEW U
    PROVE  RanksHold(t, U)
<1>1. Len(t.ranks) = 0 /\ Len(t.asks) \in Nat
  BY FitsFields
<1> QED
  BY <1>1 DEF RanksHold

LEMMA SavingsDiffer ==
    ASSUME NEW s \in Seq(Call), NEW k \in Seq(Call), Saving(s) = Saving(k)
    PROVE  s = k
  BY Shapes

LEMMA CreateRowsInTurn ==
    ASSUME TypeInv, OneAtATime, ~overlapped, NEW h \in Handler, CreateRows(h)
    PROVE  OneAtATime'
<1>1. PICK D \in SUBSET Player :
        /\ Head(run[h].todo) = <<"create", D>> /\ Head(run[h].todo)[1] = "create"
        /\ Decides(h, Fresh(D))
  BY CreateRowsDoes
<1>2. run[h].todo # <<>>
  BY <1>1 DEF Decides
<1>3. PICK E \in SUBSET Player, s \in Seq(Call) :
        /\ Head(run[h].todo) = <<"create", E>> /\ Tail(run[h].todo) = Saving(s)
        /\ ReadyToCreate(E, s, run[h], stats, owed)
  BY <1>1, <1>2, SerialNow, InTurnHeads
<1>4. E = D
  <2>1. <<"create", E>>[2] = <<"create", D>>[2]
    BY <1>1, <1>3
  <2> QED
    BY <2>1
<1>5. RanksHold(run[h], stats)
  BY <1>2, <1>3, AtWork, NoRanksHold DEF ReadyToCreate
<1>6. IsTable(Fresh(D))
  BY FreshIsTable
<1>7. Ready(s, run[h], Overlay(stats, Fresh(D)), owed)
  BY <1>3, <1>4 DEF ReadyToCreate
<1> QED
  BY <1>1, <1>3, <1>5, <1>6, <1>7, DecidesInTurn

LEMMA CreditInTurn ==
    ASSUME TypeInv, OneAtATime, ~overlapped, NEW h \in Handler, Credit(h)
    PROVE  OneAtATime'
<1>1. /\ run[h].winner \in DOMAIN run[h].held /\ run[h].loser \in DOMAIN run[h].held
      /\ run[h].winner # run[h].loser
      /\ Head(run[h].todo)[1] = "credit" /\ Decides(h, Credited(run[h]))
  BY CreditDoes DEF Awarding
<1>2. run[h].todo # <<>>
  BY <1>1 DEF Decides
<1>3. PICK r, T, o : r = run[h] /\ T = stats /\ o = owed
  OBVIOUS
<1>4. IsTable(T) /\ Fits(r, T)
  BY <1>2, <1>3, AtWork
<1>5. Ready(r.todo, r, T, o)
  BY <1>1, <1>2, <1>3, SerialNow, InTurnHeads
<1>6. CreditsReady(r.todo, r, T, o)
  BY <1>1, <1>2, <1>3, <1>5, ReadyHeads
<1>7. PICK R : R = Credited(r)
  OBVIOUS
<1>8. /\ IsTable(R) /\ DOMAIN R = {r.winner, r.loser}
      /\ \A p \in {r.winner, r.loser} : R[p].points = r.held[p].points + Amount(r, p)
  BY <1>1, <1>3, <1>4, <1>7, CreditedIsTable
<1>9. PICK U : U = Overlay(T, R)
  OBVIOUS
<1>10. /\ DOMAIN U = DOMAIN T \cup DOMAIN R
       /\ \A p \in DOMAIN R : U[p] = R[p]
       /\ \A p \in DOMAIN T \ DOMAIN R : U[p] = T[p]
  <2>1. /\ DOMAIN Overlay(T, R) = DOMAIN T \cup DOMAIN R
        /\ \A p \in DOMAIN R : Overlay(T, R)[p] = R[p]
        /\ \A p \in DOMAIN T \ DOMAIN R : Overlay(T, R)[p] = T[p]
    BY <1>4, <1>8, OverlayIsTable
  <2> QED
    BY <1>9, <2>1
<1>11. Settled(U, o)
  <2> SUFFICES ASSUME NEW p \in Player PROVE PointsIn(U, p) = o[p]
    BY DEF Settled
  <2>1. PointsIn(T, p) + Amount(r, p) = o[p]
    BY <1>6 DEF CreditsReady, ReadyToAward, Owing
  <2>2. CASE p \in {r.winner, r.loser}
    <3>1. p \in DOMAIN T /\ r.held[p] = T[p]
      BY <1>6, <2>2 DEF CreditsReady, Keeps
    <3>2. PointsIn(U, p) = T[p].points + Amount(r, p)
      BY <1>8, <1>10, <2>2, <3>1 DEF PointsIn
    <3> QED
      BY <2>1, <3>1, <3>2 DEF PointsIn
  <2>3. CASE p \notin {r.winner, r.loser}
    <3>1. PointsIn(U, p) = PointsIn(T, p) /\ Amount(r, p) = 0
      BY <1>8, <1>10, <2>3 DEF PointsIn, Amount
    <3>2. PointsIn(T, p) \in Nat
      BY <1>4, TableFields DEF PointsIn
    <3> QED
      BY <2>1, <3>1, <3>2
  <2> QED
    BY <2>2, <2>3
<1>12. r.ranks = <<>> /\ RanksHold(r, U) /\ RanksHold(r, T)
  <2>1. r.ranks = <<>>
    BY <1>6 DEF CreditsReady, ReadyToAward
  <2> QED
    BY <1>4, <2>1, NoRanksHold
<1>13. PICK s : s = Recalculating(<<>>)
  OBVIOUS
<1>14. s \in Seq(Call) /\ Tail(r.todo) = Saving(s)
  BY <1>6, <1>13, Endings, Programs DEF CreditsReady
<1>15. Ready(s, r, U, o)
  BY <1>11, <1>12, <1>13 DEF Ready, ReadyToRank, Ends
<1> QED
  BY <1>1, <1>3, <1>7, <1>8, <1>9, <1>12, <1>14, <1>15, DecidesInTurn

LEMMA RenumberInTurn ==
    ASSUME TypeInv, OneAtATime, ~overlapped, NEW h \in Handler, Renumber(h)
    PROVE  OneAtATime'
<1>1. Head(run[h].todo)[1] = "renumber" /\ Decides(h, run[h].held)
  BY RenumberDoes
<1>2. run[h].todo # <<>>
  BY <1>1 DEF Decides
<1>3. PICK r, T, o : r = run[h] /\ T = stats /\ o = owed
  OBVIOUS
<1>4. IsTable(T) /\ Fits(r, T) /\ IsTable(r.held)
  BY <1>2, <1>3, AtWork, FitsFields
<1>5. Ready(r.todo, r, T, o)
  BY <1>1, <1>2, <1>3, SerialNow, InTurnHeads
<1>6. RanksReady(r.todo, r, T, o)
  BY <1>1, <1>2, <1>3, <1>5, ReadyHeads
<1>7. PICK e \in Ends : Tail(r.todo) = Saving(e)
  BY <1>1, <1>3, <1>6 DEF RanksReady
<1>8. PICK U : U = Renumbered(T)
  OBVIOUS
<1>9. r.held = U /\ Settled(T, o) /\ RanksHold(r, T) /\ e \in Seq(Call)
  BY <1>1, <1>3, <1>6, <1>8, EndsAreCalls DEF RanksReady
<1>10. Overlay(T, U) = U
  <2>1. IsTable(U) /\ DOMAIN U = DOMAIN T
    BY <1>4, <1>8, RenumberedIsTable
  <2>2. U = [p \in DOMAIN U |-> U[p]]
    BY <2>1, TableFields
  <2> QED
    BY <2>1, <2>2 DEF Overlay
<1>11. Ranked(U) /\ Settled(U, o) /\ RanksHold(r, U)
  <2>1. r.asks \in Seq(Player)
    BY <1>4, FitsFields
  <2> QED
    BY <1>4, <1>8, <1>9, <2>1, RenumberedIsRanked DEF Settled
<1>12. Ready(e, r, U, o)
  <2>1. CASE e \in {<<>>, Listing}
    BY <1>11, <2>1 DEF Ready, ReadyToEnd
  <2>2. CASE e \in {Ensuring(q, Recalculating(<<>>)) : q \in Player}
    BY <1>11, <2>2 DEF Ready, ReadyToRank, Ends
  <2> QED
    BY <2>1, <2>2 DEF Ends
<1>13. Ready(e, r, Overlay(T, U), o)
  BY <1>10, <1>12
<1> QED
  BY <1>1, <1>3, <1>4, <1>7, <1>9, <1>13, DecidesInTurn

LEMMA ReadStatsInTurn ==
    ASSUME TypeInv, OneAtATime, ~overlapped, NEW h \in Handler, ReadStats(h)
    PROVE  OneAtATime'
<1>1. PICK t :
        /\ Head(run[h].todo)[1] = "readStats"
        /\ run[h].todo # <<>> /\ Becomes(h, t) /\ stats' = stats /\ Fits(t, stats)
        /\ Same(t, run[h]) /\ t.todo = Tail(run[h].todo) /\ t.held = Renumbered(stats)
        /\ LET asked == Len(run[h].ranks) + 1
           IN  t.ranks = IF asked <= Len(run[h].asks)
                         THEN Append(run[h].ranks, Position(stats, run[h].asks[asked]))
                         ELSE run[h].ranks
  BY ReadStatsDoes
<1>2. PICK r, T, o : r = run[h] /\ T = stats /\ o = owed
  OBVIOUS
<1>3. Fits(r, T) /\ IsTable(T) /\ owed' = o
  BY <1>1, <1>2, AtWork DEF Becomes
<1>4. Ready(r.todo, r, T, o)
  BY <1>1, <1>2, SerialNow, InTurnHeads
<1>5. RanksReady(r.todo, r, T, o)
  BY <1>1, <1>2, <1>4, ReadyHeads
<1>6. PICK e \in Ends : Tail(r.todo) = Renumbering(e)
  BY <1>1, <1>2, <1>5 DEF RanksReady
<1>7. Settled(T, o) /\ RanksHold(r, T) /\ Complete(T)
  BY <1>1, <1>2, <1>5 DEF RanksReady
<1>8. RanksHold(t, T)
  <2>1. PICK n, p : n = Len(r.ranks) + 1 /\ p = Position(T, r.asks[n])
    OBVIOUS
  <2>2. t.asks = r.asks /\ r.ranks \in Seq(Nat) /\ r.asks \in Seq(Player) /\ p \in Nat
    BY <1>1, <1>2, <1>3, <2>1, FitsFields, PositionBound DEF Same
  <2>3. t.ranks = IF n <= Len(r.asks) THEN Append(r.ranks, p) ELSE r.ranks
    BY <1>1, <1>2, <2>1
  <2>4. CASE n <= Len(r.asks)
    <3>1. Len(t.ranks) = n /\ t.ranks[n] = p
      BY <2>1, <2>2, <2>3, <2>4
    <3>2. \A i \in 1..n : i # n => t.ranks[i] = r.ranks[i] /\ i \in 1..Len(r.ranks)
      BY <2>1, <2>2, <2>3, <2>4
    <3> QED
      BY <1>7, <2>1, <2>2, <2>4, <3>1, <3>2 DEF RanksHold
  <2>5. CASE ~(n <= Len(r.asks))
    BY <1>7, <2>2, <2>3, <2>5 DEF RanksHold
  <2> QED
    BY <2>4, <2>5
<1>9. t.todo = Renumbering(e) /\ t.held = Renumbered(T)
  BY <1>1, <1>2, <1>6
<1>10. InTurn(t, T, o)
  BY <1>7, <1>8, <1>9 DEF InTurn, Ready, ReadyToRank
<1> QED
  BY <1>1, <1>2, <1>3, <1>10, SerialTurn

LEMMA ListInTurn ==
    ASSUME TypeInv, OneAtATime, ~overlapped, NEW h \in Handler, ReadList(h) \/ AnswerList(h)
    PROVE  OneAtATime'
<1>1. PICK t :
        /\ \/ Head(run[h].todo)[1] = "list" /\ t.held = stats
           \/ Head(run[h].todo)[1] = "answer" /\ t.held = run[h].held
        /\ run[h].todo # <<>> /\ Becomes(h, t) /\ stats' = stats /\ Fits(t, stats)
        /\ Same(t, run[h]) /\ t.todo = Tail(run[h].todo) /\ t.ranks = run[h].ranks
  BY ReadListDoes, AnswerListDoes
<1>2. PICK r, T, o : r = run[h] /\ T = stats /\ o = owed
  OBVIOUS
<1>3. owed' = o
  BY <1>1, <1>2 DEF Becomes
<1>4. Ready(r.todo, r, T, o)
  BY <1>1, <1>2, SerialNow, InTurnHeads
<1>5. RanksReady(r.todo, r, T, o)
  BY <1>1, <1>2, <1>4, ReadyHeads
<1>6. Settled(T, o) /\ RanksHold(t, T) /\ Ranked(T)
  BY <1>1, <1>2, <1>5 DEF RanksReady, RanksHold, Same
<1>7. (t.todo = Answering /\ t.held = T) \/ t.todo = <<>>
  BY <1>1, <1>2, <1>5 DEF RanksReady
<1>8. InTurn(t, T, o)
  BY <1>6, <1>7 DEF InTurn, Ready, ReadyToEnd
<1> QED
  BY <1>1, <1>2, <1>3, <1>8, SerialTurn

(* In turn no insert fails.                                                *)
LEMMA WriteInTurn ==
    ASSUME TypeInv, OneAtATime, ~overlapped, NEW h \in Handler, Write(h)
    PROVE  OneAtATime'
<1>1. run[h].todo # <<>> /\ Head(run[h].todo)[1] = "write"
  BY WriteDoes
<1>2. PICK s : s = Tail(run[h].todo)
  OBVIOUS
<1>3. ReadyToWrite(s, run[h], stats, owed)
  BY <1>1, <1>2, SerialNow, InTurnHeads
<1>4. ~ \E p \in DOMAIN run[h].write : run[h].write[p].insert /\ p \in DOMAIN stats
  BY <1>3 DEF ReadyToWrite
<1>5. PICK t :
        /\ Becomes(h, t) /\ stats' = Saved(run[h].write, stats)
        /\ Same(t, run[h]) /\ t.ranks = run[h].ranks
        /\ t.todo = Tail(run[h].todo) /\ t.held = run[h].held
  BY <1>4, WriteDoes
<1>6. Ready(s, run[h], stats', owed) /\ owed' = owed
  BY <1>3, <1>5 DEF ReadyToWrite, Becomes
<1>7. Ready(t.todo, t, stats', owed)
  <2>1. PICK r, U : r = run[h] /\ U = stats'
    OBVIOUS
  <2>2. Same(t, r) /\ t.held = r.held /\ t.ranks = r.ranks /\ Ready(s, r, U, owed)
    BY <1>5, <1>6, <2>1
  <2>3. Ready(s, t, U, owed)
    BY <2>2, ReadySame
  <2> QED
    BY <1>2, <1>5, <2>1, <2>3
<1>8. InTurn(t, stats', owed')
  BY <1>6, <1>7 DEF InTurn
<1> QED
  BY <1>1, <1>5, <1>8, SerialTurn

LEMMA StartInTurn ==
    ASSUME TypeInv, OneAtATime, ~overlapped, NEW h \in Handler, NEW t, Begins(h, t),
           Quiet => InTurn(t, stats, owed')
    PROVE  OneAtATime'
<1>1. CASE ~Quiet
  BY <1>1 DEF Begins, OneAtATime
<1>2. CASE Quiet
  <2>1. run'[h] = t /\ t # Idle /\ \A g \in Handler : g # h => run'[g] = Idle
    BY <1>2, IdleIsPlaced DEF Begins, Quiet, TypeInv, TypeOK
  <2>2. InTurn(t, stats', owed')
    BY <1>2 DEF Begins
  <2>3. ~Quiet'
    BY <2>1 DEF Quiet
  <2> QED
    BY <2>1, <2>2, <2>3 DEF OneAtATime
<1> QED
  BY <1>1, <1>2

LEMMA StartsInTurn ==
    ASSUME TypeInv, OneAtATime, ~overlapped, NEW h \in Handler,
           \/ \E w, l \in Player, diff \in RankDiff : StartAward(h, w, l, diff)
           \/ \E p, q \in Player : StartChallenge(h, p, q)
           \/ StartList(h)
    PROVE  OneAtATime'
<1>1. IsTable(stats) /\ (Quiet => Settled(stats, owed) /\ Ranked(stats))
  BY DEF OneAtATime, TypeInv, TypeOK, IsTable
<1>2. ASSUME NEW w \in Player, NEW l \in Player, NEW d \in RankDiff, StartAward(h, w, l, d)
      PROVE  OneAtATime'
  <2>1. PICK t : /\ Begins(h, t) /\ w # l /\ t.todo = Ensuring(w, Ensuring(l, Crediting))
                 /\ t.winner = w /\ t.loser = l /\ t.diff = d
    BY <1>2, StartAwardDoes
  <2>2. /\ owed \in [Player -> Nat] /\ d \in Nat
        /\ owed' = [owed EXCEPT ![w] = @ + 125 + 5 * d, ![l] = @ + 25]
    BY <1>2, RankingAssumption DEF StartAward, TypeInv, TypeOK
  <2>3. ASSUME Quiet PROVE InTurn(t, stats, owed')
    <3>1. Owing(t, stats, owed')
      <4> SUFFICES ASSUME NEW p \in Player
                   PROVE  PointsIn(stats, p) + Amount(t, p) = owed'[p]
        BY DEF Owing
      <4>1. PICK o, a : o = owed[p] /\ a = 5 * d
        OBVIOUS
      <4>2. o \in Nat /\ a \in Nat /\ PointsIn(stats, p) = o
        BY <1>1, <2>2, <2>3, <4>1 DEF Settled
      <4>3. Amount(t, p) = IF p = w THEN 125 + a ELSE IF p = l THEN 25 ELSE 0
        BY <2>1, <4>1 DEF Amount
      <4>4. owed'[p] = IF p = w THEN o + 125 + a ELSE IF p = l THEN o + 25 ELSE o
        BY <2>1, <2>2, <4>1
      <4> QED
        BY <4>2, <4>3, <4>4
    <3> QED
      BY <2>1, <3>1 DEF InTurn, Ready, ReadyToAward, Begins
  <2> QED
    BY <2>1, <2>3, StartInTurn
<1>3. ASSUME NEW t, Begins(h, t), owed' = owed, ReadyToRank(t.todo, t, stats)
      PROVE  OneAtATime'
  <2>1. RanksHold(t, stats)
    BY <1>3, NoRanksHold DEF Begins
  <2>2. Quiet => InTurn(t, stats, owed')
    BY <1>1, <1>3, <2>1 DEF InTurn, Ready
  <2> QED
    BY <1>3, <2>2, StartInTurn
<1>4. ASSUME NEW p \in Player, NEW q \in Player, StartChallenge(h, p, q)
      PROVE  OneAtATime'
  <2>1. PICK t : /\ Begins(h, t)
                 /\ t.todo = Ensuring(p, Recalculating(Ensuring(q, Recalculating(<<>>))))
    BY <1>4, StartChallengeDoes
  <2>2. ReadyToRank(t.todo, t, stats)
    BY <2>1 DEF ReadyToRank, Ends
  <2> QED
    BY <1>3, <1>4, <2>1, <2>2 DEF StartChallenge
<1>5. CASE StartList(h)
  <2>1. PICK t : Begins(h, t) /\ t.todo = Recalculating(Listing)
    BY <1>5, StartListDoes
  <2>2. ReadyToRank(t.todo, t, stats)
    BY <2>1 DEF ReadyToRank, Ends
  <2> QED
    BY <1>3, <1>5, <2>1, <2>2 DEF StartList
<1> QED
  BY <1>2, <1>4, <1>5

LEMMA SerialInit == ASSUME Init PROVE OneAtATime
<1>1. \A p \in Player : PointsIn(stats, p) = 0 /\ owed[p] = 0
  BY DEF Init, Nothing, PointsIn
<1>2. Ranked(stats)
  BY DEF Init, Nothing, Ranked
<1> QED
  BY <1>1, <1>2 DEF Init, OneAtATime, Settled

(* Once two operations have met, they have met.                            *)
LEMMA MeetOnce == ASSUME overlapped, TypeInv, [Next]_vars PROVE overlapped'
  BY DEF Next, vars, StartAward, StartChallenge, StartList, Start, EnsureStats, ListPlayers,
         CreateRows, Credit, ReadStats, Renumber, Write, ReadList, AnswerList, Becomes

LEMMA SerialStep == ASSUME TypeInv, OneAtATime, [Next]_vars PROVE OneAtATime'
<1>1. CASE overlapped
  BY <1>1, MeetOnce DEF OneAtATime
<1>2. CASE ~overlapped /\ UNCHANGED vars
  <2>1. UNCHANGED <<stats, run, owed, overlapped, started>>
    BY <1>2 DEF vars
  <2> QED
    BY <2>1 DEF OneAtATime, Quiet
<1>3. ASSUME ~overlapped, NEW h \in Handler,
             \/ \E w, l \in Player, diff \in RankDiff : StartAward(h, w, l, diff)
             \/ \E p, q \in Player : StartChallenge(h, p, q)
             \/ StartList(h)
      PROVE  OneAtATime'
  BY <1>3, StartsInTurn
<1>4. ASSUME ~overlapped, NEW h \in Handler, EnsureStats(h) \/ ListPlayers(h) \/ CreateRows(h)
      PROVE  OneAtATime'
  BY <1>4, EnsureInTurn, ListPlayersInTurn, CreateRowsInTurn
<1>5. ASSUME ~overlapped, NEW h \in Handler, Credit(h) \/ ReadStats(h) \/ Renumber(h)
      PROVE  OneAtATime'
  BY <1>5, CreditInTurn, ReadStatsInTurn, RenumberInTurn
<1>6. ASSUME ~overlapped, NEW h \in Handler, Write(h) \/ ReadList(h) \/ AnswerList(h)
      PROVE  OneAtATime'
  BY <1>6, WriteInTurn, ListInTurn
<1> QED
  BY <1>1, <1>2, <1>3, <1>4, <1>5, <1>6 DEF Next

(* Until operations overlap, one at a time works on the rows as they are.  *)
THEOREM SerialInvariant == Spec => [](TypeInv /\ OneAtATime)
<1>1. Init => TypeInv /\ OneAtATime
  BY TypeInit, SerialInit
<1>2. TypeInv /\ OneAtATime /\ [Next]_vars => (TypeInv /\ OneAtATime)'
  BY TypeStep, SerialStep
<1> QED
  BY <1>1, <1>2, PTL DEF Spec

(* Operations that come one after the other leave every point that was     *)
(* owed, and the rank of every row is its position.                        *)
THEOREM ExactTable == Spec => []ExactInTurn
<1>1. ASSUME TypeInv, OneAtATime PROVE ExactInTurn
  BY <1>1 DEF OneAtATime, ExactInTurn, Settled, Ranked, Points, PointsIn
<1> QED
  BY <1>1, SerialInvariant, PTL

LEMMA InTurnRanksHold ==
    ASSUME NEW t, NEW T, NEW U, Fits(t, U), NEW o, InTurn(t, T, o)
    PROVE  RanksHold(t, T)
<1>1. t.ranks = <<>> => RanksHold(t, T)
  BY NoRanksHold
<1> QED
  BY <1>1 DEF InTurn, Ready, ReadyToAward, ReadyToCreate, ReadyToWrite

(* As long as they do, a rank that a challenge has asked for is the        *)
(* position in the table as it stands, and each row of a list that is about*)
(* to be answered holds the rank of the place it is listed at.             *)
THEOREM RanksAreCurrent == Spec => []RanksAgree
<1>1. ASSUME TypeInv, OneAtATime, ~overlapped, NEW h \in Handler, run[h] # Idle
      PROVE  /\ \A i \in 1..Len(run[h].ranks) :
                  run[h].ranks[i] = Position(stats, run[h].asks[i])
             /\ Calling(h, "answer") => \A p \in DOMAIN run[h].held :
                  run[h].held[p].rank = Position(run[h].held, p)
  <2>1. Fits(run[h], stats) /\ run[h].todo # <<>>
    BY <1>1, FitsIsWorkOK DEF TypeInv, TypeOK
  <2>2. PICK r, T, o : r = run[h] /\ T = stats /\ o = owed
    OBVIOUS
  <2>3. InTurn(r, T, o) /\ Fits(r, T) /\ r.todo # <<>>
    BY <1>1, <2>1, <2>2 DEF OneAtATime
  <2>4. RanksHold(r, T)
    BY <2>3, InTurnRanksHold
  <2>5. ASSUME Head(r.todo)[1] = "answer" PROVE Ranked(T) /\ r.held = T
    <3>1. Ready(r.todo, r, T, o)
      BY <2>3, <2>5, InTurnHeads
    <3>2. RanksReady(r.todo, r, T, o)
      BY <2>3, <2>5, <3>1, ReadyHeads
    <3> QED
      BY <2>5, <3>2 DEF RanksReady
  <2> QED
    BY <2>2, <2>4, <2>5 DEF RanksHold, Calling, Ranked
<1>2. TypeInv /\ OneAtATime => RanksAgree
  BY <1>1 DEF RanksAgree
<1> QED
  BY <1>2, SerialInvariant, PTL
===============================================================================
