--------------------------- MODULE AssistantProofs ---------------------------
(***************************************************************************)
(* What Assistant promises for every set of players, names, texts and      *)
(* messages in flight: its types, the bound on the active aliases, and     *)
(* that a classification meets the player and the conversation it was      *)
(* asked for.                                                              *)
(***************************************************************************)
EXTENDS Assistant, FiniteSetTheorems, TLAPS

(* The opponents found are players. *)
LEMMA SearchFindsPlayers ==
    ASSUME NEW p, NEW i
    PROVE  SearchOpponents(p, i) \subseteq Player
  BY DEF SearchOpponents, SearchByName

(* A handler at rest, and one with only an answer left to send.             *)
LEMMA IdleIsOK == HandlingOK(Idle) /\ Idle.call = "none" /\ Idle.who = None
  BY DEF HandlingOK, Handling, Idle, NoRow, Row, Call, PlayerAlias

LEMMA ReplyIsOK ==
    ASSUME NEW p \in Player
    PROVE  HandlingOK([Idle EXCEPT !.call = "reply", !.who = p])
  BY DEF HandlingOK, Handling, Idle, NoRow, Row, Call, PlayerAlias

(* The handlers are of the right type when the one that moved is.           *)
LEMMA OneMoves ==
    ASSUME NEW r \in Request, NEW h, HandlingOK(h), NEW f,
           \A q \in Request : HandlingOK(f[q]), f \in [Request -> Handling]
    PROVE  /\ [f EXCEPT ![r] = h] \in [Request -> Handling]
           /\ \A q \in Request : HandlingOK([f EXCEPT ![r] = h][q])
  BY DEF HandlingOK

(* Marking the handlers of a player keeps what they are. *)
LEMMA OvertakeMarks ==
    ASSUME NEW p, NEW f \in [Request -> Handling], NEW s \in Request
    PROVE  /\ Overtake(p, f)[s] \in Handling
           /\ f[s].who # p => Overtake(p, f)[s] = f[s]
           /\ f[s].who = p => Overtake(p, f)[s] = [f[s] EXCEPT !.overtaken = TRUE]
  BY DEF Overtake, Handling

LEMMA OvertakeLocals ==
    ASSUME NEW p, NEW f \in [Request -> Handling], NEW s \in Request
    PROVE  /\ Overtake(p, f)[s].call = f[s].call /\ Overtake(p, f)[s].who = f[s].who
           /\ Overtake(p, f)[s].said = f[s].said /\ Overtake(p, f)[s].answer = f[s].answer
<1>1. f[s] \in Handling
  OBVIOUS
<1>2. CASE f[s].who = p
  <2>1. Overtake(p, f)[s] = [f[s] EXCEPT !.overtaken = TRUE]
    BY <1>2, OvertakeMarks
  <2> QED
    BY <1>1, <2>1 DEF Handling
<1>3. CASE f[s].who # p
  <2>1. Overtake(p, f)[s] = f[s]
    BY <1>3 DEF Overtake
  <2> QED
    BY <2>1
<1> QED
  BY <1>2, <1>3

LEMMA OvertakeKeeps ==
    ASSUME NEW p, NEW f \in [Request -> Handling], \A s \in Request : HandlingOK(f[s])
    PROVE  /\ Overtake(p, f) \in [Request -> Handling]
           /\ \A s \in Request : HandlingOK(Overtake(p, f)[s])
<1>1. Overtake(p, f) \in [Request -> Handling]
  BY DEF Overtake, Handling
<1>2. ASSUME NEW s \in Request PROVE HandlingOK(Overtake(p, f)[s])
  <2>1. Overtake(p, f)[s] \in Handling
    BY OvertakeMarks
  <2> QED
    BY <2>1, OvertakeLocals DEF HandlingOK
<1> QED
  BY <1>1, <1>2

LEMMA TypeInit == Init => TypeOK
  BY IdleIsOK, AliasAssumption DEF Init, TypeOK, NoRow, Row, PlayerAlias, HandlingOK
(* A call that goes on keeps its locals, and ends with the ones it needs.   *)
LEMMA CallMoves ==
    ASSUME TypeOK, NEW r \in Request, NEW c \in Call, Goto(r, c),
           flight[r].call \notin {"none", "reply"},
           c \in {"count", "save", "unset"} => flight[r].said.arg \in Name,
           c = "fetch" => flight[r].said.arg \in Words,
           c \in {"apply", "find", "write"} => flight[r].answer # None
    PROVE  flight' \in [Request -> Handling] /\ \A q \in Request : HandlingOK(flight'[q])
<1> DEFINE h == [flight[r] EXCEPT !.call = c]
<1>1. flight' = [flight EXCEPT ![r] = h]
  BY DEF Goto
<1>2. HandlingOK(h)
  BY DEF TypeOK, HandlingOK, Handling
<1> QED
  BY <1>1, <1>2, OneMoves DEF TypeOK

LEMMA HandlerEnds ==
    ASSUME TypeOK, NEW r \in Request, End(r)
    PROVE  flight' \in [Request -> Handling] /\ \A q \in Request : HandlingOK(flight'[q])
  BY OneMoves, IdleIsOK DEF End, TypeOK

LEMMA TypeStep == TypeOK /\ [Next]_vars => TypeOK'
<1> SUFFICES ASSUME TypeOK, [Next]_vars PROVE TypeOK'
  OBVIOUS
<1>1. ASSUME NEW r \in Request, NEW p \in Writer, NEW m \in Message, Route(r, p, m) PROVE TypeOK'
  <2> DEFINE h == [Idle EXCEPT !.call = "parse", !.who = p, !.said = m, !.copy = talk[p]]
  <2>1. HandlingOK(h)
    BY AliasAssumption DEF HandlingOK, TypeOK, Handling, Idle, NoRow, Row, Call, PlayerAlias
  <2>2. flight' \in [Request -> Handling] /\ \A q \in Request : HandlingOK(flight'[q])
    BY <1>1, <2>1, OneMoves DEF Route, TypeOK
  <2> QED
    BY <1>1, <2>2, AliasAssumption DEF Route, TypeOK
<1>2. ASSUME NEW r \in Request, Ask(r) PROVE TypeOK'
  <2>1. At(r, "parse") /\ Goto(r, "reply")
    BY <1>2 DEF Ask, Said
  <2>2. flight' \in [Request -> Handling] /\ \A q \in Request : HandlingOK(flight'[q])
    BY <2>1, CallMoves DEF At, Call
  <2> QED
    BY <1>2, <2>2 DEF Ask, TypeOK
<1>3. ASSUME NEW r \in Request, AddAlias(r) PROVE TypeOK'
  <2> DEFINE row == alias[flight[r].who][flight[r].said.arg]
             h == [flight[r] EXCEPT !.row = row, !.call = IF row = "active" THEN "reply" ELSE "count"]
  <2>1. flight[r].call = "parse" /\ ParseEvent(flight[r].said) = "alias_set"
    BY <1>3 DEF AddAlias, Said, At
  <2>2. flight[r].who \in Player /\ flight[r].said \in Message /\ flight[r].said.arg \in Name
    BY <2>1, MessageAssumption DEF TypeOK, HandlingOK
  <2>3. row \in PlayerAlias
    BY <2>2 DEF TypeOK
  <2>4. HandlingOK(h)
    BY <2>2, <2>3 DEF TypeOK, HandlingOK, Handling, Call
  <2>5. flight' = [flight EXCEPT ![r] = h]
    BY <1>3 DEF AddAlias
  <2>6. flight' \in [Request -> Handling] /\ \A q \in Request : HandlingOK(flight'[q])
    BY <2>4, <2>5, OneMoves DEF TypeOK
  <2> QED
    BY <1>3, <2>6 DEF AddAlias, TypeOK
<1>4. ASSUME NEW r \in Request, CountAliases(r) PROVE TypeOK'
  <2>1. flight[r].call = "count" /\ (Goto(r, "reply") \/ Goto(r, "save"))
    BY <1>4 DEF CountAliases, At
  <2>2. flight[r].said.arg \in Name
    BY <2>1 DEF TypeOK, HandlingOK
  <2>3. flight' \in [Request -> Handling] /\ \A q \in Request : HandlingOK(flight'[q])
    <3>1. CASE Goto(r, "reply")
      BY <2>1, <3>1, CallMoves DEF Call
    <3>2. CASE Goto(r, "save")
      BY <2>1, <2>2, <3>2, CallMoves DEF Call
    <3> QED
      BY <2>1, <3>1, <3>2
  <2> QED
    BY <1>4, <2>3 DEF CountAliases, TypeOK
<1>5. ASSUME NEW r \in Request, SaveAlias(r) PROVE TypeOK'
  <2>1. flight' \in [Request -> Handling] /\ \A q \in Request : HandlingOK(flight'[q])
    BY <1>5, HandlerEnds DEF SaveAlias
  <2>2. flight[r].who \in Player /\ flight[r].said.arg \in Name
    BY <1>5 DEF SaveAlias, At, TypeOK, HandlingOK
  <2>3. alias' \in [Player -> [Name -> PlayerAlias]]
    BY <1>5, <2>2 DEF SaveAlias, TypeOK, PlayerAlias
  <2> QED
    BY <1>5, <2>1, <2>3 DEF SaveAlias, TypeOK
<1>6. ASSUME NEW r \in Request, RemoveAlias(r) PROVE TypeOK'
  <2>1. flight[r].call = "parse" /\ ParseEvent(flight[r].said) = "alias_remove"
    BY <1>6 DEF RemoveAlias, Said, At
  <2>2. flight[r].said.arg \in Name
    BY <2>1, MessageAssumption DEF TypeOK, HandlingOK
  <2> DEFINE c == IF flight[r].said.arg \in ListAliases(flight[r].who) THEN "unset" ELSE "reply"
  <2>3. c \in {"unset", "reply"} /\ Goto(r, c)
    BY <1>6 DEF RemoveAlias
  <2> HIDE DEF c
  <2>4. flight' \in [Request -> Handling] /\ \A q \in Request : HandlingOK(flight'[q])
    BY <2>1, <2>2, <2>3, CallMoves DEF Call
  <2> QED
    BY <1>6, <2>4 DEF RemoveAlias, TypeOK
<1>7. ASSUME NEW r \in Request, SaveInactive(r) PROVE TypeOK'
  <2>1. flight' \in [Request -> Handling] /\ \A q \in Request : HandlingOK(flight'[q])
    BY <1>7, HandlerEnds DEF SaveInactive
  <2>2. alias' \in [Player -> [Name -> PlayerAlias]]
    BY <1>7 DEF SaveInactive, TypeOK, PlayerAlias
  <2> QED
    BY <1>7, <2>1, <2>2 DEF SaveInactive, TypeOK
<1>8. ASSUME NEW r \in Request, Classify(r) PROVE TypeOK'
  <2>1. flight[r].call = "parse" /\ ParseEvent(flight[r].said) = "unknown"
    BY <1>8 DEF Classify, Said, At
  <2>2. flight[r].said.arg \in Words /\ flight[r].who \in Player /\ flight[r].said \in Message
    BY <2>1, MessageAssumption DEF TypeOK, HandlingOK
  <2> DEFINE known == cache[CacheKey(r)]
  <2>3. known \in Answer \cup {None}
    BY <2>2 DEF CacheKey, TypeOK
  <2>4. PICK h : flight' = [flight EXCEPT ![r] = h]
                 /\ (\/ h = [flight[r] EXCEPT !.call = "reply"]
                     \/ h = [flight[r] EXCEPT !.answer = known, !.call = "fetch"]
                     \/ known # None /\ h = [flight[r] EXCEPT !.answer = known, !.call = "apply"])
    BY <1>8 DEF Classify
  <2>5. HandlingOK(h)
    BY <2>2, <2>3, <2>4 DEF TypeOK, HandlingOK, Handling, Call
  <2>6. flight' \in [Request -> Handling] /\ \A q \in Request : HandlingOK(flight'[q])
    BY <2>4, <2>5, OneMoves DEF TypeOK
  <2> QED
    BY <1>8, <2>6 DEF Classify, TypeOK
<1>9. ASSUME NEW r \in Request, FetchAnswer(r) PROVE TypeOK'
  <2>1. PICK i \in Intent :
          /\ At(r, "fetch")
          /\ cache' = [cache EXCEPT ![CacheKey(r)] = [intent |-> i, of |-> flight[r].who]]
          /\ flight' = [flight EXCEPT ![r].call = "apply",
                                      ![r].answer = [intent |-> i, of |-> flight[r].who]]
          /\ UNCHANGED <<alias, talk, messages>>
    BY <1>9 DEF FetchAnswer
  <2> DEFINE answer == [intent |-> i, of |-> flight[r].who]
             h == [flight[r] EXCEPT !.call = "apply", !.answer = answer]
  <2>2. /\ flight[r].said.arg \in Words /\ flight[r].said \in Message /\ flight[r].who \in Player
        /\ flight[r] \in Handling
    BY <2>1 DEF At, TypeOK, HandlingOK
  <2>3. answer \in Answer
    BY <2>2 DEF Answer
  <2>4. answer # None
    BY <2>3, NoAnswerAssumption
  <2>5. HandlingOK(h)
    <3> HIDE DEF answer
    <3> QED BY <2>2, <2>3, <2>4 DEF HandlingOK, Handling, Call
  <2>6. flight' = [flight EXCEPT ![r] = h]
    BY <2>1
  <2>7. flight' \in [Request -> Handling] /\ \A q \in Request : HandlingOK(flight'[q])
    BY <2>5, <2>6, OneMoves DEF TypeOK
  <2>8. cache' \in [Player \X Words -> Answer \cup {None}]
    BY <2>1, <2>2, <2>3 DEF CacheKey, TypeOK
  <2> QED
    BY <2>1, <2>7, <2>8 DEF TypeOK
<1>10. ASSUME NEW r \in Request, FetchFails(r) PROVE TypeOK'
  <2>1. flight' \in [Request -> Handling] /\ \A q \in Request : HandlingOK(flight'[q])
    BY <1>10, CallMoves DEF FetchFails, At, Call
  <2> QED
    BY <1>10, <2>1 DEF FetchFails, TypeOK
<1>11. ASSUME NEW r \in Request, Reply(r) PROVE TypeOK'
  BY <1>11, HandlerEnds DEF Reply, TypeOK
<1>12. ASSUME NEW r \in Request, ApplyAiIntent(r) PROVE TypeOK'
  <2>1. flight[r].call = "apply" /\ flight[r].answer # None
    BY <1>12 DEF ApplyAiIntent, At, TypeOK, HandlingOK
  <2>2. PICK c \in {"find", "reply"} : Goto(r, c)
    BY <1>12 DEF ApplyAiIntent
  <2>3. flight' \in [Request -> Handling] /\ \A q \in Request : HandlingOK(flight'[q])
    BY <2>1, <2>2, CallMoves DEF Call
  <2> QED
    BY <1>12, <2>3 DEF ApplyAiIntent, TypeOK
<1>13. ASSUME NEW r \in Request, FindRow(r) PROVE TypeOK'
  <2> DEFINE p == flight[r].who
             offer == SearchOpponents(p, flight[r].answer.intent)
             h == [flight[r] EXCEPT !.call = "write", !.copy = [talk[p] EXCEPT !.offer = offer]]
  <2>1. /\ flight[r].call = "find" /\ p \in Player /\ flight[r].said \in Message
        /\ flight[r].answer # None /\ flight[r] \in Handling
    BY <1>13 DEF FindRow, At, TypeOK, HandlingOK
  <2>2. offer \subseteq Player
    BY SearchFindsPlayers
  <2>3. [talk[p] EXCEPT !.offer = offer] \in Row
    <3> HIDE DEF offer
    <3> QED BY <2>1, <2>2 DEF TypeOK, Row
  <2>4. HandlingOK(h)
    <3> DEFINE row == [talk[p] EXCEPT !.offer = offer]
    <3> HIDE DEF row
    <3> QED BY <2>1, <2>3 DEF HandlingOK, Handling, Call
  <2>5. flight' = [flight EXCEPT ![r] = h]
    BY <1>13 DEF FindRow
  <2>6. flight' \in [Request -> Handling] /\ \A q \in Request : HandlingOK(flight'[q])
    BY <2>4, <2>5, OneMoves DEF TypeOK
  <2> QED
    BY <1>13, <2>6 DEF FindRow, TypeOK
<1>14. ASSUME NEW r \in Request, SetPendingAction(r) PROVE TypeOK'
  <2> DEFINE p == flight[r].who
             f == [flight EXCEPT ![r] = [Idle EXCEPT !.call = "reply", !.who = p]]
  <2>1. p \in Player /\ flight[r].copy \in Row
    BY <1>14 DEF SetPendingAction, At, TypeOK, HandlingOK, Handling
  <2>2. f \in [Request -> Handling] /\ \A q \in Request : HandlingOK(f[q])
    BY <2>1, ReplyIsOK, OneMoves DEF TypeOK
  <2>3. flight' = Overtake(p, f)
    BY <1>14 DEF SetPendingAction
  <2>4. flight' \in [Request -> Handling] /\ \A q \in Request : HandlingOK(flight'[q])
    <3> HIDE DEF f
    <3> QED BY <2>2, <2>3, OvertakeKeeps
  <2>5. talk' \in [Player -> Row]
    BY <1>14, <2>1 DEF SetPendingAction, TypeOK
  <2> QED
    BY <1>14, <2>4, <2>5 DEF SetPendingAction, TypeOK
<1>15. ASSUME NEW r \in Request, NEW q \in Writer, NEW state \in {"idle", "other"},
              OtherCommand(r, q, state) PROVE TypeOK'
  <2> DEFINE f == [flight EXCEPT ![r] = Idle]
  <2>1. f \in [Request -> Handling] /\ \A s \in Request : HandlingOK(f[s])
    BY IdleIsOK, OneMoves DEF TypeOK
  <2>2. flight' = Overtake(q, f)
    BY <1>15 DEF OtherCommand
  <2>3. flight' \in [Request -> Handling] /\ \A s \in Request : HandlingOK(flight'[s])
    <3> HIDE DEF f
    <3> QED BY <2>1, <2>2, OvertakeKeeps
  <2>4. talk' \in [Player -> Row]
    BY <1>15 DEF OtherCommand, TypeOK, Row
  <2> QED
    BY <1>15, <2>3, <2>4 DEF OtherCommand, TypeOK
<1>16. ASSUME NEW r \in Request, Throw(r) PROVE TypeOK'
  BY <1>16, HandlerEnds DEF Throw, TypeOK
<1>17. ASSUME NEW k \in DOMAIN cache, ExpireAnswer(k) PROVE TypeOK'
  BY <1>17 DEF ExpireAnswer, TypeOK
<1>18. CASE UNCHANGED vars
  BY <1>18 DEF vars, TypeOK
<1> QED
  BY <1>1, <1>2, <1>3, <1>4, <1>5, <1>6, <1>7, <1>8, <1>9, <1>10, <1>11, <1>12, <1>13,
     <1>14, <1>15, <1>16, <1>17, <1>18 DEF Next, Step

(* The rows, the conversations, the cache and the handlers keep their      *)
(* types: an alias is saved under a name, words are the key of the cache,  *)
(* and who applies a classification has one.                               *)
THEOREM TypeCorrect == Spec => []TypeOK
  BY TypeInit, TypeStep, PTL DEF Spec
-----------------------------------------------------------------------------
(* The limit                                                               *)

(* Nobody comes to save an alias. *)
NoneAdds == \A s \in Request :
    flight'[s].call = "save" => flight[s].call = "save" /\ flight'[s].who = flight[s].who

LEMMA Finite ==
    ASSUME NEW p
    PROVE  /\ IsFiniteSet(ListAliases(p)) /\ IsFiniteSet(Adding(p))
           /\ Cardinality(ListAliases(p)) \in Nat /\ Cardinality(Adding(p)) \in Nat
           /\ Cardinality(Adding(p)) <= Cardinality(Request)
           /\ Cardinality(Request) \in Nat \ {0}
<1>1. IsFiniteSet(ListAliases(p))
  BY AliasAssumption, FS_Subset DEF ListAliases
<1>2. IsFiniteSet(Adding(p)) /\ Cardinality(Adding(p)) <= Cardinality(Request)
  BY AliasAssumption, FS_Subset DEF Adding
<1>3. Cardinality(Request) \in Nat \ {0}
  BY AliasAssumption, FS_CardinalityType, FS_EmptySet
<1> QED
  BY <1>1, <1>2, <1>3, FS_CardinalityType

(* With nobody new at the save and no alias more, the bound stays. *)
LEMMA BoundStays ==
    ASSUME OverLimitByRaceOnly, NoneAdds,
           \A p \in Player : ListAliases(p)' \subseteq ListAliases(p)
    PROVE  OverLimitByRaceOnly'
<1> SUFFICES ASSUME NEW p \in Player
             PROVE  Cardinality(ListAliases(p)') + Cardinality(Adding(p)')
                        <= MaxAliases + Cardinality(Request) - 1
  BY DEF OverLimitByRaceOnly
<1>1. Adding(p)' \subseteq Adding(p)
  BY DEF Adding, At, NoneAdds
<1>2. /\ Cardinality(ListAliases(p)') <= Cardinality(ListAliases(p))
      /\ Cardinality(Adding(p)') <= Cardinality(Adding(p))
      /\ IsFiniteSet(ListAliases(p)') /\ IsFiniteSet(Adding(p)')
  BY <1>1, Finite, FS_Subset
<1>3. Cardinality(ListAliases(p)') \in Nat /\ Cardinality(Adding(p)') \in Nat
  BY <1>2, FS_CardinalityType
<1>4. Cardinality(ListAliases(p)) + Cardinality(Adding(p)) <= MaxAliases + Cardinality(Request) - 1
  BY DEF OverLimitByRaceOnly
<1> QED
  BY <1>2, <1>3, <1>4, Finite, AliasAssumption

(* Passing the count leaves room for one alias at least. *)
LEMMA BoundCount ==
    ASSUME TypeOK, OverLimitByRaceOnly, NEW r \in Request, CountAliases(r)
    PROVE  OverLimitByRaceOnly'
<1>1. /\ \A p \in Player : ListAliases(p)' = ListAliases(p)
      /\ \A s \in Request : s # r => flight'[s] = flight[s]
      /\ flight'[r].who = flight[r].who
  <2>1. PICK c : Goto(r, c)
    BY DEF CountAliases
  <2> QED
    BY <2>1 DEF CountAliases, Goto, ListAliases, TypeOK, Handling
<1>2. CASE Goto(r, "reply")
  <2>1. NoneAdds
    BY <1>1, <1>2 DEF NoneAdds, Goto, TypeOK, Handling
  <2> QED
    BY <1>1, <2>1, BoundStays
<1>3. CASE Goto(r, "save") /\ ~(Cardinality(ListAliases(flight[r].who)) >= MaxAliases)
  <2> SUFFICES ASSUME NEW p \in Player
               PROVE  Cardinality(ListAliases(p)') + Cardinality(Adding(p)')
                          <= MaxAliases + Cardinality(Request) - 1
    BY DEF OverLimitByRaceOnly
  <2>1. CASE p = flight[r].who
    <3>1. Adding(p)' \subseteq Request
      BY DEF Adding
    <3>2. Cardinality(Adding(p)') <= Cardinality(Request) /\ Cardinality(Adding(p)') \in Nat
      BY <3>1, AliasAssumption, FS_Subset, FS_CardinalityType
    <3> QED
      BY <1>1, <1>3, <2>1, <3>2, Finite, AliasAssumption
  <2>2. CASE p # flight[r].who
    <3>1. Adding(p)' \subseteq Adding(p)
      BY <1>1, <2>2 DEF Adding, At
    <3>2. Cardinality(Adding(p)') <= Cardinality(Adding(p)) /\ Cardinality(Adding(p)') \in Nat
      BY <3>1, Finite, FS_Subset, FS_CardinalityType
    <3>3. Cardinality(ListAliases(p)) + Cardinality(Adding(p)) <= MaxAliases + Cardinality(Request) - 1
      BY DEF OverLimitByRaceOnly
    <3> QED
      BY <1>1, <3>2, <3>3, Finite, AliasAssumption
  <2> QED
    BY <2>1, <2>2
<1> QED
  BY <1>2, <1>3 DEF CountAliases

(* Who saves an alias is no longer about to. *)
LEMMA BoundSave ==
    ASSUME TypeOK, OverLimitByRaceOnly, NEW r \in Request, SaveAlias(r)
    PROVE  OverLimitByRaceOnly'
<1> SUFFICES ASSUME NEW p \in Player
             PROVE  Cardinality(ListAliases(p)') + Cardinality(Adding(p)')
                        <= MaxAliases + Cardinality(Request) - 1
  BY DEF OverLimitByRaceOnly
<1> DEFINE w == flight[r].who
           n == flight[r].said.arg
<1>1. At(r, "save") /\ w \in Player /\ n \in Name
  BY DEF SaveAlias, At, TypeOK, HandlingOK
<1>2. flight' = [flight EXCEPT ![r] = Idle]
  BY DEF SaveAlias, End
<1>3. alias' = alias \/ alias' = [alias EXCEPT ![w][n] = "active"]
  BY DEF SaveAlias
<1>4. Cardinality(ListAliases(p)) + Cardinality(Adding(p)) <= MaxAliases + Cardinality(Request) - 1
  BY DEF OverLimitByRaceOnly
<1>5. CASE p = w
  <2>1. r \in Adding(p) /\ Adding(p)' = Adding(p) \ {r}
    BY <1>1, <1>2, <1>5, IdleIsOK DEF Adding, At, TypeOK
  <2>2. Cardinality(Adding(p)') = Cardinality(Adding(p)) - 1
    BY <2>1, Finite, FS_RemoveElement
  <2>3. ListAliases(p)' \subseteq ListAliases(p) \cup {n}
    BY <1>1, <1>3, <1>5 DEF ListAliases, TypeOK
  <2>4. /\ IsFiniteSet(ListAliases(p) \cup {n})
        /\ Cardinality(ListAliases(p) \cup {n}) \in {Cardinality(ListAliases(p)), Cardinality(ListAliases(p)) + 1}
    BY Finite, FS_AddElement
  <2>5. Cardinality(ListAliases(p)') <= Cardinality(ListAliases(p)) + 1 /\ Cardinality(ListAliases(p)') \in Nat
    <3>1. Cardinality(ListAliases(p)') <= Cardinality(ListAliases(p) \cup {n}) /\ IsFiniteSet(ListAliases(p)')
      BY <2>3, <2>4, FS_Subset
    <3> QED
      BY <2>4, <3>1, Finite, FS_CardinalityType
  <2> QED
    BY <1>4, <2>2, <2>5, Finite, AliasAssumption
<1>6. CASE p # w
  <2>1. Adding(p)' = Adding(p)
    BY <1>1, <1>2, <1>6, IdleIsOK DEF Adding, At, TypeOK
  <2>2. ListAliases(p)' = ListAliases(p)
    BY <1>1, <1>3, <1>6 DEF ListAliases, TypeOK
  <2> QED
    BY <1>4, <2>1, <2>2
<1> QED
  BY <1>5, <1>6

LEMMA BoundInit == Init => OverLimitByRaceOnly
<1> SUFFICES ASSUME Init, NEW p \in Player
             PROVE  Cardinality(ListAliases(p)) + Cardinality(Adding(p))
                        <= MaxAliases + Cardinality(Request) - 1
  BY DEF OverLimitByRaceOnly
<1>1. ListAliases(p) = {} /\ Adding(p) = {}
  BY IdleIsOK DEF Init, ListAliases, Adding, At
<1> QED
  BY <1>1, FS_EmptySet, Finite, AliasAssumption

LEMMA BoundStep == TypeOK /\ OverLimitByRaceOnly /\ [Next]_vars => OverLimitByRaceOnly'
<1> SUFFICES ASSUME TypeOK, OverLimitByRaceOnly, [Next]_vars PROVE OverLimitByRaceOnly'
  OBVIOUS
<1> DEFINE Quiet == NoneAdds /\ \A p \in Player : ListAliases(p)' \subseteq ListAliases(p)
<1>0. Idle.call = "none" /\ flight \in [Request -> Handling]
  BY IdleIsOK DEF TypeOK
<1>1. ASSUME NEW r \in Request, NEW p \in Writer, NEW m \in Message, Route(r, p, m) PROVE Quiet
  <2>1. flight'[r].call = "parse" /\ \A s \in Request : s # r => flight'[s] = flight[s]
    BY <1>0, <1>1 DEF Route, Idle
  <2> QED
    BY <1>1, <2>1 DEF Route, NoneAdds, ListAliases
<1>2. ASSUME NEW r \in Request, NEW c \in Call \ {"save"}, Goto(r, c), UNCHANGED alias PROVE Quiet
  <2>1. flight'[r].call = c /\ \A s \in Request : s # r => flight'[s] = flight[s]
    BY <1>0, <1>2 DEF Goto, Handling
  <2> QED
    BY <1>2, <2>1 DEF NoneAdds, ListAliases
<1>3. ASSUME NEW r \in Request, End(r), UNCHANGED alias PROVE Quiet
  BY <1>0, <1>3 DEF End, NoneAdds, ListAliases
<1>4. ASSUME NEW r \in Request, AddAlias(r) PROVE Quiet
  <2>1. flight'[r].call # "save" /\ \A s \in Request : s # r => flight'[s] = flight[s]
    BY <1>0, <1>4 DEF AddAlias, Handling
  <2> QED
    BY <1>4, <2>1 DEF AddAlias, NoneAdds, ListAliases
<1>5. ASSUME NEW r \in Request, SaveInactive(r) PROVE Quiet
  <2>1. NoneAdds
    BY <1>0, <1>5 DEF SaveInactive, End, NoneAdds
  <2>2. flight[r].who \in Player
    BY <1>5 DEF SaveInactive, At, TypeOK, HandlingOK
  <2>3. \A p \in Player : ListAliases(p)' \subseteq ListAliases(p)
    BY <1>5, <2>2 DEF SaveInactive, ListAliases, TypeOK
  <2> QED
    BY <2>1, <2>3
<1>6. ASSUME NEW r \in Request, Classify(r) PROVE Quiet
  <2>1. flight'[r].call # "save" /\ \A s \in Request : s # r => flight'[s] = flight[s]
    BY <1>0, <1>6 DEF Classify, Handling
  <2> QED
    BY <1>6, <2>1 DEF Classify, NoneAdds, ListAliases
<1>7. ASSUME NEW r \in Request, FetchAnswer(r) PROVE Quiet
  <2>1. flight'[r].call # "save" /\ \A s \in Request : s # r => flight'[s] = flight[s]
    BY <1>0, <1>7 DEF FetchAnswer, Handling
  <2> QED
    BY <1>7, <2>1 DEF FetchAnswer, NoneAdds, ListAliases
<1>8. ASSUME NEW r \in Request, FindRow(r) PROVE Quiet
  <2>1. flight'[r].call # "save" /\ \A s \in Request : s # r => flight'[s] = flight[s]
    BY <1>0, <1>8 DEF FindRow, Handling
  <2> QED
    BY <1>8, <2>1 DEF FindRow, NoneAdds, ListAliases
<1>9. ASSUME NEW r \in Request, SetPendingAction(r) PROVE Quiet
  <2> DEFINE p == flight[r].who
             f == [flight EXCEPT ![r] = [Idle EXCEPT !.call = "reply", !.who = p]]
  <2>1. p \in Player
    BY <1>9 DEF SetPendingAction, At, TypeOK, HandlingOK
  <2>2. f \in [Request -> Handling]
    BY <1>0, <2>1, ReplyIsOK DEF HandlingOK
  <2>3. f[r].call = "reply" /\ \A s \in Request : s # r => f[s] = flight[s]
    BY <1>0 DEF Idle
  <2>4. flight' = Overtake(p, f) /\ UNCHANGED alias
    BY <1>9 DEF SetPendingAction
  <2> HIDE DEF f
  <2>5. \A s \in Request : Overtake(p, f)[s].call = f[s].call /\ Overtake(p, f)[s].who = f[s].who
    BY <2>2, OvertakeLocals
  <2> QED
    BY <2>3, <2>4, <2>5 DEF NoneAdds, ListAliases
<1>10. ASSUME NEW r \in Request, NEW q \in Writer, NEW state \in {"idle", "other"},
              OtherCommand(r, q, state) PROVE Quiet
  <2> DEFINE f == [flight EXCEPT ![r] = Idle]
  <2>1. f \in [Request -> Handling]
    BY <1>0, IdleIsOK DEF HandlingOK
  <2>2. f[r].call = "none" /\ \A s \in Request : s # r => f[s] = flight[s]
    BY <1>0
  <2>3. flight' = Overtake(q, f) /\ UNCHANGED alias
    BY <1>10 DEF OtherCommand
  <2> HIDE DEF f
  <2>4. \A s \in Request : Overtake(q, f)[s].call = f[s].call /\ Overtake(q, f)[s].who = f[s].who
    BY <2>1, OvertakeLocals
  <2> QED
    BY <2>2, <2>3, <2>4 DEF NoneAdds, ListAliases
<1>11. ASSUME NEW k \in DOMAIN cache, ExpireAnswer(k) PROVE Quiet
  BY <1>11 DEF ExpireAnswer, NoneAdds, ListAliases
<1>12. CASE UNCHANGED vars
  BY <1>12, BoundStays DEF vars, NoneAdds, ListAliases
<1>13. ASSUME NEW r \in Request, Step(r) PROVE OverLimitByRaceOnly'
  <2>1. CASE \E p \in Writer, m \in Message : Route(r, p, m)
    BY <1>1, <2>1, BoundStays
  <2>2. CASE Ask(r) \/ FetchFails(r) \/ RemoveAlias(r) \/ ApplyAiIntent(r)
    <3>1. UNCHANGED alias /\ \E c \in Call \ {"save"} : Goto(r, c)
      BY <2>2 DEF Ask, FetchFails, RemoveAlias, ApplyAiIntent, Call
    <3> QED
      BY <1>2, <3>1, BoundStays
  <2>3. CASE Reply(r) \/ Throw(r)
    BY <1>3, <2>3, BoundStays DEF Reply, Throw
  <2>4. CASE AddAlias(r)
    BY <1>4, <2>4, BoundStays
  <2>5. CASE CountAliases(r)
    BY <2>5, BoundCount
  <2>6. CASE SaveAlias(r)
    BY <2>6, BoundSave
  <2>7. CASE SaveInactive(r)
    BY <1>5, <2>7, BoundStays
  <2>8. CASE Classify(r)
    BY <1>6, <2>8, BoundStays
  <2>9. CASE FetchAnswer(r)
    BY <1>7, <2>9, BoundStays
  <2>10. CASE FindRow(r)
    BY <1>8, <2>10, BoundStays
  <2>11. CASE SetPendingAction(r)
    BY <1>9, <2>11, BoundStays
  <2>12. CASE \E q \in Writer, state \in {"idle", "other"} : OtherCommand(r, q, state)
    BY <1>10, <2>12, BoundStays
  <2> QED
    BY <1>13, <2>1, <2>2, <2>3, <2>4, <2>5, <2>6, <2>7, <2>8, <2>9, <2>10, <2>11, <2>12 DEF Step
<1>14. CASE \E k \in DOMAIN cache : ExpireAnswer(k)
  BY <1>11, <1>14, BoundStays
<1> QED
  BY <1>12, <1>13, <1>14 DEF Next

(* The active aliases of a player, with those about to be saved, are never *)
(* more than the limit and one for every message beside the first: the     *)
(* count and the save of addAlias are two calls apart, and no further.     *)
THEOREM OverLimit == Spec => []OverLimitByRaceOnly
<1>1. TypeOK /\ OverLimitByRaceOnly /\ [Next]_vars => TypeOK' /\ OverLimitByRaceOnly'
  BY TypeStep, BoundStep
<1> QED
  BY TypeInit, BoundInit, <1>1, PTL DEF Spec

(* With one message handled at a time no player has more active aliases    *)
(* than the limit of addAlias.                                             *)
THEOREM LimitInTurn ==
    ASSUME Cardinality(Request) = 1
    PROVE  Spec => [](\A p \in Player : Cardinality(ListAliases(p)) <= MaxAliases)
<1>1. OverLimitByRaceOnly => \A p \in Player : Cardinality(ListAliases(p)) <= MaxAliases
  BY Finite, AliasAssumption DEF OverLimitByRaceOnly
<1> QED
  BY OverLimit, <1>1, PTL

-----------------------------------------------------------------------------
(* The classification                                                      *)

(* An idle conversation, as far as nothing overtook the handler. *)
StillIdle(h) == talk[h.who].state = "idle" \/ h.overtaken

(* The invariant: an answer is kept for the player who asked, and what a   *)
(* handler has read of the conversation, or concluded from it, is true of  *)
(* it as long as nothing overtakes it.                                     *)
HandlerMeets(h) ==
    /\ h.call = "parse" => h.copy = talk[h.who] \/ h.overtaken
    /\ h.call = "fetch" => StillIdle(h)
    /\ h.call = "apply" => h.answer.of = h.who /\ StillIdle(h)

Meets ==
    /\ \A p \in Player, w \in Words : cache[<<p, w>>] # None => cache[<<p, w>>].of = p
    /\ \A r \in Request : HandlerMeets(flight[r])

LEMMA MeetsInit == Init => Meets
  BY IdleIsOK DEF Init, Meets, HandlerMeets

(* A handler that moves is looked at, the others stay as they are.          *)
LEMMA MeetsMove ==
    ASSUME TypeOK, Meets, NEW r \in Request, NEW h, flight' = [flight EXCEPT ![r] = h],
           UNCHANGED <<talk, cache>>, HandlerMeets(h)
    PROVE  Meets'
<1>1. \A s \in Request : HandlerMeets(flight'[s])
  BY DEF TypeOK, Meets
<1> QED
  BY <1>1 DEF Meets, HandlerMeets, StillIdle

(* A written conversation makes everything read of it old.                  *)
LEMMA MeetsWrite ==
    ASSUME TypeOK, Meets, NEW r \in Request, NEW h \in Handling, h.call \in {"none", "reply"},
           NEW p \in Player, NEW row, talk' = [talk EXCEPT ![p] = row], UNCHANGED cache,
           flight' = Overtake(p, [flight EXCEPT ![r] = h])
    PROVE  Meets'
<1> DEFINE f == [flight EXCEPT ![r] = h]
<1>1. f \in [Request -> Handling] /\ f[r] = h /\ \A s \in Request : s # r => f[s] = flight[s]
  BY DEF TypeOK
<1>2. flight' = Overtake(p, f)
  OBVIOUS
<1> HIDE DEF f
<1>3. ASSUME NEW s \in Request PROVE HandlerMeets(flight[s])'
  <2>1. CASE s = r
    <3>1. flight'[s].call \in {"none", "reply"}
      BY <1>1, <1>2, <2>1, OvertakeLocals
    <3> QED
      BY <3>1 DEF HandlerMeets
  <2>2. CASE s # r /\ flight[s].who = p
    <3>1. flight'[s] = [flight[s] EXCEPT !.overtaken = TRUE] /\ flight[s] \in Handling
      BY <1>1, <1>2, <2>2, OvertakeMarks
    <3>2. HandlerMeets(flight[s])
      BY DEF Meets
    <3> QED
      BY <3>1, <3>2 DEF HandlerMeets, StillIdle, Handling
  <2>3. CASE s # r /\ flight[s].who # p
    <3>1. flight'[s] = flight[s]
      BY <1>1, <1>2, <2>3 DEF Overtake
    <3>2. HandlerMeets(flight[s]) /\ HandlingOK(flight[s])
      BY DEF Meets, TypeOK
    <3>3. flight[s].who \in Player => talk'[flight[s].who] = talk[flight[s].who]
      BY <2>3 DEF TypeOK
    <3> QED
      BY <3>1, <3>2, <3>3 DEF HandlerMeets, HandlingOK, StillIdle
  <2> QED
    BY <2>1, <2>2, <2>3
<1> QED
  BY <1>3 DEF Meets

LEMMA MeetsStep == TypeOK /\ Meets /\ [Next]_vars => Meets'
<1> SUFFICES ASSUME TypeOK, Meets, [Next]_vars PROVE Meets'
  OBVIOUS
<1>0. flight \in [Request -> Handling] /\ HandlerMeets(Idle) /\ Idle \in Handling
  BY IdleIsOK DEF TypeOK, HandlerMeets, HandlingOK
<1>1. ASSUME NEW r \in Request, NEW c \in Call \ {"parse", "fetch", "apply"}, Goto(r, c),
             UNCHANGED <<talk, cache>>
      PROVE  Meets'
  <2> DEFINE h == [flight[r] EXCEPT !.call = c]
  <2>1. flight' = [flight EXCEPT ![r] = h] /\ h.call = c
    BY <1>0, <1>1 DEF Goto, Handling
  <2>2. HandlerMeets(h)
    BY <2>1 DEF HandlerMeets
  <2> QED
    BY <1>1, <2>1, <2>2, MeetsMove
<1>2. ASSUME NEW r \in Request, End(r), UNCHANGED <<talk, cache>> PROVE Meets'
  BY <1>0, <1>2, MeetsMove DEF End
<1>3. ASSUME NEW r \in Request, NEW p \in Writer, NEW m \in Message, Route(r, p, m) PROVE Meets'
  <2> DEFINE h == [Idle EXCEPT !.call = "parse", !.who = p, !.said = m, !.copy = talk[p]]
  <2>1. flight' = [flight EXCEPT ![r] = h] /\ UNCHANGED <<talk, cache>>
    BY <1>3 DEF Route
  <2>2. HandlerMeets(h)
    BY DEF HandlerMeets, Idle
  <2> QED
    BY <2>1, <2>2, MeetsMove
<1>4. ASSUME NEW r \in Request, AddAlias(r) PROVE Meets'
  <2> DEFINE row == alias[flight[r].who][flight[r].said.arg]
             h == [flight[r] EXCEPT !.row = row, !.call = IF row = "active" THEN "reply" ELSE "count"]
  <2>1. flight' = [flight EXCEPT ![r] = h] /\ UNCHANGED <<talk, cache>>
    BY <1>4 DEF AddAlias
  <2>2. HandlerMeets(h)
    BY <1>0 DEF HandlerMeets, Handling
  <2> QED
    BY <2>1, <2>2, MeetsMove
<1>5. ASSUME NEW r \in Request, Classify(r) PROVE Meets'
  <2>1. flight[r].call = "parse" /\ ParseEvent(flight[r].said) = "unknown"
    BY <1>5 DEF Classify, Said, At
  <2>2. flight[r].said.arg \in Words /\ flight[r].who \in Player
    BY <2>1, MessageAssumption DEF TypeOK, HandlingOK
  <2> DEFINE known == cache[CacheKey(r)]
  <2>3. known # None => known.of = flight[r].who
    BY <2>2 DEF CacheKey, Meets
  <2>4. flight[r].copy = talk[flight[r].who] \/ flight[r].overtaken
    BY <2>1 DEF Meets, HandlerMeets
  <2> HIDE DEF known
  <2>5. PICK h : flight' = [flight EXCEPT ![r] = h]
                 /\ (\/ h = [flight[r] EXCEPT !.call = "reply"]
                     \/ flight[r].copy.state = "idle" /\ h = [flight[r] EXCEPT !.answer = known, !.call = "fetch"]
                     \/ /\ flight[r].copy.state = "idle" /\ known # None
                        /\ h = [flight[r] EXCEPT !.answer = known, !.call = "apply"])
    BY <1>5 DEF Classify, ShouldUseAi, known
  <2>6. HandlerMeets(h)
    <3>1. CASE h = [flight[r] EXCEPT !.call = "reply"]
      BY <1>0, <3>1 DEF HandlerMeets, Handling
    <3>2. CASE flight[r].copy.state = "idle" /\ h = [flight[r] EXCEPT !.answer = known, !.call = "fetch"]
      BY <1>0, <2>4, <3>2 DEF HandlerMeets, StillIdle, Handling
    <3>3. CASE /\ flight[r].copy.state = "idle" /\ known # None
               /\ h = [flight[r] EXCEPT !.answer = known, !.call = "apply"]
      BY <1>0, <2>3, <2>4, <3>3 DEF HandlerMeets, StillIdle, Handling
    <3> QED
      BY <2>5, <3>1, <3>2, <3>3
  <2> QED
    BY <1>5, <2>5, <2>6, MeetsMove DEF Classify
<1>6. ASSUME NEW r \in Request, FetchAnswer(r) PROVE Meets'
  <2> DEFINE w == flight[r].said.arg
             p == flight[r].who
  <2>1. PICK i \in Intent :
          /\ At(r, "fetch")
          /\ cache' = [cache EXCEPT ![<<p, w>>] = [intent |-> i, of |-> p]]
          /\ flight' = [flight EXCEPT ![r].call = "apply", ![r].answer = [intent |-> i, of |-> p]]
          /\ UNCHANGED <<alias, talk, messages>>
    BY <1>6 DEF FetchAnswer, CacheKey
  <2>2. w \in Words /\ p \in Player /\ StillIdle(flight[r])
    BY <2>1 DEF At, TypeOK, HandlingOK, Meets, HandlerMeets
  <2>3. ASSUME NEW q \in Player, NEW v \in Words, cache'[<<q, v>>] # None
        PROVE  cache'[<<q, v>>].of = q
    BY <2>1, <2>2, <2>3 DEF TypeOK, Meets
  <2>4. ASSUME NEW s \in Request, s # r PROVE HandlerMeets(flight[s])'
    BY <1>0, <2>1, <2>4 DEF Meets, HandlerMeets, StillIdle
  <2>5. HandlerMeets(flight[r])'
    <3>1. /\ flight'[r].call = "apply" /\ flight'[r].who = p
          /\ flight'[r].answer = [intent |-> i, of |-> p] /\ flight'[r].overtaken = flight[r].overtaken
      BY <1>0, <2>1 DEF Handling
    <3> QED
      BY <2>1, <2>2, <3>1 DEF HandlerMeets, StillIdle
  <2> QED
    BY <2>3, <2>4, <2>5 DEF Meets
<1>7. ASSUME NEW r \in Request, FindRow(r) PROVE Meets'
  <2> DEFINE row == [talk[flight[r].who] EXCEPT !.offer =
                       SearchOpponents(flight[r].who, flight[r].answer.intent)]
             h == [flight[r] EXCEPT !.call = "write", !.copy = row]
  <2>1. flight' = [flight EXCEPT ![r] = h] /\ UNCHANGED <<talk, cache>>
    BY <1>7 DEF FindRow
  <2> HIDE DEF row
  <2>2. HandlerMeets(h)
    BY <1>0 DEF HandlerMeets, Handling
  <2> QED
    BY <2>1, <2>2, MeetsMove
<1>8. ASSUME NEW r \in Request, SetPendingAction(r) PROVE Meets'
  <2> DEFINE p == flight[r].who
             h == [Idle EXCEPT !.call = "reply", !.who = p]
  <2>1. p \in Player
    BY <1>8 DEF SetPendingAction, At, TypeOK, HandlingOK
  <2>2. h \in Handling /\ h.call = "reply"
    BY <2>1, ReplyIsOK DEF HandlingOK, Idle
  <2>3. /\ talk' = [talk EXCEPT ![p] = flight[r].copy] /\ UNCHANGED cache
        /\ flight' = Overtake(p, [flight EXCEPT ![r] = h])
    BY <1>8 DEF SetPendingAction
  <2> HIDE DEF h
  <2> QED
    BY <2>1, <2>2, <2>3, MeetsWrite
<1>9. ASSUME NEW r \in Request, NEW q \in Writer, NEW state \in {"idle", "other"},
             OtherCommand(r, q, state) PROVE Meets'
  <2>1. /\ talk' = [talk EXCEPT ![q] = [state |-> state, offer |-> {}]] /\ UNCHANGED cache
        /\ flight' = Overtake(q, [flight EXCEPT ![r] = Idle])
    BY <1>9 DEF OtherCommand
  <2> QED
    BY <1>0, <2>1, IdleIsOK, AliasAssumption, MeetsWrite
<1>10. ASSUME NEW k \in DOMAIN cache, ExpireAnswer(k) PROVE Meets'
  BY <1>10 DEF ExpireAnswer, TypeOK, Meets, HandlerMeets, StillIdle
<1>11. CASE UNCHANGED vars
  BY <1>11 DEF vars, Meets, HandlerMeets, StillIdle
<1>12. ASSUME NEW r \in Request, Step(r) PROVE Meets'
  <2>1. CASE \E p \in Writer, m \in Message : Route(r, p, m)
    BY <1>3, <2>1
  <2>2. CASE Ask(r) \/ CountAliases(r) \/ RemoveAlias(r) \/ FetchFails(r) \/ ApplyAiIntent(r)
    <3>1. UNCHANGED <<talk, cache>> /\ \E c \in Call \ {"parse", "fetch", "apply"} : Goto(r, c)
      BY <2>2 DEF Ask, CountAliases, RemoveAlias, FetchFails, ApplyAiIntent, Call
    <3> QED
      BY <1>1, <3>1
  <2>3. CASE SaveAlias(r) \/ SaveInactive(r) \/ Reply(r) \/ Throw(r)
    BY <1>2, <2>3 DEF SaveAlias, SaveInactive, Reply, Throw
  <2>4. CASE AddAlias(r) \/ Classify(r) \/ FetchAnswer(r) \/ FindRow(r) \/ SetPendingAction(r)
    BY <1>4, <1>5, <1>6, <1>7, <1>8, <2>4
  <2>5. CASE \E q \in Writer, state \in {"idle", "other"} : OtherCommand(r, q, state)
    BY <1>9, <2>5
  <2> QED
    BY <1>12, <2>1, <2>2, <2>3, <2>4, <2>5 DEF Step
<1> QED
  BY <1>10, <1>11, <1>12 DEF Next

(* The classification a handler applies was given for its own player, and  *)
(* the conversation it is applied to is idle unless a command overtook the *)
(* handler: what it knows when it decides to ask stays true while it waits. *)
THEOREM ClassificationMeets == Spec => []IntentMeetsIdle
<1>1. Init => TypeOK /\ Meets
  BY TypeInit, MeetsInit
<1>2. TypeOK /\ Meets /\ [Next]_vars => TypeOK' /\ Meets'
  BY TypeStep, MeetsStep
<1>3. Meets => IntentMeetsIdle
  BY DEF Meets, HandlerMeets, StillIdle, IntentMeetsIdle, At
<1> QED
  BY <1>1, <1>2, <1>3, PTL DEF Spec
=============================================================================
