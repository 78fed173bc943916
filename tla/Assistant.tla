------------------------------ MODULE Assistant ------------------------------
(***************************************************************************)
(* What tenis.router.service does with a message that is no step of a      *)
(* match: the aliases of a player (player-alias.service), the search that  *)
(* reads them (player-search.service), and free text, which OpenAI may     *)
(* classify (openai-routing.service). Messages of one player are handled   *)
(* together, each waits between any two of its calls, and a classification *)
(* has no timeout. The commands that write a conversation are those of     *)
(* Conversation; here they are the one step OtherCommand.                  *)
(***************************************************************************)
EXTENDS Naturals, FiniteSets

CONSTANTS
    Player,      \* registered players
    Writer,      \* the players who write
    Name,        \* normalised names, for players and aliases alike
    Words,       \* texts of three letters and more
    Obvious,     \* those that name the ranking or the help
    Message,     \* what the players write
    Within,      \* Within[n]: the names that contain n
    DisplayName, \* the name of each player
    Request,     \* messages that may be in flight at a time
    None,        \* nobody, no row, no answer
    MaxAliases,  \* 3 in the code
    MaxMessages  \* bound on the messages handled

ASSUME AliasAssumption ==
    /\ IsFiniteSet(Name) /\ IsFiniteSet(Request) /\ Request # {}
    /\ MaxAliases \in Nat \ {0} /\ MaxMessages \in Nat
    /\ Writer \subseteq Player

ASSUME WordsAssumption ==
    /\ Obvious \subseteq Words
    /\ None \notin Player \cup Name \cup Words
    /\ Within \in [Name -> SUBSET Name] /\ DisplayName \in [Player -> Name]

VARIABLES
    alias,   \* tenis_player_aliases, by player and normalised alias
    talk,    \* tenis_conversation_states, by player
    cache,   \* the classifications OpenAI has given, by player and words
    flight,  \* the call each message makes next, and its locals
    messages \* history: messages handled so far

vars == <<alias, talk, cache, flight, messages>>

(* A row is never deleted: a removed alias is an inactive one.              *)
PlayerAlias == {"none", "active", "inactive"}

(* Of a conversation: whether it is idle, and the candidates on offer.      *)
Row == [state : {"idle", "other"}, offer : SUBSET Player]

(* A classification is worth a hint or a question, or names an opponent by *)
(* phone or by name. "of" is history: whose message it was given for.      *)
Intent == {"hint", "question"} \cup Player \cup Name
Answer == [intent : Intent, of : Player]

ASSUME NoAnswerAssumption == None \notin Answer

NoRow == [state |-> "idle", offer |-> {}]

(* A handler in flight: the call it makes next, whose message it handles   *)
(* and what was said, the alias row, the conversation and the              *)
(* classification it has read, and whether the conversation was written    *)
(* since it was read first.                                                *)
Call == {"none", "parse", "count", "save", "unset", "reply", "fetch", "apply", "find", "write"}
Handling == [call : Call, who : Player \cup {None}, said : Message \cup {None},
             row : PlayerAlias, copy : Row, answer : Answer \cup {None},
             overtaken : BOOLEAN]

Idle == [call |-> "none", who |-> None, said |-> None, row |-> "none",
         copy |-> NoRow, answer |-> None, overtaken |-> FALSE]

(* What the call a handler makes next needs of its locals. *)
HandlingOK(h) ==
    /\ h \in Handling
    /\ h.call \notin {"none", "reply"} => h.who \in Player /\ h.said \in Message
    /\ h.call \in {"count", "save", "unset"} => h.said.arg \in Name
    /\ h.call = "fetch" => h.said.arg \in Words
    /\ h.call \in {"apply", "find", "write"} => h.answer # None

TypeOK ==
    /\ alias \in [Player -> [Name -> PlayerAlias]]
    /\ talk \in [Player -> Row]
    /\ cache \in [Player \X Words -> Answer \cup {None}]
    /\ flight \in [Request -> Handling]
    /\ \A r \in Request : HandlingOK(flight[r])
    /\ messages \in 0..MaxMessages

Init ==
    /\ alias = [p \in Player |-> [n \in Name |-> "none"]]
    /\ talk = [p \in Player |-> NoRow]
    /\ cache = [k \in Player \X Words |-> None]
    /\ flight = [r \in Request |-> Idle]
    /\ messages = 0

At(r, call) == flight[r].call = call

Goto(r, call) == flight' = [flight EXCEPT ![r].call = call]

End(r) == flight' = [flight EXCEPT ![r] = Idle]

-----------------------------------------------------------------------------
(* A message has the id of the button that was pressed, or a command, or   *)
(* neither, and then it is free text.                                      *)

(* The commands; "otro" stands for those that are not listed.               *)
Command == [desafio |-> "challenge_create", aceptar |-> "challenge_accept",
            rechazar |-> "challenge_reject", proponer |-> "schedule_propose",
            seleccionar |-> "schedule_select", resultado |-> "result_report",
            ranking |-> "ranking", ayuda |-> "help", apodos |-> "alias_list",
            apodo |-> "alias_set", apodoBorrar |-> "alias_remove", cancha |-> "admin",
            walkover |-> "admin", disputa |-> "admin", match |-> "admin", export |-> "admin"]

(* The prefix of a button's id is the kind of its command.                  *)
Button == {"challenge_accept", "challenge_reject", "schedule_select", "result_confirm",
           "result_reject", "select_player"}

ParseText(m) == IF m.command \in DOMAIN Command THEN Command[m.command] ELSE "unknown"

ParseEvent(m) ==
    IF m.button = None THEN ParseText(m) ELSE IF m.button \in Button THEN m.button ELSE "unknown"

ASSUME MessageAssumption == \A m \in Message :
    m.arg \in IF ParseEvent(m) \in {"alias_set", "alias_remove"} THEN Name ELSE Words

(* A text that names the ranking or the help is answered at once.           *)
ApplyHeuristics(m) == m.arg \in Obvious

Said(r, kinds) == At(r, "parse") /\ ParseEvent(flight[r].said) \in kinds

(* The conversation is read first; a new player is greeted before his      *)
(* message is looked at.                                                   *)
Route(r, p, m) ==
    /\ flight[r] = Idle
    /\ messages < MaxMessages
    /\ messages' = messages + 1
    /\ flight' = [flight EXCEPT ![r] =
         [Idle EXCEPT !.call = "parse", !.who = p, !.said = m, !.copy = talk[p]]]
    /\ UNCHANGED <<alias, talk, cache>>

(* The queries, and the commands of an admin, which write no conversation.  *)
Ask(r) ==
    /\ \/ Said(r, {"ranking", "help", "alias_list", "admin"})
       \/ Said(r, {"unknown"}) /\ ApplyHeuristics(flight[r].said)
    /\ Goto(r, "reply")
    /\ UNCHANGED <<alias, talk, cache, messages>>

-----------------------------------------------------------------------------
(* /apodo and /apodo borrar                                                *)

ListAliases(p) == {n \in Name : alias[p][n] = "active"}

(* An alias that is active already is confirmed with nothing written.       *)
AddAlias(r) ==
    LET row == alias[flight[r].who][flight[r].said.arg] IN
    /\ Said(r, {"alias_set"})
    /\ flight' = [flight EXCEPT ![r].row = row,
                                ![r].call = IF row = "active" THEN "reply" ELSE "count"]
    /\ UNCHANGED <<alias, talk, cache, messages>>

(* Mutation: one alias too many is let through. *)
CountOneTooMany(r) ==
    /\ At(r, "count")
    /\ IF Cardinality(ListAliases(flight[r].who)) > MaxAliases THEN Goto(r, "reply") ELSE Goto(r, "save")
    /\ UNCHANGED <<alias, talk, cache, messages>>

CountAliases(r) ==
    /\ At(r, "count")
    /\ IF Cardinality(ListAliases(flight[r].who)) >= MaxAliases THEN Goto(r, "reply") ELSE Goto(r, "save")
    /\ UNCHANGED <<alias, talk, cache, messages>>

(* An inactive row is revived. UNIQUE (player_id, alias_normalized): the   *)
(* INSERT of a row that is there by now throws.                            *)
SaveAlias(r) ==
    LET p == flight[r].who
        n == flight[r].said.arg IN
    /\ At(r, "save")
    /\ alias' = IF flight[r].row = "inactive" \/ alias[p][n] = "none"
                THEN [alias EXCEPT ![p][n] = "active"] ELSE alias
    /\ End(r)
    /\ UNCHANGED <<talk, cache, messages>>

RemoveAlias(r) ==
    /\ Said(r, {"alias_remove"})
    /\ Goto(r, IF flight[r].said.arg \in ListAliases(flight[r].who) THEN "unset" ELSE "reply")
    /\ UNCHANGED <<alias, talk, cache, messages>>

SaveInactive(r) ==
    /\ At(r, "unset")
    /\ alias' = [alias EXCEPT ![flight[r].who][flight[r].said.arg] = "inactive"]
    /\ End(r)
    /\ UNCHANGED <<talk, cache, messages>>

-----------------------------------------------------------------------------
(* The opponents a phone or a part of a name stands for                    *)

SearchByName(n) ==
    {q \in Player : DisplayName[q] \in Within[n] \/ ListAliases(q) \cap Within[n] # {}}

SearchOpponents(p, input) ==
    (IF input \in Player THEN {input} ELSE SearchByName(input)) \ {p}

-----------------------------------------------------------------------------
(* Free text                                                               *)

(* Mutation: whatever the conversation waits for. *)
ShouldUseAiAlways(row, m) == m.command = None

(* OpenAI is asked about a text without a slash, when the conversation, as  *)
(* it was read, is idle.                                                   *)
ShouldUseAi(row, m) == row.state = "idle" /\ m.command = None

CacheKey(r) == <<flight[r].who, flight[r].said.arg>>

(* The cache is good for ten minutes. A text that is not classified is     *)
(* answered with "No entendi".                                             *)
Classify(r) ==
    LET known == cache[CacheKey(r)] IN
    /\ Said(r, {"unknown"}) /\ ~ApplyHeuristics(flight[r].said)
    /\ flight' = IF ~ShouldUseAi(flight[r].copy, flight[r].said)
                 THEN [flight EXCEPT ![r].call = "reply"]
                 ELSE [flight EXCEPT ![r].answer = known,
                                     ![r].call = IF known = None THEN "fetch" ELSE "apply"]
    /\ UNCHANGED <<alias, talk, cache, messages>>

(* Two messages with the same words may both ask: the later answer stays.   *)
FetchAnswer(r) == \E i \in Intent :
    LET answer == [intent |-> i, of |-> flight[r].who] IN
    /\ At(r, "fetch")
    /\ cache' = [cache EXCEPT ![CacheKey(r)] = answer]
    /\ flight' = [flight EXCEPT ![r].call = "apply", ![r].answer = answer]
    /\ UNCHANGED <<alias, talk, messages>>

(* Disabled, refused, unreachable or not JSON: null, which is not cached.   *)
FetchFails(r) ==
    /\ At(r, "fetch")
    /\ Goto(r, "reply")
    /\ UNCHANGED <<alias, talk, cache, messages>>

(* One text is sent, and the handler returns. *)
Reply(r) ==
    /\ At(r, "reply")
    /\ End(r)
    /\ UNCHANGED <<alias, talk, cache, messages>>

(* Only an opponent who may be one of several changes anything: the list   *)
(* of candidates goes into the conversation, whatever it waits for by now. *)
ApplyAiIntent(r) ==
    LET i == flight[r].answer.intent IN
    /\ At(r, "apply")
    /\ Goto(r, IF i \notin {"hint", "question"}
                  /\ Cardinality(SearchOpponents(flight[r].who, i)) > 1
               THEN "find" ELSE "reply")
    /\ UNCHANGED <<alias, talk, cache, messages>>

FindRow(r) ==
    LET p == flight[r].who IN
    /\ At(r, "find")
    /\ flight' = [flight EXCEPT ![r].call = "write", ![r].copy =
         [talk[p] EXCEPT !.offer = SearchOpponents(p, flight[r].answer.intent)]]
    /\ UNCHANGED <<alias, talk, cache, messages>>

(* A message of p, or a challenge to p, writes p's conversation: whatever   *)
(* was read of it before is old.                                           *)
Overtake(p, then) ==
    [q \in Request |-> IF then[q].who = p THEN [then[q] EXCEPT !.overtaken = TRUE] ELSE then[q]]

(* save writes the whole row, the state as it was found included.          *)
SetPendingAction(r) ==
    LET p == flight[r].who IN
    /\ At(r, "write")
    /\ talk' = [talk EXCEPT ![p] = flight[r].copy]
    /\ flight' = Overtake(p, [flight EXCEPT ![r] = [Idle EXCEPT !.call = "reply", !.who = p]])
    /\ UNCHANGED <<alias, cache, messages>>

-----------------------------------------------------------------------------
(* The commands of Conversation set the state and the context of their     *)
(* player, or of his rival, or fail.                                       *)
OtherCommand(r, q, state) ==
    /\ Said(r, {"challenge_create", "challenge_accept", "challenge_reject", "select_player",
                "schedule_propose", "schedule_select", "result_report", "result_confirm",
                "result_reject"})
    /\ talk' = [talk EXCEPT ![q] = [state |-> state, offer |-> {}]]
    /\ flight' = Overtake(q, [flight EXCEPT ![r] = Idle])
    /\ UNCHANGED <<alias, cache, messages>>

ExpireAnswer(k) ==
    /\ cache[k] # None
    /\ cache' = [cache EXCEPT ![k] = None]
    /\ UNCHANGED <<alias, talk, flight, messages>>

(* A query fails or a message cannot be sent, and the handler throws.       *)
Throw(r) ==
    /\ flight[r] # Idle /\ flight[r].call \notin {"reply", "fetch"}
    /\ End(r)
    /\ UNCHANGED <<alias, talk, cache, messages>>

Step(r) ==
    \/ \E p \in Writer, m \in Message : Route(r, p, m)
    \/ Ask(r) \/ AddAlias(r) \/ CountAliases(r) \/ SaveAlias(r)
    \/ RemoveAlias(r) \/ SaveInactive(r)
    \/ Classify(r) \/ FetchAnswer(r) \/ FetchFails(r) \/ Reply(r)
    \/ ApplyAiIntent(r) \/ FindRow(r) \/ SetPendingAction(r)
    \/ \E q \in Writer, state \in {"idle", "other"} : OtherCommand(r, q, state)
    \/ Throw(r)

Next ==
    \/ \E r \in Request : Step(r)
    \/ \E k \in DOMAIN cache : ExpireAnswer(k)

Spec == Init /\ [][Next]_vars

-----------------------------------------------------------------------------
Adding(p) == {r \in Request : At(r, "save") /\ flight[r].who = p}

(* The limit counts the active aliases and saves two calls later. Messages *)
(* that pass the count together may exceed it, by one for every message    *)
(* beside the first and never further, however often they race: with one   *)
(* message at a time the limit holds.                                      *)
OverLimitByRaceOnly == \A p \in Player :
    Cardinality(ListAliases(p)) + Cardinality(Adding(p))
        <= MaxAliases + Cardinality(Request) - 1

(* A classification is applied to the player it was given for, and to a    *)
(* conversation that is idle, as it was when the text came: only a command *)
(* that overtook the text while OpenAI was asked may have changed it.      *)
IntentMeetsIdle == \A r \in Request : At(r, "apply") =>
    /\ flight[r].answer.of = flight[r].who
    /\ talk[flight[r].who].state = "idle" \/ flight[r].overtaken
=============================================================================
