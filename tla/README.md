# TLA+ models of walait-core-platform

These modules model the parts of the platform that keep state across several
steps and several actors, TLC checks them on small instances, and TLAPS proves
the most important results for every instance. Paths below are relative to the
repository (`src/modules/...`, `docs/...`).

- [1. The system](#1-the-system)
- [2. The modules](#2-the-modules)
- [3. The runs](#3-the-runs)
- [4. Bounds and fairness](#4-bounds-and-fairness)
- [5. What is proved](#5-what-is-proved)
- [6. Where the code and its documentation part](#6-where-the-code-and-its-documentation-part)
- [7. What is not modelled](#7-what-is-not-modelled)
- [8. The plan](#8-the-plan)

To check a module: `tlc -config X.cfg M`. To check the proofs: `tlapm MProofs.tla`.

## 1. The system

A NestJS process (one event loop) with PostgreSQL through TypeORM, BullMQ over
Redis for delayed jobs, and HTTP clients for WhatsApp, OpenAI and the Argentine
tax authority (AFIP). No handler uses a database transaction of its own: every
`await` is a point where another handler may run, and where a crash leaves
what has been written so far.

| Component | State | Operations | Correct when |
|---|---|---|---|
| webhook (`webhook/`) | `seen`, a map of message ids with a life of six hours | answer POST /webhook at once, then work through its events | a message is routed once and none is lost by a duplicate beside it |
| parser, storage, bot registry | append-only files; `bot_profiles` | parse, append, look up a handler | events reach the handler of their number |
| inbound messages (`tenis.service`, `player.service`) | `tenis_inbound_messages`, `tenis_players` | register the sender, record the message, route it | one row and one greeting per phone, one routing per message |
| conversation router (`tenis.router.service`) | `tenis_conversation_states` | parse a command, call a handler, write the conversations | a conversation never claims what the ladder does not |
| challenges | `tenis_challenges` | create, accept, reject, expire | decided once, with the rank snapshot of that moment |
| matches, scheduling | `tenis_matches`, `tenis_schedule_proposals`, `..._options` | propose, select, expire | one selection, which settles every proposal |
| results, disputes | `tenis_result_reports`, `tenis_disputes` | report, confirm, reject, walkover, resolve, cancel | points exactly once, for a match that was decided |
| ranking | `tenis_player_stats` | award points, renumber, list | no point lost or invented, ranks are positions |
| monthly limits | `tenis_monthly_limits` | count sent and accepted | counters count rows |
| expiration jobs | two BullMQ queues | schedule, process | every wait ends, a late job does no harm |
| admin commands | - | court, walkover, dispute, cancel | rows stay in order in any state |
| aliases, search | `tenis_player_aliases` | add (at most three), remove, find an opponent | the limit holds, or is exceeded by a race alone |
| free text (`openai-routing.service`) | the classifications of the last ten minutes | ask OpenAI, apply what it says | what is applied fits the conversation it meets |
| audit log, sheets export | `tenis_audit_logs` | append; read and send | the sheet lists ranks that are positions |
| identity (`identity/`) | `users`, `sessions` | sign up, sign in; what needs a token (refresh, log out, delete) is out of reach, section 6 | one client per user, and nobody else gets in after the first session |
| email verification (`email/`) | `email_verification_tokens` | store with a sign-up, follow the link | every whole account was sent a token |
| access, organizations | `user_roles`, `organization_memberships` | assign with a sign-up | an account is whole or known to be broken |
| AFIP certificates (`taxes/.../pki`) | `public_key_infrastructure`, files named by the millisecond | key pair, signing request, certificate | a request is made with the taxpayer's own key, no key stays on disk |
| AFIP tickets (`taxes/.../wsaa`) | the ticket cache in Redis, `TRA.tmp`, temporary keys | sign, authenticate, cache | a ticket is its taxpayer's, the key is removed |
| AFIP invoices (`taxes/.../wsfev1`) | - | ask for the last number and the currencies, queries | every request carries its taxpayer's ticket; no invoice is ever sent, section 6 |

How they interact: a webhook request becomes events; the event router hands a
message to `TenisService`; it registers the player, records the message and
calls the router; the router calls one service method and then writes the
conversation of each player concerned; acceptances and challenges enqueue the
two delayed jobs; jobs and the admin API call the same services; results call the
ranking. A text that is no command goes to OpenAI, and from there at most to a list
of candidates. Identity writes through its own services and sends messages over the
event bus to listeners of organization, access and email, awaiting most of them. An
invoice first needs a ticket, and the ticket the key pair and the certificate.

What is hard here: handlers that check a copy and save it several awaits later;
whole-row saves of stale copies; a crash or an exception between two writes;
queue.add failing after the row is saved; redelivered webhooks and stalled jobs;
jobs that run 48 hours after the fact; admin commands that check no status; a
sign-up across four modules without a transaction; a check of the sessions of a user
and the insert it allows; files that several requests share.
`PROJECT.json` lists these under `hazards`, each at its line, with the properties
that would notice.

## 2. The modules

```
Inbound ------------> (route) Conversation --EXTENDS--> MatchLifecycle
                              MatchHandlers --EXTENDS--> MatchLifecycle
                              MatchHandlers --implements-> MatchLifecycle
Assistant             (the router's other messages; OtherCommand stands for Conversation)
Identity              (identity with the rows other modules keep of a user)
Taxes                 (certificates, tickets, what asks for them)
Ranking  (opens up the one call "award" / "checkRanks" of MatchHandlers)
```

**MatchLifecycle** is the ladder with one action per handler: each service
method, with every call it makes, from its first read to its last write. It is
the promise the handlers were written to keep, and serves as the abstract
specification. Its variables are the tables; matches, reports and
disputes are indexed by challenge, which the UNIQUE constraints justify. `Queue`
is the state of BullMQ: `on`, `off` (feature flag or no Redis) or `flaky`, where
`queue.add` may throw after its caller has saved the row. `Admin` is the set of
admin commands in use, so that the properties of the players' own flow can be told
from those that hold whatever the admins do. The one to three options of a
proposal are identified with it, scores with their author and verdict.
`awards` is a history variable.

**MatchHandlers** has the same handlers call by call: a task holds the
calls it has left and the copies of rows it has read; a save writes the whole
copy back, a UNIQUE violation or a failed read throws and drops the task; `Die`
drops all tasks and leaves the tables and the queues. `ImplementsLifecycle` is
the refinement: with one handler in flight and no crash the steps of a handler
add up to one step of MatchLifecycle (the mapping reads `settled`, the tables when
the last handler returned). A save is one step (TypeORM's read-and-diff within it
is opened up in Ranking); awarding points is one call. BullMQ hands a
stalled job out again once, then fails it: `MaxCrashes = 1` in the run that
relies on it.

**Ranking** is `ranking.service` with every database call: `ensureStats`,
`recalculateRanking` (list the players, create missing rows, read, renumber, save),
`applyMatchPoints` and the list that `/ranking` and the sheets export read after it, and TypeORM's `save` as a read-and-diff followed by a
write of the columns that differ.

**Inbound** runs from the webhook to the router: one step per awaited call of
`handleWebhook`, `WebhookEventRouter.route`, `ensurePlayer` and `handleEvent`.
Several requests are worked on together, any call may throw (`Throw`), which ends
the request and loses its remaining events, and the process may die. `Forget` is
the end of an id's six hours. A message that is not for the tennis number, or
not a message, is in `Ignored`; every message has an id, as WhatsApp's do. A
request takes less than six hours. The save that repairs an old row without a
normalised name is left out.

**Conversation** composes the router with MatchLifecycle: a command takes one of
its actions and then runs `setState` and `updateContext` for the players
concerned, each a read of the row (`FindRow`) and a save of the changed copy
(`SaveRow`), while other commands, jobs and admin commands go on. `selectOption` is in two
parts, its checks (`Select`) and, some steps later, its saves (`SaveSelection`), after which
the router looks for the match by its option and tells nobody when a stale save has taken
it out again. A job or an admin command runs in one step (`Background`) or is interrupted between the
read and the save of its row: `held[c]` is the copy it has (`ReadCopy`), and
`SaveChallengeCopy` and `SaveMatchCopy` save it over whatever has happened since.
`interleaved` records that a row was read by one step and saved by a later one. What stays
in one step: the handlers of the other commands, awarding points together with the save of the
match it belongs to, and one interrupted handler per challenge at a time; MatchHandlers
takes those apart. Players
answer what they are sent: options go to the challenged player, the
Confirmar/Rechazar buttons to the reporter's rival. How a text
becomes a command, the search and the OpenAI hints are in Assistant; here they only
choose which command runs.

**Assistant** has what the router does with any other message: `/apodo` and
`/apodo borrar` (`player-alias.service`, the count and the save as two calls), the
queries, and free text: the heuristics, `shouldUseAi` on the conversation as it was
read, the cache, the call to OpenAI, which may give any intent or fail, and
`applyAiIntent`, whose search (`player-search.service`, over names and active aliases)
may put a list of candidates into the conversation. Messages of one player are handled
together. A command of Conversation is the one step `OtherCommand`, and `overtaken`
marks the handlers whose copy of the conversation such a write made old. Names are
model values with `Within[n]`, the names that contain `n`. Abstracted: an
alias that is empty after normalisation, the prefixes of `/cancha`, the options of a
proposal. The cache is keyed by player and words, as in the code, and not by what the
prompt says of the conversation.

**Identity** has a user with his sessions, membership, role and verification token,
and the requests that change them call by call. `flight` holds the next call of each
request and the ids it has found; `SignUpCalls` and `SignInCalls` are the orders of the calls.
`auth.service` sends `membership.getMembershipAndOrgById` before it makes a token, and no
listener has that pattern: every sign-in ends there (`MembershipUnanswered`), after its session
was inserted. As no token is handed out, what asks for one is never reached past its guard and is
no action: refreshing, signing out, revoking a session, deleting a user. `broken` and
`overlapped` record the accounts whose sign-up stopped half-way and the users with two
requests about their sessions at a time. TypeORM and the bus are taken at the code's word:
a find returns the fields and relations it names, a message is answered by the handler
of its pattern, or not at all. Reads whose result only the following step uses are part of it. A wrong
password and a refused sign-in leave no state.

**Taxes** has the key pairs, certificates and tickets of AFIP with the files and the cache
they share. The file `key-<millisecond>.pem` is `keyFile[now]`; the clock (`Tick`) may stand
still between two requests. `traTmp` is the one `TRA.tmp`, whose name does not depend on
the request; `tmpKeys` are the private keys on disk under a uuid. What throws in the try
block goes on with the `finally` (`Cleanup`, `UnlinkKey`). `of` is whose key or ticket a
request really carries, which the code cannot see. WSAA answers with the ticket for the request
it was sent, or with something the service cannot read (`TicketUnreadable`). An invoice is followed to
where it ends: `parseResponse` hands on the body of the envelope, so that the last number is read
as undefined (`GetLastInvoice`) and the list of currencies throws (`GetCurrencyTypes`).
`crossed` is history.

**MCMatchHandlers, MCInbound, MCConversation, MCIdentity, MCTaxes, MCAssistant** instantiate them for TLC
(a VIEW without the history variable, sets of messages, requests, commands and browsers that may be
swapped); the other modules are checked as they stand, with the constants of the .cfg.
**MatchLifecycleProofs**, **MatchHandlersProofs**, **RankingProofs**, **ConversationProofs**,
**InboundProofs**, **AssistantProofs**, **IdentityProofs** and **TaxesProofs** hold the theorems.
ConversationProofs extends MatchLifecycleProofs, as Conversation extends MatchLifecycle.

In every module the operators named in a comment "Mutation:" are wrong versions
of the definition that follows, each the kind of bug that code could have. No
specification uses them; substituted for the right one, each makes the
property it is listed with in `PROJECT.json` fail, which shows that the property
depends on that code.

## 3. The runs

| Run | States | Shows |
|---|---|---|
| `match_players` (MatchPlayers) | 299,185 | two challenges, three players, no admin: types; report and match tell one story; points exactly once and explained by the closed matches; counters count rows; every wait has its job and ends |
| `match_admin` (MatchAdmin) | 268,663 | all admin commands at any time, a failing queue: rows in order, dispute tracks report, closed means awarded, selections settled, decisions stand |
| `handlers_serial` (HandlersSerial) | 1,002,371 | the call-by-call handlers implement MatchLifecycle, all early returns and exceptions included |
| `handlers_crash` (HandlersCrash) | 10,952 | one crash between any two calls: no points without a verdict (points may stay owed, between closing the match and awarding), and what is queued still ends |
| `handlers_race` (HandlersRace) | 1,211,837 | two handlers in flight: nothing starts over, thanks to the UNIQUE constraints |
| `ranking` (Ranking) | 1,181,791 | exact in turn; never a point too many when operations overlap; the ranks of a challenge and of a list are positions of one table |
| `inbound` (Inbound) | 226,800 | routed at most once, greeted at most once, only known players; routed in the end unless its request failed |
| `conversation` (Conversation) | 2,979,474 | no conversation runs ahead of the ladder, though jobs and resolutions may save stale rows: a selected option may vanish from its match, its selected proposal does not; a list is good for one attempt; in turn each conversation has the state and id the next command needs |
| `identity` (Identity) | 95,655 | what no failure stopped is a whole account in four modules; one client per user when requests do not overlap; after the first session nobody else gets in, whatever overlaps |
| `taxes` (Taxes) | 1,915,860 | keys and tickets are mixed up only by requests that shared a file; private keys are removed whichever call in between throws |
| `assistant` (Assistant) | 5,499,149 | the limit of aliases is exceeded by the race alone, by one per message beside it; a classification meets an idle conversation unless a command overtook it |
| `expiry_race` (HandlersExpiry) | violation | section 6 |

Deadlock is not checked: the ladder rests when the players do nothing, the ids of
an instance are used up, the bounds end the runs, and no request has to be sent.

## 4. Bounds and fairness

Bounds, by CONSTANT: `MaxAwards` (awards per match; only repeated walkovers and
resolutions reach it), `MaxCrashes`, `MaxOperations` (Ranking),
`MaxEvents`/`MaxRequests`/`MaxFailures` (Inbound), `Sender`/`MaxOffers`/`MaxFailures`
(Conversation), `MaxUsers`/`MaxSessions`/`MaxFailures` (Identity),
`MaxPairs`/`MaxClock`/`MaxCerts`/`MaxFailures` (Taxes), `MaxMessages`
(Assistant), and the sizes of the id sets. They are enough because:

- handlers of different challenges meet only in points, counters and
  ids, so two challenges among three players (who then share a player) show every
  interaction of `match_players`; the races of MatchHandlers are about one
  challenge. Two proposals are needed for REPLACED, three players for a refused
  `RankGap` and an outsider.
- two tasks in flight give every overlap of two handlers, and the violations found
  need no third.
- `RankDiff = {0, 1}` distinguishes the points of a winner; three operations
  allow one to overlap with two others.
- two requests of up to two events cover a duplicate within a request, between two
  concurrent ones and after a crash or `Forget`; two failures allow a crash
  while recovering from an exception.
- Conversation: one challenge, one list and one failure, jobs that work and the command of the
  admins that writes most, `/disputa`, each interrupted any number of times. Only player 1 sends
  `/desafio` (`Sender`), to 2, to 3, whose rank is too far away, or to either from a list:
  before the one challenge of the instance there is nothing to tell the players apart by but
  their ranks. The other admin commands save a match in the same way (`SaveMatchCopy`) and are left
  to the proofs, which are for all of them and every `Sender`.
- Identity: one address, so that every two requests may meet; four sessions, so that two
  clients may race and others come after them; two addresses of the network and two browsers,
  since a client is told apart by both; three requests; one failure.
- Taxes: two taxpayers, three requests and two instants give every way to share a file and
  a third that finds what the two left in the cache; one certificate each, one failure.
- Assistant: `MaxAliases = 1` (3 in the code; the proof is for every limit), three names,
  two of one form, four messages: two that race for the limit and two before or after.

`MaxRankDiff` is 10 in the code and 1 in some instances, so that three players reach
the refusal.

Fairness: `MatchLifecycle!FairSpec` assumes that time passes and that the BullMQ
workers, in the same process, keep taking due jobs; no player or admin
ever has to act. `MatchHandlers!FairHandlersSpec` adds that a handler in
flight goes on, and that a due job is started infinitely often enabled (strong
fairness): in the model a worker needs a free place in `Handler`, which players'
handlers occupy for a while, a restriction the code does not have.
`Inbound!FairSpec` assumes that the event loop returns to a request whose call has
come back; a call that never returns would be a connection without a timeout,
which `Throw` stands for. Conversation, Ranking, Identity, Taxes and Assistant have safety
properties only: a client need not come back, and a call to OpenAI has no timeout.

## 5. What is proved

All for every value of the constants, from the named assumptions of the modules
(`PlayerAssumption`, `NoneAssumption`, `ParameterAssumption`; `HandlerAssumption`;
`RankingAssumption`; `SenderAssumption`, `IgnoredAssumption`, `BoundAssumption`;
`RouteAssumption`; `AliasAssumption`, `WordsAssumption`, `NoAnswerAssumption`, `MessageAssumption`;
`IdentityAssumption`; `TaxesAssumption`), which TLC evaluates in the runs. Two theorems of
MatchHandlersProofs have hypotheses of their own on the constants, named below.

*MatchLifecycleProofs.* `TypeCorrect`; `LadderCorrect`, the inductive invariant
`LadderInv` = `TypeOK`, `RowsInOrder`, `DisputeTracksReport`, `ClosedWasAwarded`,
`SelectionSettled`. None of the four is inductive alone: that a dispute
tracks its report needs that a report has a match, and that a selection stays
settled needs that a match without a row has no proposals. `RowsCorrect`,
`DisputesCorrect`, `ClosedCorrect` and `SelectionCorrect` are its parts.
`DecisionsCorrect` is the action property on top of the types.
With `Admin = {}`, `PlayersInv` adds `ReportAgreesWithMatch` and
`AwardedOnceWhenClosed` (each needs the other: a confirmation may only score a
match whose report is pending, hence not closed), from which `AwardedOnce`,
`ReportAgrees` and `FinishedCorrect` follow. `PointsCorrect` builds on both: only a
confirmation closes a match (`ClosedSame` for every other step), and the sizes of the
sets `PointsExplained` adds up grow by what it awards (`ConfirmEarns`). With `Queue = "on"`,
`WaitingCorrect`: whatever waits has its job. `LimitsCorrect`: `LimitInv` adds to the types
that a challenge names nobody before it is made, so that the rows a counter counts
(`SentRows`, `TakenRows`) gain exactly the one a handler counts (`LimitsCreated`,
`LimitsAccepted`) and every other step leaves their sizes alone (`LimitsUntouched`,
`LimitsDeclined`).

*MatchHandlersProofs.* `HandlersTyped`: a task holds copies of rows and a rest of the calls of
its operation. On top of it alone, `NothingReopens`: `NothingStartsOver`, for any number of
handlers and crashes, since each write either finds no row (UNIQUE) or writes a status that is
none of the first ones (`MatchGoesOn`, `ReportGoesOn`, `DisputeGoesOn`).
`CrashesLeaveNoDebt`: `CrashLeavesNoDebt` for one handler at a time without admin commands
and any number of crashes. The invariant `CrashInv` says of every challenge what is true
whatever a crash interrupts (`Sound`) and of a handler in flight, by the calls it has left, what
it has found and written (`Midway`). Two handlers would break it: a stale save of one
undoes what the other has decided, as `expiry_race` shows. An admin command would as well: it
closes a match without looking at the report.
`SerialHandlersImplement`: `HandlersSpec => ImplementsLifecycle` for one handler and
`MaxCrashes = 0`, with every admin command and any queue. The invariant `OneByOne` says that
the tables are those settled with what the handler in flight has written so far on
top (`SoFar`: one operator per handler, one disjunct per call), and that its checks still hold
of the settled ones. `SettledOK` says that a match belongs to an accepted challenge, a report to a
match and a dispute to a decided report: without it an insert at the end of a handler could throw
after the first rows are saved, and the calls would add up to no step. One lemma per handler
(`CreateSteps` to `AgendaSteps`) follows its calls: each leaves the settled tables or, the
last one, turns them into those after the action of MatchLifecycle.

*RankingProofs.* `TypeCorrect`. `PointsAreOwed`: `owed` grows when an award starts, and its points
reach a copy of a row only at the credit. `Covered` bounds every copy of a row, in the table,
in memory or about to be written, by `Room`: what is owed less what the awards in flight
have still to credit (`Pile` adds that up over the handlers as the size of a set). A stale copy can
then take points away and never invent any.
`ExactTable` and `RanksAreCurrent` come from one invariant, `OneAtATime`: until something overlaps at
most one operation is in flight, and at each of its calls (`Ready`, `ReadyToCreate`,
`ReadyToWrite`) what it holds is what the table has, so that at its end the points are those
owed (`Settled`) and the stored ranks positions (`Ranked`).

*ConversationProofs.* `ConversationsTyped`: a command in flight has one of five programs left
(`IsProgram`): news for players, a list to show, a pick, a challenge to send, an option to
select. A stale save is no step of MatchLifecycle; until the first one every step of the router is
one, or none (`LadderMoves`), hence `RouterDrivesLadder`, which also says that the rows are in
order until then. What holds after it as well is kept apart: `RowsChain` (which
row needs which other, of whatever status) and `CopiesOK` (what an interrupted handler's copy
says). `StatesAreBacked`:
`AllBacked` says of every conversation, of every copy a command holds and of the news it has
still to write what `StateIsBacked` says of the conversations; no step takes back what
backs them (`Lasting`, and `LastingOptions` for the selected proposals), neither an action of the ladder
nor a stale save of a challenge, a match or a selection (`RowsStep`), so a stale row may be old
and is never ahead. `ListsAreGoodForOne`:
`ListInv` counts the list that a command has cleared for a challenge still to be sent, and that
there is one command at a time (`Alone`) until two overlap. `ConversationsFollow` speaks of
the moments between commands only; `WillFollow` says it at every moment of the row a
player's conversation will have once the command in flight is through (`Final`: the last
word of its news, or the present row when it has none for him). A handler's step
changes the ladder and the news together (`ToldFollows`, one lemma per command), a save
moves a row from the news to the table, which needs that the copy is current (`CopyCurrent`),
and jobs, admins and untold commands only take from what is asked (`AsksLess`).

*InboundProofs.* `TypeCorrect`, and the invariant `InboundInv`: a message may be
routed only by the one request that inserted its row (`RoutingInv`), and a player
greeted only by the one request that inserted his (`GreetingInv`); a request that
has lost either race never gets there. `RoutedOnce`, `WelcomedOnce` and
`RoutedOnlyKnown` follow, for any number of requests and failures. Proceeding
with the loop, going on to the next call and giving up are the quiet
steps (`QuietStep`): they cannot disturb the invariant.

*AssistantProofs.* `TypeCorrect`. `OverLimit`: `OverLimitByRaceOnly` is inductive with the
types, because it counts the active aliases together with the handlers that have passed
the count and not saved yet (`BoundCount`, `BoundSave`): one that passes the count
finds fewer than `MaxAliases`, and at most all the other requests are saving.
`LimitInTurn` follows: with one message handled at a time the limit of the code holds.
`ClassificationMeets`: `Meets` says of a handler from the moment it asks OpenAI that its conversation was
read idle, and is idle or was overtaken; whoever writes a conversation marks its other
handlers (`MeetsWrite`).

*IdentityProofs.* `TypeCorrect`: `RequestOK` says what a request holds at each of its calls.
`FirstSessionLocksIn`: sessions are only added (`SessionMoves`), and who starts to open one
was let in by a session of the same client (`AllowedIsKnown`) once there is one, so that
`LockedIn` follows step by step. `OneClientAtATime`: `TurnInv` says of a user whose requests
have not overlapped that at most one is about his sessions, and that what its check found is still
so when it writes. `AccountsStayWhole`: `WholeInv` follows a sign-up through the calls of four
modules: the rows its calls have written are there, unless the account is broken.

*TaxesProofs.* `TypeCorrect`. `KeysAreCleaned`: `KeysCleaned` is inductive with the types,
since every request that has written a private key goes through the call that removes it,
a failing one as well. `OwnKeysAndTickets`: `OwnUnlessCrossed` says what is kept and
carried; to be inductive it must also say what the file a request waits to read holds
(`ReadsOwn`), until another writes it and the taxpayer counts as crossed.

Only model-checked: the liveness properties (`WaitingEnds`, `QueuedWaitEnds`,
`ReceivedIsRouted`), whose proofs need reasoning about ENABLED that the prover does
not support. TLC also checks the refinement of MatchHandlers: the proof covers every
instance, the run the reachability of all its steps.

## 6. Where the code and its documentation part

The run `expiry_race` shows one. `docs/tenis/jobs.md:18` says "Cada job valida estado
actual antes de actuar." `expireChallenge` validates a copy and saves it after an
await: an acceptance saved in between is overwritten with EXPIRED, and the match stays.

Seen while modelling, and part of the models:

- `docs/tenis/admin-commands.md:15`: "Cancela match sin puntos." `cancelMatch` leaves the
  pending report alone and `confirmResult` looks only at the report: a confirmation after
  the cancellation closes the match and awards the points.
- `docs/tenis/flows.md:64`: "Aplicar puntos (winner += 125 + 5*dif, loser += 25)".
  `recalculateRanking` saves whole rows it has read before; a /ranking that overlaps
  with a confirmation writes the old points back (`ExactInTurn` is about operations in turn,
  `NoPointFromNowhere` about those that overlap).
- `docs/tenis/state-machine.md:20`: "`disputed` -> `idle` al resolver disputa." Nothing
  resets the conversation of the player who rejected the result.
- A message in free text may be applied to a conversation that a command has moved on
  meanwhile (`overtaken`): the offer is written beside the new state.
- `docs/tenis/flows.md:7`: "Maximo 3 apodos activos por jugador." `addAlias` counts and then
  inserts: messages handled together exceed the limit by one each (`OverLimitByRaceOnly`).
- Two confirmations of one report, or a confirmation and a rejection, that are in flight
  together both pass the check of `result.service.ts:104-121`: the match awards its points
  twice, or is closed and disputed. `AwardedOnceWhenClosed` and `FinishedMatchStays`
  are about handlers one after the other.
- The agenda job or an admin command that read a match before a selection and saves it
  after takes the selected option out of the match again (`expire-schedule.job.ts:75-83`),
  while both conversations wait for a result; `StateIsBacked` therefore looks for the
  selected proposal, which stays.
- Identity: `auth.service.spec.ts:126,281` mocks an answer to
  `membership.getMembershipAndOrgById`; `membership.listener.ts:23` answers only
  `membership.createMembership`. No sign-in succeeds and no token is ever handed out, and each
  attempt leaves a session, which bars every other client for good (`LockedIn`).
  `is_email_verified` is never set, since `user.updateUser` is sent and not subscribed to.
- Taxes: `wsfev1.client.ts:118-126` hands on the body of the SOAP envelope and not the result in
  it. The last number is always undefined, and `currencyTypes.Moneda.find`
  (`facturacion.service.ts:91`) throws for every answer: no invoice is ever sent, so that no two can be
  given one number either. Invoices of type C and M throw in the builder before; document names
  with small letters are never found; the row of a second key pair of a taxpayer is lost.

Also noticed: the repository's `README.md:96` calls the idempotency of the webhook
in-memory and lost on restart; the tennis path also has `tenis_inbound_messages`,
which is why `RoutedAtMostOnce` survives a restart. The price is in
`ReceivedIsRouted`: a message recorded by a request that then fails is not
routed when it comes again.

## 7. What is not modelled

- Normalisation of names, WhatsApp message layout, OpenAI prompts, PDF, the sheets of
  matches and disputes: pure or output only.
- The webhook signature guard, the admin API key and the admin role lookup: pure
  checks in front of the modelled steps.
- The audit log: append-only and never read.
- The monthly limits' change of month; `canSend` and `canAccept` always answer true.
- BullMQ itself: a queue is a set of delayed jobs. Version 5 refuses custom job ids
  with one colon, which the ids of both jobs contain; whether `add` succeeds is
  therefore left open (`Queue = "flaky"` covers both).
- Two processes against one database: the models have the one process `main.ts` starts.
- Wiring: `IdentityModule`, `TaxesModule` and `EventBusModule` are commented out in
  `src/app.module.ts:38-40`; `apps/api/app.module.ts`, which `main.ts` starts, imports the
  webhook, the tennis module and the event bus, not `TaxesModule` or `IdentityModule`;
  and no module registers the e-mail listeners. Identity and Taxes model their code as if
  they were imported.
- Conversation: the calls inside the handlers of commands other than a selection, a second
  interrupted handler on one challenge, and the save of a match apart from the award
  that goes with it.
- Identity: what needs a token, which nobody is given: refreshing, signing out, sessions,
  deleting a user, the profile, the administration of roles, permissions and organizations;
  the password controller and the resend of a verification mail, which ask patterns without a
  handler and cannot complete.
- Taxes: the text of requests and answers, except for what `parseResponse` makes of them;
  whether the endpoint of the configuration answers a login with a bare ticket or inside a
  SOAP envelope, which the service could not read, is left open
  (`SaveTicket`, `TicketUnreadable`); the submission of an invoice, which is never reached;
  `BaseSoapClient`, which no client uses; temporary files without a private key; an `unlink`
  of a private key that fails, which `cleanupTmpLink` swallows, and a `writeFile` of it that
  rejects after it has made the file (`wsaa.service.ts:71-74`, outside the try): either
  leaves the key on disk; the end of the process, after which files may stay; Redis is
  taken as configured.

## 8. The plan

Done, in this order: MatchLifecycle, MatchHandlers (refines it), Ranking,
MatchLifecycleProofs, Inbound, InboundProofs, Conversation, Assistant, AssistantProofs,
Identity, Taxes, TaxesProofs, IdentityProofs, RankingProofs, MatchHandlersProofs,
ConversationProofs.

Every invariant and action property of the passing runs is now a theorem; TLC alone checks the
liveness properties. Next: of what section 7 leaves out,
first the options of a schedule in the router, and the remaining handlers of its commands call by
call.
