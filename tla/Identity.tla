------------------------------- MODULE Identity -------------------------------
(***************************************************************************)
(* The accounts of modules/identity, with the rows that modules/           *)
(* organization, access and email keep of a user. auth.service changes     *)
(* them call by call: calls of its own repositories and messages to the    *)
(* listeners of the other modules. No transaction spans two calls, several *)
(* requests may be in flight, and a request may end between any two of its *)
(* calls.                                                                  *)
(*                                                                         *)
(* Signing in asks for membership.getMembershipAndOrgById, which no        *)
(* listener answers, before it makes the tokens it is for. No access token *)
(* and no refresh token is ever handed out, so that what only a token      *)
(* opens (refreshing, signing out, deleting an account) is never reached   *)
(* past its guard and has no action here.                                  *)
(*                                                                         *)
(* TypeORM and the bus are external: a find returns the rows that meet its *)
(* conditions, a condition whose value is undefined restricts nothing, a   *)
(* message is answered by the handler of its pattern, and one that no      *)
(* handler has is answered with an error.                                  *)
(***************************************************************************)
EXTENDS Naturals, FiniteSets, Sequences

CONSTANTS
    Email,       \* addresses people sign up with
    Ip, Agent,   \* what a client is told apart by
    Request,     \* HTTP requests that may be in flight at a time
    NoClient,    \* the client of a request that has none
    MaxUsers,    \* bound on the rows of users
    MaxSessions, \* bound on the rows of sessions
    MaxFailures  \* bound on requests that end between two calls

ASSUME IdentityAssumption ==
    /\ NoClient \notin Ip \X Agent /\ Email # {}
    /\ MaxUsers \in Nat /\ MaxSessions \in Nat /\ MaxFailures \in Nat

VARIABLES
    users,      \* the addresses of users, in the order they were inserted
    sessions,   \* sessions, in the order they were inserted
    members,    \* users with a row in organization_memberships
    roles,      \* users with a row in user_roles
    tokens,     \* the e-mail verification token of each user
    flight,     \* the call each request makes next, and its locals
    overlapped, \* history: users with two requests about their sessions at a time
    broken,     \* history: users whose sign-up ended part-way
    failures    \* history: requests that ended between two calls

rows == <<users, sessions, members, roles, tokens>>
history == <<overlapped, broken, failures>>
vars == <<rows, flight, history>>

Client == Ip \X Agent
UserId == 1..MaxUsers

(* Nothing that is reached revokes, expires or deletes a session: the      *)
(* seven days of expires_at are only compared when a token is refreshed.   *)
Session == [user : UserId, client : Client]

(* A row of email_verification_tokens is "removed" when its link is        *)
(* followed past its hour.                                                 *)
Token == {"none", "stored", "removed"}

(* One request: what it is for, the call it makes next, and what it knows  *)
(* of the user and the client.                                             *)
Flight == [op : {"none", "signUp", "signIn"},
           call : {"none", "create", "open", "join", "role", "mail", "member"},
           email : Email, client : Client \cup {NoClient}, user : 0..MaxUsers]

Idle == [op |-> "none", call |-> "none", email |-> CHOOSE e \in Email : TRUE,
         client |-> NoClient, user |-> 0]

RequestOK(r) ==
    LET f == flight[r]
    IN /\ f.call = "none" <=> f.op = "none"
       /\ f.call = "create" => f.op = "signUp"
       /\ f.call = "open" => f.op \in {"signUp", "signIn"}
       /\ f.call \in {"create", "open"} => f.client \in Client
       /\ f.call \in {"join", "role", "mail"} => f.op = "signUp"
       /\ f.call = "member" => f.op = "signIn"
       /\ IF f.call \in {"none", "create"} THEN f.user = 0 ELSE f.user \in DOMAIN users
       /\ f.call \in {"role", "mail"} => f.user \in members

TypeOK ==
    /\ users \in Seq(Email) /\ Len(users) <= MaxUsers
    /\ sessions \in Seq(Session) /\ Len(sessions) <= MaxSessions
    /\ \A s \in DOMAIN sessions : sessions[s].user \in DOMAIN users
    /\ members \subseteq DOMAIN users /\ roles \subseteq members
    /\ tokens \in [UserId -> Token]
    /\ flight \in [Request -> Flight]
    /\ \A r \in Request : RequestOK(r)
    /\ overlapped \subseteq DOMAIN users /\ broken \subseteq DOMAIN users
    /\ failures \in 0..MaxFailures

Init ==
    /\ users = <<>> /\ sessions = <<>>
    /\ members = {} /\ roles = {} /\ tokens = [u \in UserId |-> "none"]
    /\ flight = [r \in Request |-> Idle]
    /\ overlapped = {} /\ broken = {} /\ failures = 0

(***************************************************************************)
(* What the queries find.                                                  *)
(***************************************************************************)
FindByEmail(e) == {u \in DOMAIN users : users[u] = e}

ExistsByEmail(e) == FindByEmail(e) # {}

(* revoked_at: undefined restricts nothing, and expires_at is not asked.    *)
GetActiveByUser(u) == {s \in DOMAIN sessions : sessions[s].user = u}

(***************************************************************************)
(* Requests.                                                               *)
(***************************************************************************)
At(r, call) == flight[r].call = call

(* The calls of a request, each with the one that follows it.               *)
SignUpCalls == [create |-> "open", open |-> "join", join |-> "role", role |-> "mail"]
SignInCalls == [open |-> "member"]

Calls == [signUp |-> SignUpCalls, signIn |-> SignInCalls]

NextCall(r) == Calls[flight[r].op][flight[r].call]

Continue(r) == flight' = [flight EXCEPT ![r].call = NextCall(r)]

End(r) == flight' = [flight EXCEPT ![r] = Idle]

Start(r, work) ==
    /\ flight[r] = Idle
    /\ flight' = [flight EXCEPT ![r] = work]

(* A request that opens a session of a user joins another one.              *)
Claim(u) ==
    overlapped' = overlapped \cup {v \in {u} : \E q \in Request : flight[q].user = v}

Break(u) == broken' = broken \cup {u}

NewUser(e) == Append(users, e)

NewSession(u, c) == Append(sessions, [user |-> u, client |-> c])

(***************************************************************************)
(* POST auth/sign-up. An address in use is refused before the first write. *)
(***************************************************************************)
SignUp(r, e, c) ==
    /\ Len(users) < MaxUsers
    /\ ~ExistsByEmail(e)
    /\ Start(r, [Idle EXCEPT !.op = "signUp", !.call = "create", !.email = e, !.client = c])
    /\ UNCHANGED <<rows, history>>

(* The column is unique: of two sign-ups that saw the address free, the    *)
(* second INSERT throws.                                                   *)
CreateUser(r) ==
    /\ At(r, "create")
    /\ IF FindByEmail(flight[r].email) = {}
       THEN /\ Len(users) < MaxUsers
            /\ users' = NewUser(flight[r].email)
            /\ flight' = [flight EXCEPT ![r].user = Len(users'), ![r].call = NextCall(r)]
       ELSE End(r) /\ UNCHANGED users
    /\ UNCHANGED <<sessions, members, roles, tokens, history>>

CreateSession(r) ==
    /\ At(r, "open")
    /\ Len(sessions) < MaxSessions
    /\ sessions' = NewSession(flight[r].user, flight[r].client)
    /\ Continue(r)
    /\ UNCHANGED <<users, members, roles, tokens, history>>

(* The organization_id of the form names no organization, or an inactive   *)
(* one: the user and the session are there already, and stay.              *)
OrganizationRefused(r) ==
    /\ At(r, "join")
    /\ Break(flight[r].user)
    /\ End(r)
    /\ UNCHANGED <<rows, overlapped, failures>>

(* Mutation: the message is sent and its observable not subscribed to. *)
SendMembership(r) ==
    /\ At(r, "join")
    /\ Continue(r)
    /\ UNCHANGED <<rows, history>>

CreateMembership(r) ==
    /\ At(r, "join")
    /\ members' = members \cup {flight[r].user}
    /\ Continue(r)
    /\ UNCHANGED <<users, sessions, roles, tokens, history>>

(* The listener reads the scope of the role it did not find: a global      *)
(* administrator is given the role a membership has by default, and there  *)
(* need not be one of that scope.                                          *)
RoleMissing(r) ==
    /\ At(r, "role")
    /\ Break(flight[r].user)
    /\ End(r)
    /\ UNCHANGED <<rows, overlapped, failures>>

CreateUserRole(r) ==
    /\ At(r, "role")
    /\ roles' = roles \cup {flight[r].user}
    /\ Continue(r)
    /\ UNCHANGED <<users, sessions, members, tokens, history>>

(* Mutation: the template is looked for first, and the error swallowed. *)
VerificationSkipped(r) ==
    /\ At(r, "mail")
    /\ End(r)
    /\ UNCHANGED <<rows, history>>

(* The token is stored first. The listener returns nothing, and a message   *)
(* without an answer throws where one is awaited: whoever signed up is      *)
(* told of an error with everything written, whether or not a template     *)
(* was there to be sent.                                                   *)
VerificationRequested(r) ==
    /\ At(r, "mail")
    /\ tokens' = [tokens EXCEPT ![flight[r].user] = "stored"]
    /\ End(r)
    /\ UNCHANGED <<users, sessions, members, roles, history>>

(***************************************************************************)
(* POST auth/sign-in. A password that does not match and a user logged in  *)
(* elsewhere are refused with nothing written; only the id of the user is  *)
(* kept of what the two queries found.                                     *)
(***************************************************************************)
(* Mutation: refused only when the address and the browser both differ. *)
SessionFarAway(s, c) ==
    sessions[s].client[1] # c[1] /\ sessions[s].client[2] # c[2]

SessionElsewhere(s, c) ==
    sessions[s].client[1] # c[1] \/ sessions[s].client[2] # c[2]

(* Mutation: the sessions of the user are counted, and one is not too many. *)
LoginAllowedTwice(u, c) ==
    \/ Cardinality(GetActiveByUser(u)) <= 1
    \/ \E s \in GetActiveByUser(u) : ~SessionElsewhere(s, c)

(* findOne returns any one of the sessions of the user.                     *)
LoginAllowed(u, c) ==
    \/ GetActiveByUser(u) = {}
    \/ \E s \in GetActiveByUser(u) : ~SessionElsewhere(s, c)

SignIn(r, e, c) == \E u \in FindByEmail(e) :
    /\ LoginAllowed(u, c)
    /\ Start(r, [Idle EXCEPT !.op = "signIn", !.call = "open", !.email = e,
                             !.client = c, !.user = u])
    /\ Claim(u)
    /\ UNCHANGED <<rows, broken, failures>>

(* No handler has the pattern of the message: the request is answered with *)
(* an error, before it makes a token, and its session stays.               *)
MembershipUnanswered(r) ==
    /\ At(r, "member")
    /\ End(r)
    /\ UNCHANGED <<rows, history>>

(***************************************************************************)
(* GET email-verification-ms/verify-email: a token past its hour is        *)
(* removed and refused. One in time is found and stays as it is:           *)
(* user.updateUser is a cold observable nobody subscribes to.              *)
(***************************************************************************)
GetEmailVerificationToken(u) == {v \in {u} : tokens[v] = "stored"}

VerifyEmail(u) ==
    /\ GetEmailVerificationToken(u) # {}
    /\ tokens' = [tokens EXCEPT ![u] = "removed"]
    /\ UNCHANGED <<users, sessions, members, roles, flight, history>>

(***************************************************************************)
(* Time, and what goes wrong: a call throws, its answer is lost after the  *)
(* handler did its work, or the process ends. The client sees an error.    *)
(***************************************************************************)
Fail(r) ==
    /\ flight[r] # Idle
    /\ failures < MaxFailures
    /\ failures' = failures + 1
    /\ IF flight[r].op = "signUp" /\ flight[r].user # 0
       THEN Break(flight[r].user) ELSE UNCHANGED broken
    /\ End(r)
    /\ UNCHANGED <<rows, overlapped>>

Step(r) ==
    \/ \E e \in Email, c \in Client : SignUp(r, e, c) \/ SignIn(r, e, c)
    \/ CreateUser(r) \/ CreateSession(r)
    \/ OrganizationRefused(r) \/ CreateMembership(r)
    \/ RoleMissing(r) \/ CreateUserRole(r) \/ VerificationRequested(r)
    \/ MembershipUnanswered(r)
    \/ Fail(r)

Next ==
    \/ \E r \in Request : Step(r)
    \/ \E u \in DOMAIN users : VerifyEmail(u)

Spec == Init /\ [][Next]_vars

(***************************************************************************)
(* Properties.                                                             *)
(***************************************************************************)
SigningUp(u) == \E r \in Request : flight[r].user = u /\ flight[r].op = "signUp"

(* The rows of four modules tell the same account: a user whose sign-up is *)
(* over, and did not stop half-way, is a member, has a role and a session, *)
(* and was sent a token. A sign-up that stopped half-way is recorded in    *)
(* broken, not repaired: auth.service undoes none of its calls.            *)
AccountsWhole == \A u \in DOMAIN users \ broken :
    SigningUp(u) \/ /\ u \in members \cap roles
                    /\ GetActiveByUser(u) # {}
                    /\ tokens[u] # "none"

(* One client at a time: the sessions of a user all belong to the client   *)
(* that signed up or in first, unless two requests of his were in flight   *)
(* together (validateLogin's check and the INSERT it allows are two calls).*)
SessionsInTurn == \A u \in DOMAIN users \ overlapped :
    \A s, x \in GetActiveByUser(u) : sessions[s].client = sessions[x].client

(* The clients a user's sessions were opened from, or are about to be.      *)
ClientsOf(u) == {sessions[s].client : s \in GetActiveByUser(u)}
Entering(u) == {flight[r].client : r \in {q \in Request : At(q, "open") /\ flight[q].user = u}}

(* The race of the sign-ins ends with the first session. From then on no   *)
(* client gets in that has no session of the user and had not passed       *)
(* validateLogin before, however the requests overlap and fail. As nothing *)
(* that is reached ends a session, whoever is late is locked out for good, *)
(* the session of an answered error included.                              *)
LockedIn == [][\A u \in DOMAIN users : ClientsOf(u) # {} =>
    (ClientsOf(u) \cup Entering(u))' \subseteq ClientsOf(u) \cup Entering(u)]_vars
===============================================================================
