--------------------------- MODULE IdentityProofs ---------------------------
(***************************************************************************)
(* What Identity promises for every set of addresses, clients and requests *)
(* and every number of failures: its types, that the rows of four modules  *)
(* tell the same account, that a user is signed in from one client at a    *)
(* time, and that his first session locks every later client out.          *)
(***************************************************************************)
EXTENDS Identity, TLAPS

(***************************************************************************)
(* The tables, to which rows are only appended.                            *)
(***************************************************************************)
LEMMA UserAppended ==
    ASSUME users \in Seq(Email), NEW e \in Email
    PROVE  /\ NewUser(e) \in Seq(Email) /\ Len(NewUser(e)) = Len(users) + 1
           /\ DOMAIN NewUser(e) = DOMAIN users \cup {Len(users) + 1}
           /\ Len(users) + 1 \notin DOMAIN users
  BY DEF NewUser

LEMMA SessionAppended ==
    ASSUME sessions \in Seq(Session), NEW u \in UserId, NEW c \in Client
    PROVE  /\ NewSession(u, c) \in Seq(Session) /\ Len(NewSession(u, c)) = Len(sessions) + 1
           /\ DOMAIN NewSession(u, c) = DOMAIN sessions \cup {Len(sessions) + 1}
           /\ \A s \in DOMAIN sessions : NewSession(u, c)[s] = sessions[s]
           /\ NewSession(u, c)[Len(sessions) + 1] = [user |-> u, client |-> c]
           /\ Len(sessions) + 1 \notin DOMAIN sessions
<1> DEFINE x == [user |-> u, client |-> c]
<1>1. x \in Session
  BY DEF Session
<1> HIDE DEF x
<1>2. NewSession(u, c) = Append(sessions, x)
  BY DEF NewSession, x
<1>3. /\ Append(sessions, x) \in Seq(Session) /\ Len(Append(sessions, x)) = Len(sessions) + 1
      /\ \A s \in DOMAIN sessions : Append(sessions, x)[s] = sessions[s]
      /\ Append(sessions, x)[Len(sessions) + 1] = x
      /\ DOMAIN Append(sessions, x) = DOMAIN sessions \cup {Len(sessions) + 1}
      /\ Len(sessions) + 1 \notin DOMAIN sessions
  BY <1>1
<1> QED
  BY <1>2, <1>3 DEF x

(***************************************************************************)
(* What the steps do to the requests.                                      *)
(***************************************************************************)
LEMMA IdleIsFlight ==
    Idle \in Flight /\ Idle.op = "none" /\ Idle.call = "none" /\ Idle.user = 0
  BY IdentityAssumption DEF Idle, Flight

LEMMA OneMoves ==
    ASSUME TypeOK, NEW r \in Request, NEW h, flight' = [flight EXCEPT ![r] = h]
    PROVE  /\ flight'[r] = h /\ \A q \in Request : q # r => flight'[q] = flight[q]
           /\ h \in Flight => flight' \in [Request -> Flight]
  BY DEF TypeOK

LEMMA EndDoes ==
    ASSUME TypeOK, NEW r \in Request, End(r)
    PROVE  /\ flight'[r].op = "none" /\ flight'[r].call = "none" /\ flight'[r].user = 0
           /\ flight' \in [Request -> Flight]
           /\ \A q \in Request : q # r => flight'[q] = flight[q]
  BY IdleIsFlight, OneMoves DEF End

LEMMA NextCalls ==
    ASSUME NEW r
    PROVE  /\ flight[r].op = "signUp" =>
                /\ flight[r].call = "create" => NextCall(r) = "open"
                /\ flight[r].call = "open" => NextCall(r) = "join"
                /\ flight[r].call = "join" => NextCall(r) = "role"
                /\ flight[r].call = "role" => NextCall(r) = "mail"
           /\ flight[r].op = "signIn" /\ flight[r].call = "open" => NextCall(r) = "member"
  BY DEF NextCall, Calls, SignUpCalls, SignInCalls

LEMMA ContinueDoes ==
    ASSUME TypeOK, NEW r \in Request, Continue(r), flight[r].call \in {"open", "join", "role"}
    PROVE  /\ flight'[r].op = flight[r].op /\ flight'[r].user = flight[r].user
           /\ flight[r].call = "open" =>
                \/ flight[r].op = "signUp" /\ flight'[r].call = "join"
                \/ flight[r].op = "signIn" /\ flight'[r].call = "member"
           /\ flight[r].call = "join" => flight[r].op = "signUp" /\ flight'[r].call = "role"
           /\ flight[r].call = "role" => flight[r].op = "signUp" /\ flight'[r].call = "mail"
           /\ flight' \in [Request -> Flight]
           /\ \A q \in Request : q # r => flight'[q] = flight[q]
<1> DEFINE h == [flight[r] EXCEPT !.call = NextCall(r)]
<1>1. flight[r] \in Flight /\ RequestOK(r)
  BY DEF TypeOK
<1>2. /\ flight[r].call = "open" =>
           \/ flight[r].op = "signUp" /\ NextCall(r) = "join"
           \/ flight[r].op = "signIn" /\ NextCall(r) = "member"
      /\ flight[r].call = "join" => flight[r].op = "signUp" /\ NextCall(r) = "role"
      /\ flight[r].call = "role" => flight[r].op = "signUp" /\ NextCall(r) = "mail"
  BY <1>1, NextCalls DEF RequestOK
<1>3. NextCall(r) \in {"join", "role", "mail", "member"}
  BY <1>2
<1>4. /\ h.op = flight[r].op /\ h.call = NextCall(r) /\ h.user = flight[r].user
      /\ h \in Flight
  BY <1>1, <1>3 DEF Flight
<1>5. flight' = [flight EXCEPT ![r] = h]
  BY DEF Continue
<1> HIDE DEF h
<1> QED
  BY <1>2, <1>4, <1>5, OneMoves

(* A sign-up that goes on with the user it created.                         *)
LEMMA UserCreated ==
    ASSUME TypeOK, NEW r \in Request, CreateUser(r)
    PROVE  /\ flight[r].op = "signUp" /\ flight[r].user = 0 /\ flight[r].call = "create"
           /\ flight' \in [Request -> Flight]
           /\ \A q \in Request : q # r => flight'[q] = flight[q]
           /\ \/ End(r) /\ users' = users
              \/ /\ users' \in Seq(Email) /\ Len(users') <= MaxUsers
                 /\ Len(users') = Len(users) + 1
                 /\ DOMAIN users' = DOMAIN users \cup {Len(users')}
                 /\ Len(users') \notin DOMAIN users
                 /\ flight'[r].op = "signUp" /\ flight'[r].call = "open"
                 /\ flight'[r].user = Len(users') /\ flight'[r].client \in Client
<1>1. /\ flight[r] \in Flight /\ flight[r].call = "create" /\ flight[r].op = "signUp"
      /\ flight[r].user = 0 /\ flight[r].client \in Client
  BY DEF TypeOK, CreateUser, At, RequestOK
<1>2. CASE FindByEmail(flight[r].email) # {}
  BY <1>1, <1>2, EndDoes DEF CreateUser
<1>3. CASE FindByEmail(flight[r].email) = {}
  <2> DEFINE n == Len(users')
  <2> DEFINE h == [flight[r] EXCEPT !.user = n, !.call = "open"]
  <2>1. /\ Len(users) < MaxUsers /\ users' = NewUser(flight[r].email)
        /\ flight' = [flight EXCEPT ![r].user = n, ![r].call = NextCall(r)]
    BY <1>3 DEF CreateUser
  <2>2. flight[r].email \in Email /\ users \in Seq(Email) /\ NextCall(r) = "open"
    BY <1>1, NextCalls DEF TypeOK, Flight
  <2>3. /\ users' \in Seq(Email) /\ n = Len(users) + 1
        /\ DOMAIN users' = DOMAIN users \cup {n} /\ n \notin DOMAIN users
    BY <2>1, <2>2, UserAppended
  <2>4. n \in 0..MaxUsers /\ n <= MaxUsers
    <3>1. Len(users) \in Nat /\ MaxUsers \in Nat
      BY <2>2, IdentityAssumption
    <3> QED
      BY <3>1, <2>1, <2>3
  <2>5. flight' = [flight EXCEPT ![r] = h]
    BY <2>1, <2>2 DEF TypeOK
  <2> HIDE DEF n
  <2>6. /\ h \in Flight /\ h.op = "signUp" /\ h.call = "open" /\ h.user = n
        /\ h.client = flight[r].client
    BY <1>1, <2>4 DEF Flight
  <2> HIDE DEF h
  <2> QED
    BY <1>1, <2>3, <2>4, <2>5, <2>6, OneMoves DEF n
<1> QED
  BY <1>2, <1>3

LEMMA SessionCreated ==
    ASSUME TypeOK, NEW r \in Request, CreateSession(r)
    PROVE  /\ flight[r].user \in DOMAIN users /\ flight[r].client \in Client
           /\ flight[r].call = "open" /\ Continue(r)
           /\ sessions' \in Seq(Session) /\ Len(sessions') <= MaxSessions
           /\ DOMAIN sessions' = DOMAIN sessions \cup {Len(sessions')}
           /\ Len(sessions') \notin DOMAIN sessions
           /\ \A s \in DOMAIN sessions : sessions'[s] = sessions[s]
           /\ sessions'[Len(sessions')].user = flight[r].user
           /\ sessions'[Len(sessions')].client = flight[r].client
<1> DEFINE u == flight[r].user
           c == flight[r].client
<1>1. /\ u \in DOMAIN users /\ c \in Client /\ flight[r].call = "open" /\ Continue(r)
      /\ u \in UserId
  BY IdentityAssumption DEF TypeOK, RequestOK, CreateSession, At, UserId
<1>2. sessions \in Seq(Session) /\ sessions' = NewSession(u, c) /\ Len(sessions) < MaxSessions
  BY DEF TypeOK, CreateSession
<1> HIDE DEF u, c
<1>3. /\ sessions' \in Seq(Session) /\ Len(sessions') = Len(sessions) + 1
      /\ DOMAIN sessions' = DOMAIN sessions \cup {Len(sessions) + 1}
      /\ \A s \in DOMAIN sessions : sessions'[s] = sessions[s]
      /\ sessions'[Len(sessions) + 1] = [user |-> u, client |-> c]
      /\ Len(sessions) + 1 \notin DOMAIN sessions
  BY <1>1, <1>2, SessionAppended
<1>4. Len(sessions) + 1 <= MaxSessions
  BY <1>2, IdentityAssumption
<1> QED
  BY <1>1, <1>3, <1>4 DEF u, c

(* A sign-up or sign-in that starts.                                        *)
LEMMA Started ==
    ASSUME TypeOK, NEW r \in Request, NEW e \in Email, NEW c \in Client
    PROVE  /\ SignUp(r, e, c) =>
                /\ flight[r] = Idle /\ flight' \in [Request -> Flight]
                /\ \A q \in Request : q # r => flight'[q] = flight[q]
                /\ flight'[r].op = "signUp" /\ flight'[r].call = "create"
                /\ flight'[r].user = 0 /\ flight'[r].client = c
           /\ SignIn(r, e, c) => \E u \in DOMAIN users :
                /\ flight[r] = Idle /\ flight' \in [Request -> Flight]
                /\ \A q \in Request : q # r => flight'[q] = flight[q]
                /\ flight'[r].op = "signIn" /\ flight'[r].call = "open"
                /\ flight'[r].user = u /\ flight'[r].client = c
                /\ LoginAllowed(u, c) /\ Claim(u)
                /\ UNCHANGED <<rows, broken, failures>>
<1>1. ASSUME SignUp(r, e, c)
      PROVE  /\ flight[r] = Idle /\ flight' \in [Request -> Flight]
             /\ \A q \in Request : q # r => flight'[q] = flight[q]
             /\ flight'[r].op = "signUp" /\ flight'[r].call = "create"
             /\ flight'[r].user = 0 /\ flight'[r].client = c
  <2> DEFINE h == [Idle EXCEPT !.op = "signUp", !.call = "create", !.email = e, !.client = c]
  <2>1. flight[r] = Idle /\ flight' = [flight EXCEPT ![r] = h]
    BY <1>1 DEF SignUp, Start
  <2>2. /\ h \in Flight /\ h.op = "signUp" /\ h.call = "create" /\ h.user = 0
        /\ h.client = c
    BY IdleIsFlight DEF Flight
  <2> HIDE DEF h
  <2> QED
    BY <2>1, <2>2, OneMoves
<1>2. ASSUME NEW u \in FindByEmail(e), LoginAllowed(u, c), Claim(u),
             UNCHANGED <<rows, broken, failures>>,
             Start(r, [Idle EXCEPT !.op = "signIn", !.call = "open", !.email = e,
                                   !.client = c, !.user = u])
      PROVE  /\ flight[r] = Idle /\ flight' \in [Request -> Flight]
             /\ \A q \in Request : q # r => flight'[q] = flight[q]
             /\ flight'[r].op = "signIn" /\ flight'[r].call = "open"
             /\ flight'[r].user = u /\ flight'[r].client = c /\ u \in DOMAIN users
  <2> DEFINE h == [Idle EXCEPT !.op = "signIn", !.call = "open", !.email = e,
                               !.client = c, !.user = u]
  <2>1. flight[r] = Idle /\ flight' = [flight EXCEPT ![r] = h]
    BY <1>2 DEF Start
  <2>2. u \in DOMAIN users /\ u \in 0..MaxUsers
    BY IdentityAssumption DEF FindByEmail, TypeOK
  <2>3. /\ h \in Flight /\ h.op = "signIn" /\ h.call = "open" /\ h.user = u
        /\ h.client = c
    BY <2>2, IdentityAssumption DEF Idle, Flight
  <2> HIDE DEF h
  <2> QED
    BY <2>1, <2>2, <2>3, OneMoves
<1> QED
  BY <1>1, <1>2 DEF SignIn

(***************************************************************************)
(* Types.                                                                  *)
(***************************************************************************)
LEMMA TypeInit == Init => TypeOK
<1> SUFFICES ASSUME Init
             PROVE  TypeOK
  OBVIOUS
<1>1. /\ users = <<>> /\ sessions = <<>> /\ members = {} /\ roles = {}
      /\ tokens = [u \in UserId |-> "none"] /\ flight = [r \in Request |-> Idle]
      /\ overlapped = {} /\ broken = {} /\ failures = 0
  BY DEF Init
<1>2. flight \in [Request -> Flight] /\ \A r \in Request : RequestOK(r)
  BY <1>1, IdleIsFlight DEF RequestOK
<1>3. users \in Seq(Email) /\ sessions \in Seq(Session) /\ Len(users) = 0 /\ Len(sessions) = 0
  BY <1>1
<1> QED
  BY <1>1, <1>2, <1>3, IdentityAssumption DEF TypeOK, Token

(* What the step of one request leaves of the others.                       *)
LEMMA OthersStay ==
    ASSUME TypeOK, NEW r \in Request, \A q \in Request : q # r => flight'[q] = flight[q],
           DOMAIN users \subseteq DOMAIN users', members \subseteq members', RequestOK(r)'
    PROVE  \A q \in Request : RequestOK(q)'
<1> SUFFICES ASSUME NEW q \in Request, q # r
             PROVE  RequestOK(q)'
  OBVIOUS
<1>1. RequestOK(q) /\ flight'[q] = flight[q]
  BY DEF TypeOK
<1> QED
  BY <1>1 DEF RequestOK

LEMMA EndedType ==
    ASSUME TypeOK, NEW r \in Request, End(r), UNCHANGED <<users, sessions, members, roles>>,
           tokens' \in [UserId -> Token], overlapped' = overlapped,
           broken' \subseteq DOMAIN users, failures' \in 0..MaxFailures
    PROVE  TypeOK'
<1>1. RequestOK(r)' /\ flight' \in [Request -> Flight]
  BY EndDoes DEF RequestOK
<1>2. \A q \in Request : RequestOK(q)'
  BY <1>1, EndDoes, OthersStay
<1> QED
  BY <1>1, <1>2 DEF TypeOK

LEMMA StepType ==
    ASSUME TypeOK, NEW r \in Request, Step(r)
    PROVE  TypeOK'
<1> USE DEF rows, history
<1>0. /\ RequestOK(r) /\ flight[r] \in Flight /\ failures \in 0..MaxFailures
      /\ tokens \in [UserId -> Token] /\ broken \subseteq DOMAIN users
      /\ DOMAIN users \subseteq UserId
  BY IdentityAssumption DEF TypeOK, UserId
<1>1. ASSUME NEW e \in Email, NEW c \in Client, SignUp(r, e, c)
      PROVE  TypeOK'
  <2>1. UNCHANGED <<rows, history>>
    BY <1>1 DEF SignUp
  <2>2. RequestOK(r)' /\ flight' \in [Request -> Flight]
    BY <1>1, Started DEF RequestOK
  <2>3. \A q \in Request : RequestOK(q)'
    BY <1>1, <2>1, <2>2, Started, OthersStay
  <2> QED
    BY <2>1, <2>2, <2>3 DEF TypeOK
<1>2. ASSUME NEW e \in Email, NEW c \in Client, SignIn(r, e, c)
      PROVE  TypeOK'
  <2>1. PICK u \in DOMAIN users :
          /\ flight' \in [Request -> Flight]
          /\ \A q \in Request : q # r => flight'[q] = flight[q]
          /\ flight'[r].op = "signIn" /\ flight'[r].call = "open"
          /\ flight'[r].user = u /\ flight'[r].client = c
          /\ Claim(u) /\ UNCHANGED <<rows, broken, failures>>
    BY <1>2, Started
  <2>2. RequestOK(r)'
    BY <2>1 DEF RequestOK
  <2>3. \A q \in Request : RequestOK(q)'
    BY <2>1, <2>2, OthersStay
  <2> QED
    BY <2>1, <2>3 DEF TypeOK, Claim
<1>3. ASSUME CreateUser(r)
      PROVE  TypeOK'
  <2>1. UNCHANGED <<sessions, members, roles, tokens, history>>
    BY <1>3 DEF CreateUser
  <2>2. CASE End(r) /\ users' = users
    BY <1>0, <2>1, <2>2, EndedType
  <2>3. CASE ~(End(r) /\ users' = users)
    <3>1. /\ users' \in Seq(Email) /\ Len(users') <= MaxUsers
          /\ DOMAIN users' = DOMAIN users \cup {Len(users')}
          /\ flight'[r].op = "signUp" /\ flight'[r].call = "open"
          /\ flight'[r].user = Len(users') /\ flight'[r].client \in Client
          /\ flight' \in [Request -> Flight]
          /\ \A q \in Request : q # r => flight'[q] = flight[q]
      BY <1>3, <2>3, UserCreated
    <3>2. RequestOK(r)'
      BY <3>1 DEF RequestOK
    <3>3. \A q \in Request : RequestOK(q)'
      BY <2>1, <3>1, <3>2, OthersStay
    <3> QED
      BY <2>1, <3>1, <3>3 DEF TypeOK
  <2> QED
    BY <2>2, <2>3
<1>4. ASSUME CreateSession(r)
      PROVE  TypeOK'
  <2>1. UNCHANGED <<users, members, roles, tokens, history>>
    BY <1>4 DEF CreateSession
  <2>2. /\ flight'[r].op = flight[r].op /\ flight'[r].user = flight[r].user
        /\ \/ flight[r].op = "signUp" /\ flight'[r].call = "join"
           \/ flight[r].op = "signIn" /\ flight'[r].call = "member"
        /\ flight' \in [Request -> Flight]
        /\ \A q \in Request : q # r => flight'[q] = flight[q]
    BY <1>4, SessionCreated, ContinueDoes
  <2>3. RequestOK(r)'
    BY <1>4, <2>1, <2>2, SessionCreated DEF RequestOK
  <2>4. \A q \in Request : RequestOK(q)'
    BY <2>1, <2>2, <2>3, OthersStay
  <2>5. /\ sessions' \in Seq(Session) /\ Len(sessions') <= MaxSessions
        /\ \A s \in DOMAIN sessions' : sessions'[s].user \in DOMAIN users
    BY <1>4, SessionCreated DEF TypeOK
  <2> QED
    BY <2>1, <2>2, <2>4, <2>5 DEF TypeOK
<1>5. ASSUME OrganizationRefused(r) \/ RoleMissing(r) \/ Fail(r)
      PROVE  TypeOK'
  <2>1. End(r) /\ UNCHANGED rows /\ overlapped' = overlapped
    BY <1>5 DEF OrganizationRefused, RoleMissing, Fail
  <2>2. broken' \subseteq DOMAIN users
    BY <1>0, <1>5 DEF OrganizationRefused, RoleMissing, Fail, Break, At, RequestOK
  <2>3. failures' \in 0..MaxFailures
    BY <1>0, <1>5, IdentityAssumption DEF OrganizationRefused, RoleMissing, Fail
  <2> QED
    BY <1>0, <2>1, <2>2, <2>3, EndedType
<1>6. ASSUME CreateMembership(r)
      PROVE  TypeOK'
  <2>1. /\ members' = members \cup {flight[r].user} /\ Continue(r) /\ flight[r].call = "join"
        /\ UNCHANGED <<users, sessions, roles, tokens, history>>
    BY <1>6 DEF CreateMembership, At
  <2>2. flight[r].user \in DOMAIN users
    BY <1>0, <2>1 DEF RequestOK
  <2>3. RequestOK(r)'
    BY <2>1, <2>2, ContinueDoes DEF RequestOK
  <2>4. \A q \in Request : RequestOK(q)'
    BY <2>1, <2>3, ContinueDoes, OthersStay
  <2> QED
    BY <2>1, <2>2, <2>4, ContinueDoes DEF TypeOK
<1>7. ASSUME CreateUserRole(r)
      PROVE  TypeOK'
  <2>1. /\ roles' = roles \cup {flight[r].user} /\ Continue(r) /\ flight[r].call = "role"
        /\ UNCHANGED <<users, sessions, members, tokens, history>>
    BY <1>7 DEF CreateUserRole, At
  <2>2. flight[r].user \in members /\ flight[r].user \in DOMAIN users
    BY <1>0, <2>1 DEF RequestOK
  <2>3. RequestOK(r)'
    BY <2>1, <2>2, ContinueDoes DEF RequestOK
  <2>4. \A q \in Request : RequestOK(q)'
    BY <2>1, <2>3, ContinueDoes, OthersStay
  <2> QED
    BY <2>1, <2>2, <2>4, ContinueDoes DEF TypeOK
<1>8. ASSUME VerificationRequested(r)
      PROVE  TypeOK'
  <2>1. /\ tokens' = [tokens EXCEPT ![flight[r].user] = "stored"] /\ End(r)
        /\ UNCHANGED <<users, sessions, members, roles, history>>
    BY <1>8 DEF VerificationRequested
  <2>2. tokens' \in [UserId -> Token]
    BY <1>0, <2>1 DEF Token
  <2> QED
    BY <1>0, <2>1, <2>2, EndedType
<1>9. ASSUME MembershipUnanswered(r)
      PROVE  TypeOK'
  BY <1>0, <1>9, EndedType DEF MembershipUnanswered
<1> QED
  BY <1>1, <1>2, <1>3, <1>4, <1>5, <1>6, <1>7, <1>8, <1>9 DEF Step

LEMMA TypeStep == TypeOK /\ [Next]_vars => TypeOK'
<1> SUFFICES ASSUME TypeOK, [Next]_vars
             PROVE  TypeOK'
  OBVIOUS
<1>1. ASSUME NEW u \in DOMAIN users, VerifyEmail(u)
      PROVE  TypeOK'
  <2>1. /\ tokens' = [tokens EXCEPT ![u] = "removed"]
        /\ UNCHANGED <<users, sessions, members, roles, flight, history>>
    BY <1>1 DEF VerifyEmail
  <2>2. tokens' \in [UserId -> Token]
    BY <2>1 DEF TypeOK, Token
  <2>3. \A r \in Request : RequestOK(r)'
    BY <2>1 DEF TypeOK, RequestOK
  <2> QED
    BY <2>1, <2>2, <2>3 DEF TypeOK, history
<1>2. CASE UNCHANGED vars
  <2>1. \A r \in Request : RequestOK(r)'
    BY <1>2 DEF TypeOK, RequestOK, vars, rows
  <2> QED
    BY <1>2, <2>1 DEF TypeOK, vars, rows, history
<1> QED
  BY <1>1, <1>2, StepType DEF Next

(* The rows of four modules and the requests keep their types, what a      *)
(* request holds at each of its calls included.                            *)
THEOREM TypeCorrect == Spec => []TypeOK
<1> QED
  BY TypeInit, TypeStep, PTL DEF Spec

(***************************************************************************)
(* Sessions.                                                               *)
(***************************************************************************)
(* What a step of a request may be to the sessions: it opens none and lets *)
(* nobody in, it creates a user, it lets a client in, or it opens the      *)
(* session it was let in for.                                              *)
Passes(r) ==
    /\ sessions' = sessions /\ users' = users
    /\ flight'[r].call # "open" /\ flight'[r].user \in {0, flight[r].user}

Creates(r) ==
    /\ sessions' = sessions /\ DOMAIN users' = DOMAIN users \cup {flight'[r].user}
    /\ flight'[r].user \notin DOMAIN users

LetsIn(r, u, c) ==
    /\ UNCHANGED <<users, sessions>> /\ LoginAllowed(u, c) /\ Claim(u)
    /\ flight[r].user = 0 /\ flight'[r].user = u /\ flight'[r].client = c

Opens(r) ==
    /\ users' = users /\ flight[r].call = "open"
    /\ flight[r].user \in DOMAIN users /\ flight'[r].user = flight[r].user
    /\ flight'[r].call # "open"
    /\ DOMAIN sessions' = DOMAIN sessions \cup {Len(sessions')}
    /\ Len(sessions') \notin DOMAIN sessions
    /\ \A s \in DOMAIN sessions : sessions'[s] = sessions[s]
    /\ sessions'[Len(sessions')].user = flight[r].user
    /\ sessions'[Len(sessions')].client = flight[r].client

LEMMA SessionMoves ==
    ASSUME TypeOK, NEW r \in Request, Step(r)
    PROVE  /\ \A q \in Request : q # r => flight'[q] = flight[q]
           /\ overlapped \subseteq overlapped'
           /\ \/ Passes(r) \/ Creates(r) \/ Opens(r)
              \/ \E u \in DOMAIN users, c \in Client : LetsIn(r, u, c)
<1> USE DEF rows, history
<1>1. ASSUME NEW e \in Email, NEW c \in Client, SignUp(r, e, c)
      PROVE  /\ \A q \in Request : q # r => flight'[q] = flight[q]
             /\ overlapped \subseteq overlapped' /\ Passes(r)
  BY <1>1, Started DEF SignUp, Passes
<1>2. ASSUME NEW e \in Email, NEW c \in Client, SignIn(r, e, c)
      PROVE  /\ \A q \in Request : q # r => flight'[q] = flight[q]
             /\ overlapped \subseteq overlapped' /\ \E u \in DOMAIN users : LetsIn(r, u, c)
  BY <1>2, Started, IdleIsFlight DEF LetsIn, Claim
<1>3. ASSUME CreateUser(r)
      PROVE  /\ \A q \in Request : q # r => flight'[q] = flight[q]
             /\ overlapped \subseteq overlapped' /\ (Passes(r) \/ Creates(r))
  <2>1. UNCHANGED <<sessions, overlapped>>
    BY <1>3 DEF CreateUser
  <2> QED
    BY <1>3, <2>1, UserCreated, EndDoes DEF Passes, Creates
<1>4. ASSUME CreateSession(r)
      PROVE  /\ \A q \in Request : q # r => flight'[q] = flight[q]
             /\ overlapped \subseteq overlapped' /\ Opens(r)
  <2>1. UNCHANGED <<users, overlapped>>
    BY <1>4 DEF CreateSession
  <2> QED
    BY <1>4, <2>1, SessionCreated, ContinueDoes DEF Opens
<1>5. ASSUME \/ OrganizationRefused(r) \/ RoleMissing(r) \/ Fail(r)
             \/ VerificationRequested(r) \/ MembershipUnanswered(r)
      PROVE  /\ \A q \in Request : q # r => flight'[q] = flight[q]
             /\ overlapped \subseteq overlapped' /\ Passes(r)
  <2>1. End(r) /\ UNCHANGED <<users, sessions, overlapped>>
    BY <1>5 DEF OrganizationRefused, RoleMissing, Fail, VerificationRequested,
                MembershipUnanswered
  <2> QED
    BY <2>1, EndDoes DEF Passes
<1>6. ASSUME CreateMembership(r) \/ CreateUserRole(r)
      PROVE  /\ \A q \in Request : q # r => flight'[q] = flight[q]
             /\ overlapped \subseteq overlapped' /\ Passes(r)
  <2>1. /\ Continue(r) /\ flight[r].call \in {"join", "role"}
        /\ UNCHANGED <<users, sessions, overlapped>>
    BY <1>6 DEF CreateMembership, CreateUserRole, At
  <2>2. /\ flight'[r].user = flight[r].user /\ flight'[r].call \in {"role", "mail"}
        /\ \A q \in Request : q # r => flight'[q] = flight[q]
    BY <2>1, ContinueDoes
  <2> QED
    BY <2>1, <2>2 DEF Passes
<1> QED
  BY <1>1, <1>2, <1>3, <1>4, <1>5, <1>6 DEF Step

(* A step of nobody leaves the sessions, the users and the requests.        *)
LEMMA NobodyMoves ==
    ASSUME [Next]_vars, \A r \in Request : ~Step(r)
    PROVE  UNCHANGED <<users, sessions, flight, overlapped>>
  BY DEF Next, VerifyEmail, vars, rows, history

(* Whoever is let in beside sessions of the user has the client of one.     *)
LEMMA AllowedIsKnown ==
    ASSUME TypeOK, NEW u \in DOMAIN users, NEW c \in Client, LoginAllowed(u, c),
           GetActiveByUser(u) # {}
    PROVE  \E s \in GetActiveByUser(u) : sessions[s].client = c
<1>1. PICK s \in GetActiveByUser(u) : ~SessionElsewhere(s, c)
  BY DEF LoginAllowed
<1>2. sessions[s].client \in Ip \X Agent /\ c \in Ip \X Agent
  <2>1. sessions[s] \in Session
    BY <1>1 DEF TypeOK, GetActiveByUser
  <2> QED
    BY <2>1 DEF Session, Client
<1>3. sessions[s].client[1] = c[1] /\ sessions[s].client[2] = c[2]
  BY <1>1 DEF SessionElsewhere
<1> HIDE DEF GetActiveByUser
<1>4. sessions[s].client = c
  BY <1>2, <1>3
<1> QED
  BY <1>1, <1>4

LEMMA LockedInStep ==
    ASSUME TypeOK, [Next]_vars, NEW u \in DOMAIN users, ClientsOf(u) # {},
           NEW c \in (ClientsOf(u) \cup Entering(u))'
    PROVE  c \in ClientsOf(u) \cup Entering(u)
<1>1. CASE \A r \in Request : ~Step(r)
  <2>1. UNCHANGED <<users, sessions, flight, overlapped>>
    BY <1>1, NobodyMoves
  <2> QED
    BY <2>1 DEF ClientsOf, Entering, GetActiveByUser, At
<1>2. ASSUME NEW r \in Request, Step(r)
      PROVE  c \in ClientsOf(u) \cup Entering(u)
  <2>1. /\ \A q \in Request : q # r => flight'[q] = flight[q]
        /\ \/ Passes(r) \/ Creates(r) \/ Opens(r)
           \/ \E v \in DOMAIN users, d \in Client : LetsIn(r, v, d)
    BY <1>2, SessionMoves
  <2>2. \/ \E s \in DOMAIN sessions' : sessions'[s].user = u /\ c = sessions'[s].client
        \/ \E q \in Request :
              flight'[q].call = "open" /\ flight'[q].user = u /\ c = flight'[q].client
    BY DEF ClientsOf, Entering, GetActiveByUser, At
  <2>3. ASSUME NEW s \in DOMAIN sessions, sessions[s].user = u
        PROVE  sessions[s].client \in ClientsOf(u)
    BY <2>3 DEF ClientsOf, GetActiveByUser
  <2>4. ASSUME NEW q \in Request, flight[q].call = "open", flight[q].user = u
        PROVE  flight[q].client \in Entering(u)
    BY <2>4 DEF Entering, At
  <2>5. CASE Passes(r)
    BY <2>1, <2>2, <2>3, <2>4, <2>5 DEF Passes
  <2>6. CASE Creates(r)
    BY <2>1, <2>2, <2>3, <2>4, <2>6 DEF Creates
  <2>7. CASE Opens(r)
    BY <2>1, <2>2, <2>3, <2>4, <2>7 DEF Opens
  <2>8. ASSUME NEW v \in DOMAIN users, NEW d \in Client, LetsIn(r, v, d)
        PROVE  c \in ClientsOf(u) \cup Entering(u)
    <3>1. u = v => d \in ClientsOf(u)
      <4>1. GetActiveByUser(u) # {}
        BY DEF ClientsOf
      <4>2. u = v => \E s \in GetActiveByUser(u) : sessions[s].client = d
        BY <2>8, <4>1, AllowedIsKnown DEF LetsIn
      <4> QED
        BY <4>2 DEF ClientsOf
    <3> QED
      BY <2>1, <2>2, <2>3, <2>4, <2>8, <3>1 DEF LetsIn
  <2> QED
    BY <2>1, <2>5, <2>6, <2>7, <2>8
<1> QED
  BY <1>1, <1>2

(* Once a user has a session, no client gets in but those that have one or *)
(* had passed validateLogin by then, whatever requests overlap and fail.   *)
THEOREM FirstSessionLocksIn == Spec => LockedIn
<1>1. TypeOK /\ [Next]_vars =>
        [\A u \in DOMAIN users : ClientsOf(u) # {} =>
           (ClientsOf(u) \cup Entering(u))' \subseteq ClientsOf(u) \cup Entering(u)]_vars
  BY LockedInStep
<1> QED
  BY <1>1, TypeCorrect, PTL DEF Spec, LockedIn

(* The inductive invariant of one client at a time: of a user whose        *)
(* requests have not overlapped one request at most is in flight, and the  *)
(* client it was let in with is the client of the sessions there are.      *)
TurnOf(u) ==
    /\ \A s, x \in GetActiveByUser(u) : sessions[s].client = sessions[x].client
    /\ \A q, p \in Request : flight[q].user = u /\ flight[p].user = u => q = p
    /\ \A q \in Request, s \in DOMAIN sessions :
         /\ flight[q].call = "open" /\ flight[q].user = u /\ sessions[s].user = u
         => sessions[s].client = flight[q].client

TurnInv == \A u \in DOMAIN users \ overlapped : TurnOf(u)

LEMMA TurnInit == Init => TurnInv
  BY DEF Init, TurnInv

LEMMA KnownUsers ==
    ASSUME TypeOK
    PROVE  /\ \A q \in Request : flight[q].user # 0 => flight[q].user \in DOMAIN users
           /\ \A s \in DOMAIN sessions : sessions[s].user \in DOMAIN users
           /\ 0 \notin DOMAIN users
<1>1. \A q \in Request : RequestOK(q)
  BY DEF TypeOK
<1> QED
  BY <1>1 DEF TypeOK, RequestOK

LEMMA TurnStep == TypeOK /\ TurnInv /\ [Next]_vars => TurnInv'
<1> SUFFICES ASSUME TypeOK, TurnInv, [Next]_vars
             PROVE  TurnInv'
  OBVIOUS
<1>1. CASE \A r \in Request : ~Step(r)
  <2>1. UNCHANGED <<users, sessions, flight, overlapped>>
    BY <1>1, NobodyMoves
  <2> QED
    BY <2>1 DEF TurnInv, TurnOf, GetActiveByUser
<1>2. ASSUME NEW r \in Request, Step(r), NEW u \in DOMAIN users' \ overlapped'
      PROVE  TurnOf(u)'
  <2>1. /\ \A q \in Request : q # r => flight'[q] = flight[q]
        /\ overlapped \subseteq overlapped'
        /\ \/ Passes(r) \/ Creates(r) \/ Opens(r)
           \/ \E v \in DOMAIN users, d \in Client : LetsIn(r, v, d)
    BY <1>2, SessionMoves
  <2>2. u \in DOMAIN users => TurnOf(u)
    BY <1>2, <2>1 DEF TurnInv
  <2>3. CASE Passes(r)
    <3>1. u \in DOMAIN users /\ u # 0
      BY <1>2, <2>3, KnownUsers DEF Passes
    <3> QED
      BY <2>1, <2>2, <2>3, <3>1 DEF Passes, TurnOf, GetActiveByUser
  <2>4. CASE Creates(r)
    <3>1. CASE u \in DOMAIN users
      BY <2>1, <2>2, <2>4, <3>1 DEF Creates, TurnOf, GetActiveByUser
    <3>2. CASE u \notin DOMAIN users
      <4>1. u = flight'[r].user /\ u # 0
        <5>1. users' \in Seq(Email)
          BY <1>2, TypeStep DEF TypeOK
        <5> QED
          BY <1>2, <2>4, <3>2, <5>1 DEF Creates
      <4>2. \A s \in DOMAIN sessions : sessions[s].user # u
        BY <3>2, KnownUsers
      <4>3. \A q \in Request : flight[q].user # u
        BY <3>2, <4>1, KnownUsers
      <4> QED
        BY <2>1, <2>4, <4>2, <4>3 DEF Creates, TurnOf, GetActiveByUser
    <3> QED
      BY <3>1, <3>2
  <2>5. CASE Opens(r)
    <3>1. u \in DOMAIN users
      BY <1>2, <2>5 DEF Opens
    <3>2. \A q, p \in Request : flight'[q].user = u /\ flight'[p].user = u => q = p
      BY <2>1, <2>2, <2>5, <3>1 DEF Opens, TurnOf
    <3>3. CASE flight[r].user # u
      <4>1. GetActiveByUser(u)' = GetActiveByUser(u)
        BY <2>5, <3>3 DEF Opens, GetActiveByUser
      <4>2. \A s \in GetActiveByUser(u) : sessions'[s] = sessions[s]
        BY <2>5 DEF Opens, GetActiveByUser
      <4>3. \A s, x \in GetActiveByUser(u)' : sessions'[s].client = sessions'[x].client
        BY <2>2, <3>1, <4>1, <4>2 DEF TurnOf
      <4>4. \A q \in Request, s \in DOMAIN sessions' :
              /\ flight'[q].call = "open" /\ flight'[q].user = u /\ sessions'[s].user = u
              => sessions'[s].client = flight'[q].client
        <5>1. \A q \in Request : flight'[q].user = u => flight'[q] = flight[q]
          BY <2>1, <2>5, <3>3 DEF Opens
        <5>2. \A s \in DOMAIN sessions' : sessions'[s].user = u =>
                s \in DOMAIN sessions /\ sessions'[s] = sessions[s]
          BY <2>5, <3>3 DEF Opens
        <5>3. \A q \in Request, s \in DOMAIN sessions :
                /\ flight[q].call = "open" /\ flight[q].user = u /\ sessions[s].user = u
                => sessions[s].client = flight[q].client
          BY <2>2, <3>1 DEF TurnOf
        <5> QED
          BY <5>1, <5>2, <5>3
      <4> QED
        BY <3>2, <4>3, <4>4 DEF TurnOf
    <3>4. CASE flight[r].user = u
      <4>1. \A q \in Request : flight'[q].user = u => flight'[q].call # "open"
        BY <2>5, <3>2, <3>4 DEF Opens
      <4>2. \A s \in DOMAIN sessions' :
              sessions'[s].user = u => sessions'[s].client = flight[r].client
        BY <2>2, <2>5, <3>1, <3>4 DEF Opens, TurnOf
      <4> QED
        BY <3>2, <4>1, <4>2 DEF TurnOf, GetActiveByUser
    <3> QED
      BY <3>3, <3>4
  <2>6. ASSUME NEW v \in DOMAIN users, NEW d \in Client, LetsIn(r, v, d)
        PROVE  TurnOf(u)'
    <3>1. u \in DOMAIN users
      BY <1>2, <2>6 DEF LetsIn
    <3>2. CASE v # u
      BY <2>1, <2>2, <2>6, <3>1, <3>2 DEF LetsIn, TurnOf, GetActiveByUser
    <3>3. CASE v = u
      <4>1. \A q \in Request : flight[q].user # u
        BY <1>2, <2>6, <3>3 DEF LetsIn, Claim
      <4>2. \A s \in GetActiveByUser(u) : sessions[s].client = d
        <5>1. GetActiveByUser(u) # {} =>
                \E s \in GetActiveByUser(u) : sessions[s].client = d
          BY <2>6, <3>3, AllowedIsKnown DEF LetsIn
        <5> QED
          BY <2>2, <3>1, <5>1 DEF TurnOf
      <4>3. \A s \in DOMAIN sessions : sessions[s].user = u => sessions[s].client = d
        BY <4>2 DEF GetActiveByUser
      <4> QED
        BY <2>1, <2>6, <3>3, <4>1, <4>3 DEF LetsIn, TurnOf, GetActiveByUser
    <3> QED
      BY <3>2, <3>3
  <2> QED
    BY <2>1, <2>3, <2>4, <2>5, <2>6
<1> QED
  BY <1>1, <1>2 DEF TurnInv

(* The sessions of a user whose requests have not overlapped all belong to *)
(* one client, for every number of requests, users and failures.           *)
THEOREM OneClientAtATime == Spec => []SessionsInTurn
<1>1. TurnInv => SessionsInTurn
  BY DEF TurnInv, TurnOf, SessionsInTurn
<1> QED
  BY <1>1, TypeCorrect, TurnInit, TurnStep, PTL DEF Spec

(***************************************************************************)
(* Accounts.                                                               *)
(***************************************************************************)
Whole(u) == u \in members \cap roles /\ GetActiveByUser(u) # {} /\ tokens[u] # "none"

(* The inductive invariant of whole accounts: a sign-up has written what   *)
(* the calls before its next one write.                                    *)
Written(r) == flight[r].op = "signUp" =>
    /\ flight[r].call \in {"join", "role", "mail"} => GetActiveByUser(flight[r].user) # {}
    /\ flight[r].call = "mail" => flight[r].user \in roles

WholeInv ==
    /\ \A r \in Request : Written(r)
    /\ \A u \in DOMAIN users \ broken : SigningUp(u) \/ Whole(u)

LEMMA WholeInit == Init => WholeInv
  BY IdleIsFlight DEF Init, WholeInv, Written

(* Rows stay where they are, and the tokens that were stored are not        *)
(* forgotten.                                                              *)
Grows ==
    /\ DOMAIN sessions \subseteq DOMAIN sessions'
    /\ \A s \in DOMAIN sessions : sessions'[s] = sessions[s]
    /\ members \subseteq members' /\ roles \subseteq roles' /\ broken \subseteq broken'
    /\ \A u \in DOMAIN users : tokens[u] # "none" => tokens'[u] # "none"

(* A step of one request keeps the rest whole, if it leaves its own user   *)
(* signing up, broken or whole.                                            *)
LEMMA AccountMoves ==
    ASSUME WholeInv, Grows, NEW r \in Request, \A q \in Request : q # r => flight'[q] = flight[q],
           Written(r)', DOMAIN users \subseteq DOMAIN users',
           \A u \in DOMAIN users' \ broken' :
             u \notin DOMAIN users \/ (flight[r].op = "signUp" /\ flight[r].user = u)
               => SigningUp(u)' \/ Whole(u)'
    PROVE  WholeInv'
<1>1. ASSUME NEW u
      PROVE  GetActiveByUser(u) # {} => GetActiveByUser(u)' # {}
  BY DEF Grows, GetActiveByUser
<1>2. ASSUME NEW q \in Request
      PROVE  Written(q)'
  BY <1>1 DEF WholeInv, Written, Grows
<1>3. ASSUME NEW u \in DOMAIN users' \ broken'
      PROVE  SigningUp(u)' \/ Whole(u)'
  <2>1. CASE u \notin DOMAIN users \/ (flight[r].op = "signUp" /\ flight[r].user = u)
    BY <1>3, <2>1
  <2>2. CASE u \in DOMAIN users /\ ~(flight[r].op = "signUp" /\ flight[r].user = u)
    <3>1. SigningUp(u) \/ Whole(u)
      BY <1>3, <2>2 DEF WholeInv, Grows
    <3>2. SigningUp(u) => SigningUp(u)'
      BY <2>2 DEF SigningUp
    <3>3. Whole(u) => Whole(u)'
      BY <1>1, <2>2 DEF Whole, Grows
    <3> QED
      BY <3>1, <3>2, <3>3
  <2> QED
    BY <2>1, <2>2
<1> QED
  BY <1>2, <1>3 DEF WholeInv

LEMMA WholeStep == TypeOK /\ WholeInv /\ [Next]_vars => WholeInv'
<1> SUFFICES ASSUME TypeOK, WholeInv, [Next]_vars
             PROVE  WholeInv'
  OBVIOUS
<1> USE DEF rows, history
<1>1. ASSUME NEW r \in Request, NEW e \in Email, NEW c \in Client, SignUp(r, e, c)
      PROVE  WholeInv'
  <2>1. UNCHANGED <<rows, broken>> /\ Written(r)' /\ flight[r].op # "signUp"
    BY <1>1, Started, IdleIsFlight DEF SignUp, Written
  <2> QED
    BY <1>1, <2>1, Started, AccountMoves DEF Grows
<1>2. ASSUME NEW r \in Request, NEW e \in Email, NEW c \in Client, SignIn(r, e, c)
      PROVE  WholeInv'
  <2>1. UNCHANGED <<rows, broken>> /\ Written(r)' /\ flight[r].op # "signUp"
    BY <1>2, Started, IdleIsFlight DEF Written
  <2> QED
    BY <1>2, <2>1, Started, AccountMoves DEF Grows
<1>3. ASSUME NEW r \in Request, CreateUser(r)
      PROVE  WholeInv'
  <2>1. UNCHANGED <<sessions, members, roles, tokens, broken>> /\ Grows
    BY <1>3 DEF CreateUser, Grows
  <2>2. flight[r].user \notin DOMAIN users
    BY <1>3, UserCreated, KnownUsers
  <2>3. CASE End(r) /\ users' = users
    <3>1. Written(r)' /\ \A q \in Request : q # r => flight'[q] = flight[q]
      BY <2>3, EndDoes DEF Written
    <3> QED
      BY <2>1, <2>2, <2>3, <3>1, AccountMoves
  <2>4. CASE ~(End(r) /\ users' = users)
    <3>1. /\ flight'[r].op = "signUp" /\ flight'[r].call = "open"
          /\ DOMAIN users' = DOMAIN users \cup {flight'[r].user}
          /\ \A q \in Request : q # r => flight'[q] = flight[q]
      BY <1>3, <2>4, UserCreated
    <3>2. Written(r)'
      BY <3>1 DEF Written
    <3>3. \A u : u = flight'[r].user => SigningUp(u)'
      BY <3>1 DEF SigningUp
    <3> QED
      BY <2>1, <2>2, <3>1, <3>2, <3>3, AccountMoves
  <2> QED
    BY <2>3, <2>4
<1>4. ASSUME NEW r \in Request, CreateSession(r)
      PROVE  WholeInv'
  <2>1. UNCHANGED <<users, members, roles, tokens, broken>>
    BY <1>4 DEF CreateSession
  <2>2. /\ Grows /\ Len(sessions') \in DOMAIN sessions'
        /\ sessions'[Len(sessions')].user = flight[r].user
    BY <1>4, <2>1, SessionCreated DEF Grows
  <2>3. /\ flight'[r].op = flight[r].op /\ flight'[r].user = flight[r].user
        /\ flight'[r].call \in {"join", "member"}
        /\ \A q \in Request : q # r => flight'[q] = flight[q]
    BY <1>4, SessionCreated, ContinueDoes
  <2>4. Written(r)'
    <3> PICK u : u = flight[r].user
      OBVIOUS
    <3>1. GetActiveByUser(u)' # {}
      BY <2>2 DEF GetActiveByUser
    <3> QED
      BY <2>3, <3>1 DEF Written
  <2>5. \A u : flight[r].op = "signUp" /\ flight[r].user = u => SigningUp(u)'
    BY <2>3 DEF SigningUp
  <2> QED
    BY <2>1, <2>2, <2>3, <2>4, <2>5, AccountMoves
<1>5. ASSUME NEW r \in Request, OrganizationRefused(r) \/ RoleMissing(r) \/ Fail(r)
      PROVE  WholeInv'
  <2>1. End(r) /\ UNCHANGED rows /\ broken \subseteq broken'
    BY <1>5 DEF OrganizationRefused, RoleMissing, Fail, Break
  <2>2. flight[r].op = "signUp" /\ flight[r].user # 0 => flight[r].user \in broken'
    BY <1>5 DEF OrganizationRefused, RoleMissing, Fail, Break
  <2>3. Written(r)' /\ \A q \in Request : q # r => flight'[q] = flight[q]
    BY <2>1, EndDoes DEF Written
  <2> QED
    BY <2>1, <2>2, <2>3, KnownUsers, AccountMoves DEF Grows
<1>6. ASSUME NEW r \in Request, CreateMembership(r) \/ CreateUserRole(r)
      PROVE  WholeInv'
  <2>1. /\ Continue(r) /\ UNCHANGED <<users, sessions, tokens, broken>> /\ Grows
        /\ flight[r].call \in {"join", "role"}
    BY <1>6 DEF CreateMembership, CreateUserRole, At, Grows
  <2>2. /\ flight'[r].op = flight[r].op /\ flight'[r].user = flight[r].user
        /\ flight'[r].call \in {"role", "mail"} /\ flight[r].op = "signUp"
        /\ \A q \in Request : q # r => flight'[q] = flight[q]
    BY <2>1, ContinueDoes
  <2>3. flight'[r].call = "mail" => flight[r].user \in roles'
    BY <1>6, <2>1, ContinueDoes DEF CreateMembership, CreateUserRole, At
  <2>4. Written(r)'
    <3> PICK u : u = flight[r].user
      OBVIOUS
    <3>1. GetActiveByUser(u) # {}
      BY <2>1, <2>2 DEF WholeInv, Written
    <3>2. GetActiveByUser(u)' # {}
      BY <2>1, <3>1 DEF GetActiveByUser
    <3> QED
      BY <2>2, <2>3, <3>2 DEF Written
  <2>5. \A u : flight[r].op = "signUp" /\ flight[r].user = u => SigningUp(u)'
    BY <2>2 DEF SigningUp
  <2> QED
    BY <2>1, <2>2, <2>4, <2>5, AccountMoves
<1>7. ASSUME NEW r \in Request, VerificationRequested(r)
      PROVE  WholeInv'
  <2> PICK u : u = flight[r].user
    OBVIOUS
  <2>1. /\ tokens' = [tokens EXCEPT ![u] = "stored"] /\ End(r) /\ flight[r].call = "mail"
        /\ UNCHANGED <<users, sessions, members, roles, broken>>
    BY <1>7 DEF VerificationRequested, At
  <2>2. RequestOK(r) /\ tokens \in [UserId -> Token] /\ DOMAIN users \subseteq UserId
    BY IdentityAssumption DEF TypeOK, UserId
  <2>3. u \in DOMAIN users /\ u \in members /\ flight[r].op = "signUp"
    BY <2>1, <2>2 DEF RequestOK
  <2>4. tokens'[u] # "none" /\ Grows
    BY <2>1, <2>2, <2>3 DEF Grows
  <2>5. u \in roles /\ GetActiveByUser(u) # {}
    BY <2>1, <2>3 DEF WholeInv, Written
  <2>6. Whole(u)'
    BY <2>1, <2>3, <2>4, <2>5 DEF Whole, GetActiveByUser
  <2>7. Written(r)' /\ \A q \in Request : q # r => flight'[q] = flight[q]
    BY <2>1, EndDoes DEF Written
  <2> QED
    BY <2>1, <2>4, <2>6, <2>7, AccountMoves
<1>8. ASSUME NEW r \in Request, MembershipUnanswered(r)
      PROVE  WholeInv'
  <2>1. End(r) /\ UNCHANGED <<rows, broken>> /\ flight[r].op = "signIn"
    BY <1>8 DEF MembershipUnanswered, At, TypeOK, RequestOK
  <2>2. Written(r)' /\ \A q \in Request : q # r => flight'[q] = flight[q]
    BY <2>1, EndDoes DEF Written
  <2> QED
    BY <2>1, <2>2, AccountMoves DEF Grows
<1>9. ASSUME NEW u \in DOMAIN users, VerifyEmail(u)
      PROVE  WholeInv'
  <2>1. /\ tokens' = [tokens EXCEPT ![u] = "removed"]
        /\ UNCHANGED <<users, sessions, members, roles, flight, broken>>
    BY <1>9 DEF VerifyEmail
  <2>2. \A v \in DOMAIN users : tokens[v] # "none" => tokens'[v] # "none"
    BY <2>1 DEF TypeOK
  <2> QED
    BY <2>1, <2>2 DEF WholeInv, Written, SigningUp, Whole, GetActiveByUser
<1>10. CASE UNCHANGED vars
  BY <1>10 DEF vars, WholeInv, Written, SigningUp, Whole, GetActiveByUser
<1> QED
  BY <1>1, <1>2, <1>3, <1>4, <1>5, <1>6, <1>7, <1>8, <1>9, <1>10 DEF Next, Step

(* A user whose sign-up is over and did not stop part-way is a member, has *)
(* a role and a session and was sent a token: no transaction holds these   *)
(* rows of four modules together, the order of the calls does.             *)
THEOREM AccountsStayWhole == Spec => []AccountsWhole
<1>1. WholeInv => AccountsWhole
  BY DEF WholeInv, Whole, AccountsWhole
<1> QED
  BY <1>1, TypeCorrect, WholeInit, WholeStep, PTL DEF Spec

===============================================================================
