----------------------------- MODULE TaxesProofs -----------------------------
(***************************************************************************)
(* What Taxes promises for every set of taxpayers and requests and every   *)
(* number of failures: its types, that private keys do not stay on disk,   *)
(* and whose keys and tickets may be mixed up.                             *)
(***************************************************************************)
EXTENDS Taxes, TLAPS

LEMMA IdleIsFlight == Idle \in Flight
  BY TaxesAssumption DEF Idle, Flight

(* The handlers are of the right type when the one that moved is.           *)
LEMMA OneMoves ==
    ASSUME TypeOK, NEW r \in Request, NEW h \in Flight, flight' = [flight EXCEPT ![r] = h]
    PROVE  /\ flight' \in [Request -> Flight] /\ flight'[r] = h
           /\ \A q \in Request : q # r => flight'[q] = flight[q]
  BY DEF TypeOK

(* What a request does with its own locals keeps the types of all handlers. *)
LEMMA RequestMoves ==
    ASSUME TypeOK, NEW r \in Request, NEW h \in Flight, flight' = [flight EXCEPT ![r] = h],
           h.call # "none" => h.taxId \in Taxpayer, h.call \in Signing => r \in tmpKeys',
           tmpKeys \ {r} \subseteq tmpKeys'
    PROVE  flight' \in [Request -> Flight] /\ \A q \in Request : RequestOK(q)'
<1>1. /\ flight' \in [Request -> Flight] /\ flight'[r] = h
      /\ \A q \in Request : q # r => flight'[q] = flight[q]
  BY OneMoves
<1>2. RequestOK(r)'
  BY <1>1 DEF RequestOK
<1>3. ASSUME NEW q \in Request, q # r PROVE RequestOK(q)'
  <2>1. flight'[q] = flight[q] /\ RequestOK(q)
    BY <1>1, <1>3 DEF TypeOK
  <2>2. q \in tmpKeys => q \in tmpKeys'
    BY <1>3
  <2> QED
    BY <2>1, <2>2 DEF RequestOK
<1> QED
  BY <1>1, <1>2, <1>3

(* What a request in flight reads. *)
LEMMA InFlight ==
    ASSUME TypeOK, NEW r \in Request
    PROVE  /\ flight[r] \in Flight
           /\ flight[r].call # "none" => flight[r].taxId \in Taxpayer
           /\ keyFile[flight[r].at] \in Taxpayer \cup {None}
           /\ traTmp \in Taxpayer \cup {None} /\ now \in 0..MaxClock
  BY DEF TypeOK, RequestOK, Flight

(* Whoever waits for a file is a taxpayer. *)
LEMMA CrossTyped ==
    ASSUME TypeOK, NEW W \in SUBSET Request, \A q \in W : flight[q].call # "none", Cross(W)
    PROVE  crossed' \subseteq Taxpayer
  BY DEF TypeOK, RequestOK, Cross

LEMMA GotoMoves ==
    ASSUME TypeOK, NEW r \in Request, NEW c, Goto(r, c), flight[r].call # "none",
           c \in {"req", "unlinkKey", "saveKey", "build", "key", "sign", "read", "unlink",
                  "login", "cleanup", "query", "ask", "currency"},
           c \in Signing => r \in tmpKeys',
           tmpKeys \ {r} \subseteq tmpKeys'
    PROVE  flight' \in [Request -> Flight] /\ \A q \in Request : RequestOK(q)'
<1> DEFINE h == [flight[r] EXCEPT !.call = c]
<1>1. flight[r] \in Flight /\ RequestOK(r)
  BY DEF TypeOK
<1>2. h \in Flight /\ h.call = c /\ h.taxId = flight[r].taxId
  BY <1>1 DEF Flight
<1>3. flight' = [flight EXCEPT ![r] = h]
  BY DEF Goto
<1>4. h.call # "none" => h.taxId \in Taxpayer
  BY <1>1, <1>2 DEF RequestOK
<1> HIDE DEF h
<1> QED
  BY <1>2, <1>3, <1>4, RequestMoves

LEMMA EndMoves ==
    ASSUME TypeOK, NEW r \in Request, End(r), tmpKeys \ {r} \subseteq tmpKeys'
    PROVE  flight' \in [Request -> Flight] /\ \A q \in Request : RequestOK(q)'
<1>1. Idle.call = "none"
  BY DEF Idle
<1> QED
  BY <1>1, IdleIsFlight, RequestMoves DEF End, Signing

LEMMA TypeInit == Init => TypeOK
<1> SUFFICES ASSUME Init PROVE TypeOK
  OBVIOUS
<1> USE TaxesAssumption DEF Init
<1>1. flight \in [Request -> Flight]
  BY IdleIsFlight
<1>2. \A r \in Request : flight[r].call = "none"
  BY DEF Idle
<1>3. /\ pki \in [Taxpayer -> PublicKeyInfrastructure]
      /\ \A t \in Taxpayer : pki[t].cert = 0
  BY DEF PublicKeyInfrastructure
<1> QED
  BY <1>1, <1>2, <1>3 DEF TypeOK, RequestOK, Signing

LEMMA TypeStep == TypeOK /\ [Next]_vars => TypeOK'
<1> SUFFICES ASSUME TypeOK, [Next]_vars PROVE TypeOK'
  OBVIOUS
<1> USE TaxesAssumption DEF vars, files, history, At
<1>1. ASSUME NEW r \in Request, NEW t \in Taxpayer, GenerateKey(r, t) PROVE TypeOK'
  <2> DEFINE h == [Idle EXCEPT !.op = "csr", !.call = "writeKey", !.taxId = t]
  <2>1. h \in Flight /\ h.call = "writeKey" /\ h.taxId = t
    BY <1>1, IdleIsFlight DEF GenerateKey, TypeOK, RequestOK, Flight
  <2>2. flight' = [flight EXCEPT ![r] = h]
    BY <1>1 DEF GenerateKey, TypeOK
  <2> HIDE DEF h
  <2>3. flight' \in [Request -> Flight] /\ \A q \in Request : RequestOK(q)'
    BY <1>1, <2>1, <2>2, RequestMoves DEF GenerateKey, TypeOK, RequestOK, Signing
  <2> QED
    BY <1>1, <2>3 DEF GenerateKey, TypeOK
<1>2. ASSUME NEW r \in Request, WriteKey(r) PROVE TypeOK'
  <2> DEFINE h == [flight[r] EXCEPT !.call = "req", !.at = now]
  <2>1. h \in Flight /\ h.call = "req" /\ h.taxId \in Taxpayer
    <3>1. flight[r].call # "none"
      BY <1>2 DEF WriteKey
    <3> QED
      BY <3>1, InFlight DEF Flight
  <2>2. flight' = [flight EXCEPT ![r] = h]
    BY <1>2 DEF WriteKey, TypeOK
  <2> HIDE DEF h
  <2>3. flight' \in [Request -> Flight] /\ \A q \in Request : RequestOK(q)'
    BY <1>2, <2>1, <2>2, RequestMoves DEF WriteKey, TypeOK, RequestOK, Signing
  <2>4. crossed' \subseteq Taxpayer
    BY <1>2, CrossTyped DEF WriteKey
  <2>5. keyFile' \in [0..MaxClock -> Taxpayer \cup {None}]
    BY <1>2 DEF WriteKey, TypeOK, RequestOK
  <2> QED
    BY <1>2, <2>3, <2>4, <2>5 DEF WriteKey, TypeOK
<1>3. ASSUME NEW r \in Request, MakeCsr(r) PROVE TypeOK'
  <2> DEFINE h == [flight[r] EXCEPT !.call = "unlinkKey", !.of = keyFile[flight[r].at]]
  <2>1. h \in Flight /\ h.call = "unlinkKey" /\ h.taxId \in Taxpayer
    <3>1. flight[r].call # "none"
      BY <1>3 DEF MakeCsr
    <3> QED
      BY <3>1, InFlight DEF Flight
  <2>2. flight' = [flight EXCEPT ![r] = h]
    BY <1>3 DEF MakeCsr, TypeOK
  <2> HIDE DEF h
  <2>3. flight' \in [Request -> Flight] /\ \A q \in Request : RequestOK(q)'
    BY <1>3, <2>1, <2>2, RequestMoves DEF MakeCsr, TypeOK, RequestOK, Signing
  <2> QED
    BY <1>3, <2>3 DEF MakeCsr, TypeOK
<1>4. ASSUME NEW r \in Request, UnlinkKey(r) PROVE TypeOK'
  <2>1. flight' \in [Request -> Flight] /\ \A q \in Request : RequestOK(q)'
    BY <1>4, GotoMoves, EndMoves DEF UnlinkKey, TypeOK, RequestOK, Signing
  <2>2. keyFile' \in [0..MaxClock -> Taxpayer \cup {None}]
    BY <1>4 DEF UnlinkKey, TypeOK
  <2> QED
    BY <1>4, <2>1, <2>2 DEF UnlinkKey, TypeOK
<1>5. ASSUME NEW r \in Request, SaveKey(r) PROVE TypeOK'
  <2>1. flight' \in [Request -> Flight] /\ \A q \in Request : RequestOK(q)'
    BY <1>5, GotoMoves, EndMoves DEF SaveKey, TypeOK, RequestOK, Signing
  <2>2. flight[r].taxId \in Taxpayer /\ flight[r].of \in Taxpayer \cup {None}
    BY <1>5 DEF SaveKey, TypeOK, RequestOK, Flight
  <2>3. /\ pki' \in [Taxpayer -> PublicKeyInfrastructure]
        /\ \A t \in Taxpayer : pki'[t].cert > 0 => pki'[t].csr # None
    BY <1>5, <2>2 DEF SaveKey, TypeOK, PublicKeyInfrastructure
  <2> QED
    BY <1>5, <2>1, <2>3 DEF SaveKey, TypeOK
<1>6. ASSUME NEW t \in Taxpayer, SaveCertX50(t) PROVE TypeOK'
  <2>1. /\ pki' \in [Taxpayer -> PublicKeyInfrastructure]
        /\ \A u \in Taxpayer : pki'[u].cert > 0 => pki'[u].csr # None
    BY <1>6 DEF SaveCertX50, TypeOK, PublicKeyInfrastructure
  <2> QED
    BY <1>6, <2>1 DEF SaveCertX50, TypeOK, RequestOK
<1>7. ASSUME NEW r \in Request, NEW op \in {"query", "invoice"},
            NEW t \in Taxpayer, GetAuthorizationTicket(r, op, t)
      PROVE  TypeOK'
  <2> DEFINE h == [Idle EXCEPT !.op = op, !.taxId = t, !.cert = pki[t].cert,
                               !.of = GetValid(t),
                               !.call = IF GetValid(t) = None THEN "build" ELSE UseOf(op)]
  <2>0. pki[t].cert \in Certificate
    BY <1>7 DEF GetAuthorizationTicket, TypeOK, PublicKeyInfrastructure, Certificate
  <2>1. h \in Flight /\ h.call \in {"build", "query", "ask"} /\ h.taxId = t
    <3>1. GetValid(t) \in Taxpayer \cup {None} /\ pki[t].cert \in 0..MaxCerts
      BY <2>0 DEF GetValid, TypeOK, Certificate
    <3> QED
      BY <3>1, IdleIsFlight DEF UseOf, Flight
  <2>2. flight' = [flight EXCEPT ![r] = h]
    BY <1>7 DEF GetAuthorizationTicket, TypeOK
  <2> HIDE DEF h
  <2>3. flight' \in [Request -> Flight] /\ \A q \in Request : RequestOK(q)'
    BY <1>7, <2>1, <2>2, RequestMoves DEF GetAuthorizationTicket, TypeOK, RequestOK, Signing
  <2> QED
    BY <1>7, <2>3 DEF GetAuthorizationTicket, GetValid, UseOf, TypeOK
<1>8. ASSUME NEW r \in Request, BuildTra(r) PROVE TypeOK'
  <2>1. flight' \in [Request -> Flight] /\ \A q \in Request : RequestOK(q)'
    BY <1>8, GotoMoves, EndMoves DEF BuildTra, TypeOK, RequestOK, Signing
  <2> QED
    BY <1>8, <2>1 DEF BuildTra, TypeOK
<1>9. ASSUME NEW r \in Request, WritePem(r) PROVE TypeOK'
  <2>1. flight' \in [Request -> Flight] /\ \A q \in Request : RequestOK(q)'
    BY <1>9, GotoMoves, EndMoves DEF WritePem, TypeOK, RequestOK, Signing
  <2> QED
    BY <1>9, <2>1 DEF WritePem, TypeOK
<1>10. ASSUME NEW r \in Request, Sign(r) PROVE TypeOK'
  <2>1. flight' \in [Request -> Flight] /\ \A q \in Request : RequestOK(q)'
    BY <1>10, GotoMoves, EndMoves DEF Sign, TypeOK, RequestOK, Signing
  <2>2. crossed' \subseteq Taxpayer /\ traTmp' \in Taxpayer \cup {None}
    BY <1>10, CrossTyped DEF Sign, TypeOK, RequestOK
  <2> QED
    BY <1>10, <2>1, <2>2 DEF Sign, TypeOK
<1>11. ASSUME NEW r \in Request, ReadCms(r) PROVE TypeOK'
  <2> DEFINE h == [flight[r] EXCEPT !.call = IF traTmp = None THEN "cleanup" ELSE "unlink",
                                !.of = traTmp]
  <2>1. h \in Flight /\ h.call \in {"cleanup", "unlink"} /\ h.taxId \in Taxpayer
    <3>1. flight[r].call # "none"
      BY <1>11 DEF ReadCms
    <3> QED
      BY <3>1, InFlight DEF Flight
  <2>2. flight' = [flight EXCEPT ![r] = h]
    BY <1>11 DEF ReadCms, TypeOK
  <2> HIDE DEF h
  <2>3. flight' \in [Request -> Flight] /\ \A q \in Request : RequestOK(q)'
    BY <1>11, <2>1, <2>2, RequestMoves DEF ReadCms, TypeOK, RequestOK, Signing
  <2> QED
    BY <1>11, <2>3 DEF ReadCms, TypeOK
<1>12. ASSUME NEW r \in Request, UnlinkTra(r) PROVE TypeOK'
  <2> DEFINE h == [flight[r] EXCEPT !.call = IF traTmp = None THEN "cleanup" ELSE "login",
                                !.of = IF traTmp = None THEN None ELSE @]
  <2>1. h \in Flight /\ h.call \in {"cleanup", "login"} /\ h.taxId \in Taxpayer
    <3>1. flight[r].call # "none"
      BY <1>12 DEF UnlinkTra
    <3> QED
      BY <3>1, InFlight DEF Flight
  <2>2. flight' = [flight EXCEPT ![r] = h]
    BY <1>12 DEF UnlinkTra, TypeOK
  <2> HIDE DEF h
  <2>3. flight' \in [Request -> Flight] /\ \A q \in Request : RequestOK(q)'
    BY <1>12, <2>1, <2>2, RequestMoves DEF UnlinkTra, TypeOK, RequestOK, Signing
  <2> QED
    BY <1>12, <2>3 DEF UnlinkTra, TypeOK
<1>13. ASSUME NEW r \in Request, SaveTicket(r) PROVE TypeOK'
  <2>1. flight' \in [Request -> Flight] /\ \A q \in Request : RequestOK(q)'
    BY <1>13, GotoMoves, EndMoves DEF SaveTicket, TypeOK, RequestOK, Signing
  <2>2. cache' \in [Taxpayer \X Certificate -> Taxpayer \cup {None}]
    BY <1>13 DEF SaveTicket, LoginCms, TypeOK, Flight
  <2> QED
    BY <1>13, <2>1, <2>2 DEF SaveTicket, TypeOK
<1>14. ASSUME NEW r \in Request, Cleanup(r) PROVE TypeOK'
  <2>1. flight' \in [Request -> Flight] /\ \A q \in Request : RequestOK(q)'
    BY <1>14, GotoMoves, EndMoves DEF Cleanup, UseOf, TypeOK, RequestOK, Signing
  <2> QED
    BY <1>14, <2>1 DEF Cleanup, UseOf, TypeOK
<1>15. ASSUME NEW r \in Request, Query(r) PROVE TypeOK'
  <2>1. flight' \in [Request -> Flight] /\ \A q \in Request : RequestOK(q)'
    BY <1>15, GotoMoves, EndMoves DEF Query, TypeOK, RequestOK, Signing
  <2> QED
    BY <1>15, <2>1 DEF Query, TypeOK
<1>16. ASSUME NEW r \in Request, GetLastInvoice(r) PROVE TypeOK'
  <2>1. flight' \in [Request -> Flight] /\ \A q \in Request : RequestOK(q)'
    BY <1>16, GotoMoves, EndMoves DEF GetLastInvoice, TypeOK, RequestOK, Signing
  <2> QED
    BY <1>16, <2>1 DEF GetLastInvoice, TypeOK
<1>17. ASSUME NEW r \in Request, GetCurrencyTypes(r) PROVE TypeOK'
  <2>1. flight' \in [Request -> Flight] /\ \A q \in Request : RequestOK(q)'
    BY <1>17, EndMoves DEF GetCurrencyTypes, TypeOK, RequestOK, Signing
  <2> QED
    BY <1>17, <2>1 DEF GetCurrencyTypes, TypeOK
<1>18. ASSUME NEW r \in Request, TicketUnreadable(r) PROVE TypeOK'
  <2> DEFINE h == [flight[r] EXCEPT !.call = "cleanup", !.of = None]
  <2>1. h \in Flight /\ h.call = "cleanup" /\ h.taxId \in Taxpayer
    <3>1. flight[r].call # "none"
      BY <1>18 DEF TicketUnreadable
    <3> QED
      BY <3>1, InFlight DEF Flight
  <2>2. flight' = [flight EXCEPT ![r] = h]
    BY <1>18 DEF TicketUnreadable
  <2> HIDE DEF h
  <2>3. flight' \in [Request -> Flight] /\ \A q \in Request : RequestOK(q)'
    BY <1>18, <2>1, <2>2, RequestMoves DEF TicketUnreadable, Signing
  <2> QED
    BY <1>18, <2>3 DEF TicketUnreadable, TypeOK
<1>20. ASSUME NEW r \in Request, Fail(r) PROVE TypeOK'
  <2>1. CASE flight[r].call \in Signing
    <3> DEFINE h == [flight[r] EXCEPT !.call = "cleanup", !.of = None]
    <3>1. h \in Flight /\ h.call = "cleanup" /\ h.taxId \in Taxpayer
      BY <2>1 DEF TypeOK, RequestOK, Flight, Signing
    <3>2. flight' = [flight EXCEPT ![r] = h]
      BY <1>20, <2>1 DEF Fail
    <3> HIDE DEF h
    <3>3. flight' \in [Request -> Flight] /\ \A q \in Request : RequestOK(q)'
      BY <1>20, <3>1, <3>2, RequestMoves DEF Fail, Signing
    <3> QED
      BY <1>20, <3>3 DEF Fail, TypeOK
  <2>2. CASE flight[r].call \notin Signing
    <3>1. flight' \in [Request -> Flight] /\ \A q \in Request : RequestOK(q)'
      BY <1>20, <2>2, GotoMoves, EndMoves DEF Fail, Signing
    <3> QED
      BY <1>20, <3>1 DEF Fail, TypeOK
  <2> QED
    BY <2>1, <2>2
<1>21. ASSUME NEW c \in DOMAIN cache, ExpireTicket(c) PROVE TypeOK'
  BY <1>21 DEF ExpireTicket, TypeOK, RequestOK
<1>22. CASE Tick
  BY <1>22 DEF Tick, TypeOK, RequestOK
<1>23. CASE UNCHANGED vars
  BY <1>23 DEF TypeOK, RequestOK
<1>25. ASSUME NEW r \in Request, Step(r) PROVE TypeOK'
  BY <1>1, <1>2, <1>3, <1>4, <1>5, <1>7, <1>8, <1>9, <1>10, <1>11, <1>12, <1>13, <1>14,
     <1>15, <1>16, <1>17, <1>18, <1>20, <1>25 DEF Step
<1> QED
  BY <1>6, <1>21, <1>22, <1>23, <1>25 DEF Next

(* Taxes keeps its types. *)
THEOREM TypeCorrect == Spec => []TypeOK
  BY TypeInit, TypeStep, PTL DEF Spec

(***************************************************************************)
(* What the steps of a request do to its locals.                           *)
(***************************************************************************)
LEMMA GotoDoes ==
    ASSUME TypeOK, NEW r \in Request, NEW c, Goto(r, c)
    PROVE  /\ flight'[r].call = c /\ flight'[r].taxId = flight[r].taxId
           /\ flight'[r].at = flight[r].at /\ flight'[r].of = flight[r].of
           /\ \A q \in Request : q # r => flight'[q] = flight[q]
<1> DEFINE h == [flight[r] EXCEPT !.call = c]
<1>1. flight \in [Request -> Flight] /\ flight[r] \in Flight
  BY DEF TypeOK
<1>2. flight'[r] = h /\ \A q \in Request : q # r => flight'[q] = flight[q]
  BY <1>1 DEF Goto
<1> QED
  BY <1>1, <1>2 DEF Flight

LEMMA EndDoes ==
    ASSUME TypeOK, NEW r \in Request, End(r)
    PROVE  /\ flight'[r].call = "none" /\ flight'[r].taxId = None /\ flight'[r].of = None
           /\ \A q \in Request : q # r => flight'[q] = flight[q]
<1>1. flight \in [Request -> Flight]
  BY DEF TypeOK
<1> QED
  BY <1>1 DEF End, Idle

LEMMA GenerateKeyDoes ==
    ASSUME TypeOK, NEW r \in Request, NEW t \in Taxpayer, GenerateKey(r, t)
    PROVE  /\ flight[r].call = "none" /\ flight'[r].call = "writeKey"
           /\ flight'[r].taxId = t /\ flight'[r].of = None
           /\ \A q \in Request : q # r => flight'[q] = flight[q]
<1> DEFINE h == [Idle EXCEPT !.op = "csr", !.call = "writeKey", !.taxId = t]
<1>1. flight' = [flight EXCEPT ![r] = h]
  BY DEF GenerateKey, TypeOK
<1>2. flight \in [Request -> Flight] /\ flight[r] \in Flight
  BY DEF TypeOK
<1>3. flight'[r] = h /\ \A q \in Request : q # r => flight'[q] = flight[q]
  BY <1>1, <1>2
<1> QED
  <2>1. flight[r] = Idle
    BY DEF GenerateKey
  <2> QED
    BY <1>3, <2>1 DEF Idle

LEMMA WriteKeyDoes ==
    ASSUME TypeOK, NEW r \in Request, WriteKey(r)
    PROVE  /\ flight'[r].call = "req" /\ flight'[r].at = now
           /\ flight'[r].taxId = flight[r].taxId /\ flight'[r].of = flight[r].of
           /\ \A q \in Request : q # r => flight'[q] = flight[q]
<1> DEFINE h == [flight[r] EXCEPT !.call = "req", !.at = now]
<1>1. flight' = [flight EXCEPT ![r] = h]
  BY DEF WriteKey, TypeOK
<1>2. flight \in [Request -> Flight] /\ flight[r] \in Flight
  BY DEF TypeOK
<1>3. flight'[r] = h /\ \A q \in Request : q # r => flight'[q] = flight[q]
  BY <1>1, <1>2
<1> QED
  BY <1>2, <1>3 DEF Flight

LEMMA MakeCsrDoes ==
    ASSUME TypeOK, NEW r \in Request, MakeCsr(r)
    PROVE  /\ flight'[r].call = "unlinkKey" /\ flight'[r].of = keyFile[flight[r].at]
           /\ flight'[r].taxId = flight[r].taxId /\ flight'[r].at = flight[r].at
           /\ \A q \in Request : q # r => flight'[q] = flight[q]
<1> DEFINE h == [flight[r] EXCEPT !.call = "unlinkKey", !.of = keyFile[flight[r].at]]
<1>1. flight' = [flight EXCEPT ![r] = h]
  BY DEF MakeCsr, TypeOK
<1>2. flight \in [Request -> Flight] /\ flight[r] \in Flight
  BY DEF TypeOK
<1>3. flight'[r] = h /\ \A q \in Request : q # r => flight'[q] = flight[q]
  BY <1>1, <1>2
<1> QED
  BY <1>2, <1>3 DEF Flight

LEMMA GetAuthorizationTicketDoes ==
    ASSUME TypeOK, NEW r \in Request, NEW op, NEW t \in Taxpayer,
           GetAuthorizationTicket(r, op, t)
    PROVE  /\ flight[r].call = "none" /\ flight'[r].call \in {"build", "query", "ask"}
           /\ flight'[r].taxId = t /\ flight'[r].of = GetValid(t)
           /\ \A q \in Request : q # r => flight'[q] = flight[q]
<1> DEFINE h == [Idle EXCEPT !.op = op, !.taxId = t, !.cert = pki[t].cert,
                         !.of = GetValid(t),
                         !.call = IF GetValid(t) = None THEN "build" ELSE UseOf(op)]
<1>1. flight' = [flight EXCEPT ![r] = h]
  BY DEF GetAuthorizationTicket, TypeOK
<1>2. flight \in [Request -> Flight] /\ flight[r] \in Flight
  BY DEF TypeOK
<1>3. flight'[r] = h /\ \A q \in Request : q # r => flight'[q] = flight[q]
  BY <1>1, <1>2
<1> QED
  BY <1>2, <1>3 DEF Flight, GetAuthorizationTicket, UseOf, Idle

LEMMA ReadCmsDoes ==
    ASSUME TypeOK, NEW r \in Request, ReadCms(r)
    PROVE  /\ flight'[r].call \in {"cleanup", "unlink"} /\ flight'[r].of = traTmp
           /\ flight'[r].taxId = flight[r].taxId
           /\ \A q \in Request : q # r => flight'[q] = flight[q]
<1> DEFINE h == [flight[r] EXCEPT !.call = IF traTmp = None THEN "cleanup" ELSE "unlink",
                          !.of = traTmp]
<1>1. flight' = [flight EXCEPT ![r] = h]
  BY DEF ReadCms, TypeOK
<1>2. flight \in [Request -> Flight] /\ flight[r] \in Flight
  BY DEF TypeOK
<1>3. flight'[r] = h /\ \A q \in Request : q # r => flight'[q] = flight[q]
  BY <1>1, <1>2
<1> QED
  BY <1>2, <1>3 DEF Flight

LEMMA UnlinkTraDoes ==
    ASSUME TypeOK, NEW r \in Request, UnlinkTra(r)
    PROVE  /\ flight'[r].call \in {"cleanup", "login"} /\ flight'[r].of \in {None, flight[r].of}
           /\ flight'[r].taxId = flight[r].taxId
           /\ \A q \in Request : q # r => flight'[q] = flight[q]
<1> DEFINE h == [flight[r] EXCEPT !.call = IF traTmp = None THEN "cleanup" ELSE "login",
                          !.of = IF traTmp = None THEN None ELSE @]
<1>1. flight' = [flight EXCEPT ![r] = h]
  BY DEF UnlinkTra, TypeOK
<1>2. flight \in [Request -> Flight] /\ flight[r] \in Flight
  BY DEF TypeOK
<1>3. flight'[r] = h /\ \A q \in Request : q # r => flight'[q] = flight[q]
  BY <1>1, <1>2
<1> QED
  BY <1>2, <1>3 DEF Flight

LEMMA TicketUnreadableDoes ==
    ASSUME TypeOK, NEW r \in Request, TicketUnreadable(r)
    PROVE  /\ flight'[r].call = "cleanup" /\ flight'[r].of = None
           /\ \A q \in Request : q # r => flight'[q] = flight[q]
<1> DEFINE h == [flight[r] EXCEPT !.call = "cleanup", !.of = None]
<1>1. flight' = [flight EXCEPT ![r] = h]
  BY DEF TicketUnreadable
<1>2. flight \in [Request -> Flight] /\ flight[r] \in Flight
  BY DEF TypeOK
<1>3. flight'[r] = h /\ \A q \in Request : q # r => flight'[q] = flight[q]
  BY <1>1, <1>2
<1> QED
  BY <1>2, <1>3 DEF Flight

LEMMA FailDoes ==
    ASSUME TypeOK, NEW r \in Request, Fail(r)
    PROVE  /\ flight[r].call \in Signing =>
                flight'[r].call = "cleanup" /\ flight'[r].of = None
                /\ flight'[r].taxId = flight[r].taxId
           /\ flight[r].call \notin Signing =>
                \/ flight[r].call = "req" /\ Goto(r, "unlinkKey")
                \/ flight[r].call \notin {"req", "unlinkKey", "cleanup"} /\ End(r)
           /\ \A q \in Request : q # r => flight'[q] = flight[q]
<1>1. CASE flight[r].call \in Signing
  <2> DEFINE h == [flight[r] EXCEPT !.call = "cleanup", !.of = None]
  <2>1. flight' = [flight EXCEPT ![r] = h]
    BY <1>1 DEF Fail
  <2>2. flight \in [Request -> Flight] /\ flight[r] \in Flight
    BY DEF TypeOK
  <2>3. flight'[r] = h /\ \A q \in Request : q # r => flight'[q] = flight[q]
    BY <2>1, <2>2
  <2> QED
    BY <1>1, <2>2, <2>3 DEF Flight
<1>2. CASE flight[r].call \notin Signing
  <2>1. CASE flight[r].call = "req"
    <3>1. Goto(r, "unlinkKey")
      BY <1>2, <2>1 DEF Fail
    <3>2. \A q \in Request : q # r => flight'[q] = flight[q]
      BY <3>1, GotoDoes
    <3> QED
      BY <1>2, <2>1, <3>1, <3>2
  <2>2. CASE flight[r].call # "req"
    <3>1. flight[r].call \notin {"unlinkKey", "cleanup"} /\ End(r)
      BY <1>2, <2>2 DEF Fail
    <3> QED
      BY <1>2, <2>2, <3>1, EndDoes
  <2> QED
    BY <2>1, <2>2
<1> QED
  BY <1>1, <1>2

(***************************************************************************)
(* Private keys do not stay on disk.                                       *)
(***************************************************************************)
Removes(r, m) == flight[r].call \in {"req", "unlinkKey"} /\ flight[r].at = m

(* A step of a request leaves no file without a request that removes it    *)
(* when it takes care of its own.                                          *)
LEMMA KeysMove ==
    ASSUME KeysCleaned, NEW r \in Request,
           \A q \in Request : q # r => flight'[q] = flight[q],
           \A m \in DOMAIN keyFile' : keyFile'[m] # None =>
             \/ Removes(r, m)'
             \/ m \in DOMAIN keyFile /\ keyFile[m] # None /\ ~Removes(r, m),
           tmpKeys' \subseteq Request,
           \A q \in tmpKeys' : IF q = r THEN flight'[q].call \in Signing \cup {"cleanup"}
                                        ELSE q \in tmpKeys
    PROVE  KeysCleaned'
<1>1. ASSUME NEW m \in DOMAIN keyFile', keyFile'[m] # None
      PROVE  \E q \in Request : Removes(q, m)'
  <2>1. CASE Removes(r, m)'
    BY <2>1
  <2>2. CASE m \in DOMAIN keyFile /\ keyFile[m] # None /\ ~Removes(r, m)
    <3>1. PICK q \in Request : Removes(q, m)
      BY <2>2 DEF KeysCleaned, Removes
    <3>2. flight'[q] = flight[q]
      BY <2>2, <3>1
    <3> QED
      BY <3>1, <3>2 DEF Removes
  <2> QED
    BY <1>1, <2>1, <2>2
<1>2. ASSUME NEW q \in tmpKeys' PROVE flight'[q].call \in Signing \cup {"cleanup"}
  <2>1. CASE q = r
    BY <2>1
  <2>2. CASE q # r
    <3>1. flight'[q] = flight[q]
      BY <2>2
    <3>2. flight[q].call \in Signing \cup {"cleanup"}
      BY <2>2 DEF KeysCleaned
    <3> QED
      BY <3>1, <3>2
  <2> QED
    BY <2>1, <2>2
<1> QED
  BY <1>1, <1>2 DEF KeysCleaned, Removes

(* A request that leaves the files alone still removes its own later.      *)
LEMMA KeysKept ==
    ASSUME TypeOK, KeysCleaned, NEW r \in Request, UNCHANGED <<keyFile, tmpKeys>>,
           \A q \in Request : q # r => flight'[q] = flight[q],
           flight[r].call \in {"req", "unlinkKey"} =>
             flight'[r].call \in {"req", "unlinkKey"} /\ flight'[r].at = flight[r].at,
           flight[r].call \in Signing \cup {"cleanup"} =>
             flight'[r].call \in Signing \cup {"cleanup"}
    PROVE  KeysCleaned'
<1>1. \A m : Removes(r, m) => Removes(r, m)'
  BY DEF Removes
<1>2. tmpKeys \subseteq Request /\ \A q \in tmpKeys : flight[q].call \in Signing \cup {"cleanup"}
  BY DEF TypeOK, KeysCleaned
<1> QED
  BY <1>1, <1>2, KeysMove

LEMMA KeysInit == Init => KeysCleaned
  BY DEF Init, KeysCleaned

LEMMA KeysStep == TypeOK /\ KeysCleaned /\ [Next]_vars => KeysCleaned'
<1> SUFFICES ASSUME TypeOK, KeysCleaned, [Next]_vars PROVE KeysCleaned'
  OBVIOUS
<1> USE DEF vars, files, history, At
<1>0. keyFile \in [0..MaxClock -> Taxpayer \cup {None}] /\ tmpKeys \subseteq Request
  BY DEF TypeOK
<1>1. ASSUME NEW r \in Request, NEW t \in Taxpayer, GenerateKey(r, t) PROVE KeysCleaned'
  BY <1>1, GenerateKeyDoes, KeysKept DEF GenerateKey, Signing
<1>2. ASSUME NEW r \in Request, WriteKey(r) PROVE KeysCleaned'
  <2>1. \A q \in Request : q # r => flight'[q] = flight[q]
    BY <1>2, WriteKeyDoes
  <2>2. ASSUME NEW m \in DOMAIN keyFile', keyFile'[m] # None
        PROVE  \/ Removes(r, m)'
               \/ m \in DOMAIN keyFile /\ keyFile[m] # None /\ ~Removes(r, m)
    <3>1. CASE m = now
      BY <1>2, <3>1, WriteKeyDoes DEF Removes
    <3>2. CASE m # now
      BY <1>0, <1>2, <2>2, <3>2 DEF WriteKey, Removes
    <3> QED
      BY <3>1, <3>2
  <2>3. r \notin tmpKeys /\ tmpKeys' = tmpKeys
    BY <1>2 DEF WriteKey, KeysCleaned, Signing
  <2> QED
    BY <1>0, <2>1, <2>2, <2>3, KeysMove
<1>3. ASSUME NEW r \in Request, MakeCsr(r) PROVE KeysCleaned'
  BY <1>3, MakeCsrDoes, KeysKept DEF MakeCsr, Signing
<1>4. ASSUME NEW r \in Request, UnlinkKey(r) PROVE KeysCleaned'
  <2>1. \A q \in Request : q # r => flight'[q] = flight[q]
    BY <1>4, GotoDoes, EndDoes DEF UnlinkKey
  <2>2. ASSUME NEW m \in DOMAIN keyFile', keyFile'[m] # None
        PROVE  m \in DOMAIN keyFile /\ keyFile[m] # None /\ ~Removes(r, m)
    BY <1>0, <1>4, <2>2 DEF UnlinkKey, Removes
  <2>3. r \notin tmpKeys /\ tmpKeys' = tmpKeys
    BY <1>4 DEF UnlinkKey, KeysCleaned, Signing
  <2> QED
    BY <1>0, <2>1, <2>2, <2>3, KeysMove
<1>5. ASSUME NEW r \in Request, SaveKey(r) PROVE KeysCleaned'
  BY <1>5, EndDoes, KeysKept DEF SaveKey, Signing
<1>6. ASSUME NEW r \in Request, NEW op, NEW t \in Taxpayer,
             GetAuthorizationTicket(r, op, t)
      PROVE  KeysCleaned'
  BY <1>6, GetAuthorizationTicketDoes, KeysKept DEF GetAuthorizationTicket, Signing
<1>7. ASSUME NEW r \in Request, BuildTra(r) PROVE KeysCleaned'
  BY <1>7, GotoDoes, KeysKept DEF BuildTra, Signing
<1>8. ASSUME NEW r \in Request, WritePem(r) PROVE KeysCleaned'
  <2>1. flight'[r].call = "sign" /\ \A q \in Request : q # r => flight'[q] = flight[q]
    BY <1>8, GotoDoes DEF WritePem
  <2>2. keyFile' = keyFile /\ tmpKeys' = tmpKeys \cup {r} /\ \A m : ~Removes(r, m)
    BY <1>8 DEF WritePem, Removes
  <2> QED
    BY <1>0, <2>1, <2>2, KeysMove DEF Signing
<1>9. ASSUME NEW r \in Request, Sign(r) PROVE KeysCleaned'
  <2>1. /\ flight'[r].call \in {"read", "cleanup"}
        /\ \A q \in Request : q # r => flight'[q] = flight[q]
    BY <1>9, GotoDoes DEF Sign
  <2> QED
    BY <1>9, <2>1, KeysKept DEF Sign, Signing
<1>10. ASSUME NEW r \in Request, ReadCms(r) PROVE KeysCleaned'
  BY <1>10, ReadCmsDoes, KeysKept DEF ReadCms, Signing
<1>11. ASSUME NEW r \in Request, UnlinkTra(r) PROVE KeysCleaned'
  BY <1>11, UnlinkTraDoes, KeysKept DEF UnlinkTra, Signing
<1>12. ASSUME NEW r \in Request, SaveTicket(r) PROVE KeysCleaned'
  BY <1>12, GotoDoes, KeysKept DEF SaveTicket, Signing
<1>13. ASSUME NEW r \in Request, Cleanup(r) PROVE KeysCleaned'
  <2>1. \A q \in Request : q # r => flight'[q] = flight[q]
    BY <1>13, GotoDoes, EndDoes DEF Cleanup
  <2>2. keyFile' = keyFile /\ tmpKeys' = tmpKeys \ {r} /\ \A m : ~Removes(r, m)
    BY <1>13 DEF Cleanup, Removes
  <2> QED
    BY <1>0, <2>1, <2>2, KeysMove
<1>14. ASSUME NEW r \in Request, Query(r) PROVE KeysCleaned'
  BY <1>14, EndDoes, KeysKept DEF Query, Signing
<1>15. ASSUME NEW r \in Request, GetLastInvoice(r) PROVE KeysCleaned'
  <2>1. \A q \in Request : q # r => flight'[q] = flight[q]
    BY <1>15, GotoDoes, EndDoes DEF GetLastInvoice
  <2> QED
    BY <1>15, <2>1, KeysKept DEF GetLastInvoice, Signing
<1>16. ASSUME NEW r \in Request, GetCurrencyTypes(r) PROVE KeysCleaned'
  BY <1>16, EndDoes, KeysKept DEF GetCurrencyTypes, Signing
<1>17. ASSUME NEW r \in Request, TicketUnreadable(r) PROVE KeysCleaned'
  BY <1>17, TicketUnreadableDoes, KeysKept DEF TicketUnreadable, Signing
<1>19. ASSUME NEW r \in Request, Fail(r) PROVE KeysCleaned'
  <2>1. UNCHANGED <<keyFile, tmpKeys>>
    BY <1>19 DEF Fail
  <2> QED
    BY <1>19, <2>1, FailDoes, GotoDoes, KeysKept DEF Signing
<1>20. ASSUME NEW t \in Taxpayer, SaveCertX50(t) PROVE KeysCleaned'
  BY <1>20 DEF SaveCertX50, KeysCleaned
<1>21. ASSUME NEW c \in DOMAIN cache, ExpireTicket(c) PROVE KeysCleaned'
  BY <1>21 DEF ExpireTicket, KeysCleaned
<1>22. CASE Tick
  BY <1>22 DEF Tick, KeysCleaned
<1>23. CASE UNCHANGED vars
  BY <1>23 DEF KeysCleaned
<1>24. ASSUME NEW r \in Request, Step(r) PROVE KeysCleaned'
  BY <1>1, <1>2, <1>3, <1>4, <1>5, <1>6, <1>7, <1>8, <1>9, <1>10, <1>11, <1>12, <1>13, <1>14,
     <1>15, <1>16, <1>17, <1>19, <1>24 DEF Step
<1> QED
  BY <1>20, <1>21, <1>22, <1>23, <1>24 DEF Next

(* The files of the private keys, of pki.service and of ticket.signer, are *)
(* on disk only while a request that will remove them is in flight.        *)
THEOREM KeysAreCleaned == Spec => []KeysCleaned
  BY TypeInit, TypeStep, KeysInit, KeysStep, PTL DEF Spec

(***************************************************************************)
(* Whose keys and tickets may be mixed up. OwnUnlessCrossed is not         *)
(* inductive: what a request will read must be said as well.               *)
(***************************************************************************)
KeptOwn == \A t \in Taxpayer \ crossed :
    /\ pki[t].csr \in {None, t}
    /\ \A c \in Certificate : cache[<<t, c>>] \in {None, t}

CarriesOwn(r) ==
    flight[r].taxId \in Taxpayer \ crossed => flight[r].of \in {None, flight[r].taxId}

ReadsOwn(r) == flight[r].taxId \in Taxpayer \ crossed =>
    /\ flight[r].call = "req" => keyFile[flight[r].at] \in {None, flight[r].taxId}
    /\ flight[r].call = "read" => traTmp \in {None, flight[r].taxId}

OwnInv == KeptOwn /\ \A r \in Request : CarriesOwn(r) /\ ReadsOwn(r)

LEMMA OwnInvImplies == OwnInv => OwnUnlessCrossed
  BY DEF OwnInv, KeptOwn, CarriesOwn, OwnUnlessCrossed

(* A step of a request keeps the invariant when what it keeps, carries and *)
(* will read is of its taxpayer, and whoever waits for a file it writes is *)
(* crossed.                                                                *)
LEMMA OwnMoves ==
    ASSUME OwnInv, NEW r \in Request, KeptOwn', CarriesOwn(r)', ReadsOwn(r)',
           \A q \in Request : q # r => flight'[q] = flight[q],
           crossed \subseteq crossed',
           \A q \in Request \ {r} :
             /\ flight[q].call = "req" => \/ keyFile'[flight[q].at] \in {None, keyFile[flight[q].at]}
                                          \/ flight[q].taxId \in crossed'
             /\ flight[q].call = "read" => \/ traTmp' \in {None, traTmp}
                                           \/ flight[q].taxId \in crossed'
    PROVE  OwnInv'
<1>1. ASSUME NEW q \in Request, q # r PROVE CarriesOwn(q)' /\ ReadsOwn(q)'
  <2>1. flight'[q] = flight[q] /\ CarriesOwn(q) /\ ReadsOwn(q)
    BY <1>1 DEF OwnInv
  <2> QED
    BY <1>1, <2>1 DEF CarriesOwn, ReadsOwn
<1> QED
  BY <1>1 DEF OwnInv

(* A step that writes no file and keeps no key or ticket. *)
LEMMA OwnKept ==
    ASSUME OwnInv, NEW r \in Request, UNCHANGED <<pki, cache, crossed, keyFile>>,
           traTmp' \in {None, traTmp},
           CarriesOwn(r)', flight'[r].call \notin {"req", "read"},
           \A q \in Request : q # r => flight'[q] = flight[q]
    PROVE  OwnInv'
<1>1. KeptOwn' /\ ReadsOwn(r)'
  BY DEF OwnInv, KeptOwn, ReadsOwn
<1> QED
  BY <1>1, OwnMoves

(* A call that goes on carries what it carried. *)
LEMMA OwnGoto ==
    ASSUME TypeOK, OwnInv, NEW r \in Request, NEW c, Goto(r, c), UNCHANGED crossed
    PROVE  CarriesOwn(r)'
<1>1. CarriesOwn(r)
  BY DEF OwnInv
<1> QED
  BY <1>1, GotoDoes DEF CarriesOwn

LEMMA OwnEnd ==
    ASSUME TypeOK, NEW r \in Request, End(r)
    PROVE  CarriesOwn(r)'
  BY EndDoes DEF CarriesOwn

LEMMA OwnInit == Init => OwnInv
<1>1. Idle.taxId = None /\ None \notin Taxpayer
  BY TaxesAssumption DEF Idle
<1> QED
  BY <1>1 DEF Init, OwnInv, KeptOwn, CarriesOwn, ReadsOwn, Certificate

LEMMA OwnStep == TypeOK /\ OwnInv /\ [Next]_vars => OwnInv'
<1> SUFFICES ASSUME TypeOK, OwnInv, [Next]_vars PROVE OwnInv'
  OBVIOUS
<1> USE DEF vars, files, history, At
<1>0. /\ keyFile \in [0..MaxClock -> Taxpayer \cup {None}] /\ now \in 0..MaxClock
      /\ \A q \in Request : flight[q] \in Flight /\ CarriesOwn(q) /\ ReadsOwn(q)
      /\ KeptOwn /\ crossed \subseteq Taxpayer
  BY DEF TypeOK, OwnInv
<1>1. ASSUME NEW r \in Request, NEW t \in Taxpayer, GenerateKey(r, t) PROVE OwnInv'
  <2>1. CarriesOwn(r)'
    BY <1>1, GenerateKeyDoes DEF CarriesOwn
  <2> QED
    BY <1>1, <2>1, GenerateKeyDoes, OwnKept DEF GenerateKey
<1>2. ASSUME NEW r \in Request, WriteKey(r) PROVE OwnInv'
  <2>1. /\ flight'[r].call = "req" /\ flight'[r].at = now
        /\ flight'[r].taxId = flight[r].taxId /\ flight'[r].of = flight[r].of
        /\ \A q \in Request : q # r => flight'[q] = flight[q]
    BY <1>2, WriteKeyDoes
  <2>2. crossed' = crossed \cup
          {flight[q].taxId : q \in {x \in Request \ {r} : At(x, "req") /\ flight[x].at = now}}
    BY <1>2 DEF WriteKey, Cross
  <2>3. keyFile' = [keyFile EXCEPT ![now] = flight[r].taxId] /\ UNCHANGED <<pki, cache, traTmp>>
    BY <1>2 DEF WriteKey
  <2>4. KeptOwn'
    BY <1>0, <2>2, <2>3 DEF KeptOwn
  <2>5. CarriesOwn(r)' /\ ReadsOwn(r)'
    BY <1>0, <2>1, <2>2, <2>3 DEF CarriesOwn, ReadsOwn
  <2>6. ASSUME NEW q \in Request \ {r}, flight[q].call = "req"
        PROVE  \/ keyFile'[flight[q].at] \in {None, keyFile[flight[q].at]}
               \/ flight[q].taxId \in crossed'
    <3>1. CASE flight[q].at = now
      BY <2>2, <2>6, <3>1
    <3>2. CASE flight[q].at # now
      <4>1. flight[q].at \in 0..MaxClock
        BY <1>0 DEF Flight
      <4> QED
        BY <1>0, <2>3, <3>2, <4>1
    <3> QED
      BY <3>1, <3>2
  <2> QED
    BY <2>1, <2>2, <2>3, <2>4, <2>5, <2>6, OwnMoves
<1>3. ASSUME NEW r \in Request, MakeCsr(r) PROVE OwnInv'
  <2>1. CarriesOwn(r)'
    BY <1>0, <1>3, MakeCsrDoes DEF MakeCsr, CarriesOwn, ReadsOwn
  <2> QED
    BY <1>3, <2>1, MakeCsrDoes, OwnKept DEF MakeCsr
<1>4. ASSUME NEW r \in Request, UnlinkKey(r) PROVE OwnInv'
  <2>1. /\ flight'[r].call \notin {"req", "read"} /\ CarriesOwn(r)'
        /\ \A q \in Request : q # r => flight'[q] = flight[q]
    BY <1>4, GotoDoes, EndDoes, OwnGoto, OwnEnd DEF UnlinkKey
  <2>2. /\ keyFile' = [keyFile EXCEPT ![flight[r].at] = None]
        /\ UNCHANGED <<pki, cache, crossed, traTmp>>
    BY <1>4 DEF UnlinkKey
  <2>3. KeptOwn' /\ ReadsOwn(r)'
    BY <1>0, <2>1, <2>2 DEF KeptOwn, ReadsOwn
  <2>4. \A q \in Request : keyFile'[flight[q].at] \in {None, keyFile[flight[q].at]}
    BY <1>0, <2>2 DEF Flight
  <2> QED
    BY <2>1, <2>2, <2>3, <2>4, OwnMoves
<1>5. ASSUME NEW r \in Request, SaveKey(r) PROVE OwnInv'
  <2>1. /\ flight'[r].call = "none" /\ CarriesOwn(r)'
        /\ \A q \in Request : q # r => flight'[q] = flight[q]
    BY <1>5, EndDoes, OwnEnd DEF SaveKey
  <2>2. /\ pki' = IF pki[flight[r].taxId].csr = None
                  THEN [pki EXCEPT ![flight[r].taxId].csr = flight[r].of] ELSE pki
        /\ UNCHANGED <<cache, crossed, keyFile, traTmp>>
    BY <1>5 DEF SaveKey
  <2>3. pki \in [Taxpayer -> PublicKeyInfrastructure]
    BY DEF TypeOK
  <2>4. ASSUME NEW t \in Taxpayer \ crossed PROVE pki'[t].csr \in {None, t}
    <3>1. CASE pki'[t] = pki[t]
      BY <1>0, <3>1 DEF KeptOwn
    <3>2. CASE flight[r].taxId = t /\ pki' = [pki EXCEPT ![t].csr = flight[r].of]
      <4>1. pki'[t].csr = flight[r].of
        BY <2>3, <3>2 DEF PublicKeyInfrastructure
      <4> QED
        BY <1>0, <3>2, <4>1 DEF CarriesOwn
    <3> QED
      BY <2>2, <2>3, <3>1, <3>2
  <2>5. KeptOwn' /\ ReadsOwn(r)'
    BY <1>0, <2>1, <2>2, <2>4 DEF KeptOwn, ReadsOwn
  <2> QED
    BY <2>1, <2>2, <2>5, OwnMoves
<1>6. ASSUME NEW t \in Taxpayer, SaveCertX50(t) PROVE OwnInv'
  <2>1. pki \in [Taxpayer -> PublicKeyInfrastructure]
    BY DEF TypeOK
  <2>2. \A u \in Taxpayer : pki'[u].csr = pki[u].csr
    BY <1>6, <2>1 DEF SaveCertX50, PublicKeyInfrastructure
  <2>3. UNCHANGED <<cache, crossed, keyFile, traTmp, flight>>
    BY <1>6 DEF SaveCertX50
  <2> QED
    BY <2>2, <2>3 DEF OwnInv, KeptOwn, CarriesOwn, ReadsOwn
<1>7. ASSUME NEW r \in Request, NEW op, NEW t \in Taxpayer,
             GetAuthorizationTicket(r, op, t)
      PROVE  OwnInv'
  <2>1. pki[t].cert \in Certificate /\ UNCHANGED <<pki, cache, crossed, keyFile, traTmp>>
    BY <1>7 DEF GetAuthorizationTicket, TypeOK, PublicKeyInfrastructure, Certificate
  <2>2. CarriesOwn(r)'
    <3>1. flight'[r].taxId = t /\ flight'[r].of = cache[<<t, pki[t].cert>>]
      BY <1>7, GetAuthorizationTicketDoes DEF GetValid
    <3>2. t \notin crossed => cache[<<t, pki[t].cert>>] \in {None, t}
      BY <1>0, <2>1 DEF KeptOwn
    <3>3. crossed' = crossed
      BY <2>1
    <3> QED
      BY <3>1, <3>2, <3>3 DEF CarriesOwn
  <2> QED
    BY <1>7, <2>1, <2>2, GetAuthorizationTicketDoes, OwnKept
<1>8. ASSUME NEW r \in Request, BuildTra(r) PROVE OwnInv'
  BY <1>8, GotoDoes, OwnGoto, OwnKept DEF BuildTra
<1>9. ASSUME NEW r \in Request, WritePem(r) PROVE OwnInv'
  BY <1>9, GotoDoes, OwnGoto, OwnKept DEF WritePem
<1>10. ASSUME NEW r \in Request, Sign(r) PROVE OwnInv'
  <2>1. CASE pki[flight[r].taxId].csr = flight[r].taxId
    <3>1. /\ Goto(r, "read") /\ traTmp' = flight[r].taxId
          /\ crossed' = crossed \cup
               {flight[q].taxId : q \in {x \in Request \ {r} : At(x, "read")}}
          /\ UNCHANGED <<pki, cache, keyFile>>
      BY <1>10, <2>1 DEF Sign, Cross
    <3>2. /\ flight'[r].call = "read" /\ flight'[r].taxId = flight[r].taxId
          /\ flight'[r].of = flight[r].of
          /\ \A q \in Request : q # r => flight'[q] = flight[q]
      BY <3>1, GotoDoes
    <3>3. CarriesOwn(r)' /\ ReadsOwn(r)' /\ KeptOwn'
      BY <1>0, <3>1, <3>2 DEF CarriesOwn, ReadsOwn, KeptOwn
    <3>4. \A q \in Request \ {r} : flight[q].call = "read" => flight[q].taxId \in crossed'
      BY <3>1
    <3> QED
      BY <3>1, <3>2, <3>3, <3>4, OwnMoves
  <2>2. CASE pki[flight[r].taxId].csr # flight[r].taxId
    BY <1>10, <2>2, GotoDoes, OwnGoto, OwnKept DEF Sign
  <2> QED
    BY <2>1, <2>2
<1>11. ASSUME NEW r \in Request, ReadCms(r) PROVE OwnInv'
  <2>1. CarriesOwn(r)'
    BY <1>0, <1>11, ReadCmsDoes DEF ReadCms, CarriesOwn, ReadsOwn
  <2> QED
    BY <1>11, <2>1, ReadCmsDoes, OwnKept DEF ReadCms
<1>12. ASSUME NEW r \in Request, UnlinkTra(r) PROVE OwnInv'
  <2>1. CarriesOwn(r)'
    BY <1>0, <1>12, UnlinkTraDoes DEF UnlinkTra, CarriesOwn
  <2> QED
    BY <1>12, <2>1, UnlinkTraDoes, OwnKept DEF UnlinkTra
<1>13. ASSUME NEW r \in Request, SaveTicket(r) PROVE OwnInv'
  <2>1. /\ flight'[r].call = "cleanup" /\ CarriesOwn(r)'
        /\ \A q \in Request : q # r => flight'[q] = flight[q]
    BY <1>13, GotoDoes, OwnGoto DEF SaveTicket
  <2>2. /\ cache' = [cache EXCEPT ![<<flight[r].taxId, flight[r].cert>>] = flight[r].of]
        /\ UNCHANGED <<pki, crossed, keyFile, traTmp>>
    BY <1>13 DEF SaveTicket, LoginCms
  <2>3. cache \in [Taxpayer \X Certificate -> Taxpayer \cup {None}]
    BY DEF TypeOK
  <2>4. ASSUME NEW t \in Taxpayer \ crossed, NEW c \in Certificate
        PROVE  cache'[<<t, c>>] \in {None, t}
    <3>1. CASE <<t, c>> = <<flight[r].taxId, flight[r].cert>>
      BY <1>0, <2>2, <2>3, <3>1 DEF CarriesOwn
    <3>2. CASE <<t, c>> # <<flight[r].taxId, flight[r].cert>>
      BY <1>0, <2>2, <2>3, <3>2 DEF KeptOwn
    <3> QED
      BY <3>1, <3>2
  <2>5. KeptOwn' /\ ReadsOwn(r)'
    BY <1>0, <2>1, <2>2, <2>4 DEF KeptOwn, ReadsOwn
  <2> QED
    BY <2>1, <2>2, <2>5, OwnMoves
<1>14. ASSUME NEW r \in Request, Cleanup(r) PROVE OwnInv'
  <2>1. /\ flight'[r].call \notin {"req", "read"} /\ CarriesOwn(r)'
        /\ \A q \in Request : q # r => flight'[q] = flight[q]
    BY <1>14, GotoDoes, EndDoes, OwnGoto, OwnEnd DEF Cleanup, UseOf
  <2> QED
    BY <1>14, <2>1, OwnKept DEF Cleanup
<1>15. ASSUME NEW r \in Request, Query(r) PROVE OwnInv'
  BY <1>15, EndDoes, OwnEnd, OwnKept DEF Query
<1>16. ASSUME NEW r \in Request, GetLastInvoice(r) PROVE OwnInv'
  <2>1. /\ flight'[r].call \notin {"req", "read"} /\ CarriesOwn(r)'
        /\ \A q \in Request : q # r => flight'[q] = flight[q]
    BY <1>16, GotoDoes, EndDoes, OwnGoto, OwnEnd DEF GetLastInvoice
  <2> QED
    BY <1>16, <2>1, OwnKept DEF GetLastInvoice
<1>17. ASSUME NEW r \in Request, GetCurrencyTypes(r) PROVE OwnInv'
  BY <1>17, EndDoes, OwnEnd, OwnKept DEF GetCurrencyTypes
<1>18. ASSUME NEW r \in Request, TicketUnreadable(r) PROVE OwnInv'
  <2>1. CarriesOwn(r)'
    BY <1>18, TicketUnreadableDoes DEF CarriesOwn
  <2> QED
    BY <1>18, <2>1, TicketUnreadableDoes, OwnKept DEF TicketUnreadable
<1>20. ASSUME NEW r \in Request, Fail(r) PROVE OwnInv'
  <2>1. UNCHANGED <<pki, cache, crossed, keyFile, traTmp>>
    BY <1>20 DEF Fail
  <2>2. /\ flight'[r].call \notin {"req", "read"} /\ CarriesOwn(r)'
        /\ \A q \in Request : q # r => flight'[q] = flight[q]
    <3>1. CASE flight[r].call \in Signing
      BY <1>20, <3>1, FailDoes DEF CarriesOwn
    <3>2. CASE flight[r].call \notin Signing
      BY <1>20, <2>1, <3>2, FailDoes, GotoDoes, EndDoes, OwnGoto, OwnEnd
    <3> QED
      BY <3>1, <3>2
  <2> QED
    BY <2>1, <2>2, OwnKept
<1>21. ASSUME NEW c \in DOMAIN cache, ExpireTicket(c) PROVE OwnInv'
  <2>1. cache \in [Taxpayer \X Certificate -> Taxpayer \cup {None}]
    BY DEF TypeOK
  <2>2. \A d \in DOMAIN cache : cache'[d] \in {None, cache[d]}
    BY <1>21, <2>1 DEF ExpireTicket
  <2>3. UNCHANGED <<pki, crossed, keyFile, traTmp, flight>>
    BY <1>21 DEF ExpireTicket
  <2>4. KeptOwn'
    BY <1>0, <2>1, <2>2, <2>3 DEF KeptOwn
  <2> QED
    BY <2>3, <2>4 DEF OwnInv, CarriesOwn, ReadsOwn
<1>22. CASE Tick
  BY <1>22 DEF Tick, OwnInv, KeptOwn, CarriesOwn, ReadsOwn
<1>23. CASE UNCHANGED vars
  BY <1>23 DEF OwnInv, KeptOwn, CarriesOwn, ReadsOwn
<1>24. ASSUME NEW r \in Request, Step(r) PROVE OwnInv'
  BY <1>1, <1>2, <1>3, <1>4, <1>5, <1>7, <1>8, <1>9, <1>10, <1>11, <1>12, <1>13, <1>14,
     <1>15, <1>16, <1>17, <1>18, <1>20, <1>24 DEF Step
<1> QED
  BY <1>6, <1>21, <1>22, <1>23, <1>24 DEF Next

(* A taxpayer has the signing request and the tickets of another only when *)
(* another request wrote a shared file, of pki.service or ticket.signer,   *)
(* that one of his was waiting to read.                                    *)
THEOREM OwnKeysAndTickets == Spec => []OwnUnlessCrossed
<1>1. OwnInv => OwnUnlessCrossed
  BY OwnInvImplies
<1> QED
  BY <1>1, TypeInit, TypeStep, OwnInit, OwnStep, PTL DEF Spec
==============================================================================
