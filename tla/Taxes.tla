-------------------------------- MODULE Taxes --------------------------------
(***************************************************************************)
(* Electronic invoicing with AFIP: the key pairs and certificates of the   *)
(* taxpayers (pki.service), the tickets that sign their requests           *)
(* (wsaa.service) and the invoices (facturacion.service). The requests     *)
(* share a directory of temporary files, the file TRA.tmp and the ticket   *)
(* cache, and wait between any two calls.                                  *)
(*                                                                         *)
(* openssl and AFIP are external. A login is answered with a ticket, with  *)
(* something else or not at all; what wsfev1 answers is handed on as it    *)
(* came, and keeps an invoice from being sent whatever it is.              *)
(***************************************************************************)
EXTENDS Naturals, FiniteSets

CONSTANTS
    Taxpayer,    \* tax ids
    Request,     \* HTTP requests that may be in flight at a time
    None,        \* no taxpayer, no request
    MaxPairs,    \* bound on the key pairs generated
    MaxClock,    \* bound on the milliseconds of the clock
    MaxCerts,    \* bound on the certificates of a taxpayer
    MaxFailures  \* bound on calls that throw

ASSUME TaxesAssumption ==
    /\ None \notin Taxpayer \cup Request
    /\ MaxPairs \in Nat /\ MaxClock \in Nat
    /\ MaxCerts \in Nat /\ MaxFailures \in Nat

VARIABLES
    pki,         \* public_key_infrastructure, by tax id
    keyFile,     \* key-<millisecond>.pem: whose private key it holds
    now,         \* the clock in milliseconds
    traTmp,      \* TRA.tmp: whose signed request it holds
    tmpKeys,     \* ticket requests whose afip-key-<uuid>.key is on disk
    cache,       \* whose ticket is cached for a certificate of a taxpayer
    flight,      \* the call each request makes next, and its locals
    crossed,     \* history: taxpayers whose shared file another request wrote
    pairs,       \* history: key pairs generated
    failures     \* history: calls that threw

files == <<keyFile, traTmp, tmpKeys>>
history == <<crossed, pairs, failures>>
vars == <<pki, now, cache, flight, files, history>>

Certificate == 1..MaxCerts

(* csr says whose key the stored signing request was made with; there is   *)
(* no row while it is None. cert counts the certificates uploaded.         *)
PublicKeyInfrastructure == [csr : Taxpayer \cup {None}, cert : 0..MaxCerts]

(* One request: the taxpayer it is for, the clock and the certificate it   *)
(* read, and whose key or ticket it carries.                               *)
Flight == [op : {"none", "csr", "query", "invoice"},
           call : {"none", "writeKey", "req", "unlinkKey", "saveKey",
                   "build", "key", "sign", "read", "unlink", "login", "cleanup",
                   "query", "ask", "currency"},
           taxId : Taxpayer \cup {None}, at : 0..MaxClock, cert : 0..MaxCerts,
           of : Taxpayer \cup {None}]

Idle == [op |-> "none", call |-> "none", taxId |-> None, at |-> 0, cert |-> 0, of |-> None]

(* The calls of the try block: what throws in it goes on with the finally.  *)
Signing == {"sign", "read", "unlink", "login"}

RequestOK(r) ==
    /\ flight[r].call # "none" => flight[r].taxId \in Taxpayer
    /\ flight[r].call \in Signing => r \in tmpKeys

TypeOK ==
    /\ pki \in [Taxpayer -> PublicKeyInfrastructure]
    /\ keyFile \in [0..MaxClock -> Taxpayer \cup {None}]
    /\ now \in 0..MaxClock
    /\ traTmp \in Taxpayer \cup {None}
    /\ tmpKeys \subseteq Request
    /\ cache \in [Taxpayer \X Certificate -> Taxpayer \cup {None}]
    /\ flight \in [Request -> Flight]
    /\ \A t \in Taxpayer : pki[t].cert > 0 => pki[t].csr # None
    /\ \A r \in Request : RequestOK(r)
    /\ crossed \subseteq Taxpayer
    /\ pairs \in 0..MaxPairs /\ failures \in 0..MaxFailures

Init ==
    /\ pki = [t \in Taxpayer |-> [csr |-> None, cert |-> 0]]
    /\ keyFile = [m \in 0..MaxClock |-> None] /\ now = 0
    /\ traTmp = None
    /\ tmpKeys = {}
    /\ cache = [c \in Taxpayer \X Certificate |-> None]
    /\ flight = [r \in Request |-> Idle]
    /\ crossed = {} /\ pairs = 0 /\ failures = 0

At(r, call) == flight[r].call = call

Goto(r, call) == flight' = [flight EXCEPT ![r].call = call]

End(r) == flight' = [flight EXCEPT ![r] = Idle]

(* A file is written that these requests have written and not read yet.     *)
Cross(waiting) == crossed' = crossed \cup {flight[q].taxId : q \in waiting}

(***************************************************************************)
(* POST cert/csr: a private key, the signing request made with it, and a   *)
(* row that is unique by tax id. The key is handed to openssl in a file    *)
(* that is named by the clock.                                             *)
(***************************************************************************)
GenerateKey(r, t) ==
    /\ flight[r] = Idle
    /\ pairs < MaxPairs
    /\ pairs' = pairs + 1
    /\ flight' = [flight EXCEPT ![r].op = "csr", ![r].call = "writeKey", ![r].taxId = t]
    /\ UNCHANGED <<pki, now, cache, files, crossed, failures>>

WriteKey(r) ==
    /\ At(r, "writeKey")
    /\ keyFile' = [keyFile EXCEPT ![now] = flight[r].taxId]
    /\ flight' = [flight EXCEPT ![r].call = "req", ![r].at = now]
    /\ Cross({q \in Request \ {r} : At(q, "req") /\ flight[q].at = now})
    /\ UNCHANGED <<pki, now, cache, traTmp, tmpKeys, pairs, failures>>

(* openssl req reads the key from the file, and fails when it is gone.      *)
MakeCsr(r) ==
    /\ At(r, "req")
    /\ flight' = [flight EXCEPT ![r].call = "unlinkKey", ![r].of = keyFile[flight[r].at]]
    /\ UNCHANGED <<pki, now, cache, files, history>>

(* Mutation: the file is left when openssl failed. *)
UnlinkKeyOfSuccess(r) ==
    /\ At(r, "unlinkKey")
    /\ IF flight[r].of # None
       THEN /\ keyFile' = [keyFile EXCEPT ![flight[r].at] = None]
            /\ Goto(r, "saveKey")
       ELSE End(r) /\ UNCHANGED keyFile
    /\ UNCHANGED <<pki, now, cache, traTmp, tmpKeys, history>>

(* unlinkSync throws when the file is gone, and so does the finally block.  *)
UnlinkKey(r) ==
    /\ At(r, "unlinkKey")
    /\ keyFile' = [keyFile EXCEPT ![flight[r].at] = None]
    /\ IF flight[r].of = None \/ keyFile[flight[r].at] = None
       THEN End(r) ELSE Goto(r, "saveKey")
    /\ UNCHANGED <<pki, now, cache, traTmp, tmpKeys, history>>

(* The tax id is unique: the second pair of a taxpayer is thrown away.      *)
SaveKey(r) ==
    LET t == flight[r].taxId
    IN /\ At(r, "saveKey")
       /\ pki' = IF pki[t].csr = None THEN [pki EXCEPT ![t].csr = flight[r].of] ELSE pki
       /\ End(r)
       /\ UNCHANGED <<now, cache, files, history>>

(* Mutation: a certificate may be stored before there is a key pair. *)
UpsertCertX50(t) ==
    /\ pki[t].cert < MaxCerts
    /\ pki' = [pki EXCEPT ![t].cert = @ + 1]
    /\ UNCHANGED <<now, cache, flight, files, history>>

(* POST cert/certX509, with a certificate AFIP issued for the stored        *)
(* signing request. It is part of the key of the cache from here on.       *)
SaveCertX50(t) ==
    /\ pki[t].csr # None
    /\ pki[t].cert < MaxCerts
    /\ pki' = [pki EXCEPT ![t].cert = @ + 1]
    /\ UNCHANGED <<now, cache, flight, files, history>>

(***************************************************************************)
(* getAuthorizationTicket, which every wsfev1 request calls first: the     *)
(* cached ticket, or a new one for a request signed with the taxpayer's    *)
(* key. A taxpayer without a certificate is refused.                       *)
(***************************************************************************)
(* Mutation: the key of the cache is the service alone. *)
GetValidForService(t) ==
    IF \A c \in DOMAIN cache : cache[c] = None THEN None
    ELSE CHOOSE o \in Taxpayer : \E c \in DOMAIN cache : cache[c] = o

GetValid(t) == cache[<<t, pki[t].cert>>]

(* What a request does with its ticket: a query, or an invoice.             *)
UseOf(op) == IF op = "invoice" THEN "ask" ELSE "query"

GetAuthorizationTicket(r, op, t) ==
    /\ flight[r] = Idle
    /\ pki[t].cert > 0
    /\ flight' = [flight EXCEPT ![r] =
         [Idle EXCEPT !.op = op, !.taxId = t, !.cert = pki[t].cert, !.of = GetValid(t),
                      !.call = IF GetValid(t) = None THEN "build" ELSE UseOf(op)]]
    /\ UNCHANGED <<pki, now, cache, files, history>>

(* The request for a ticket and the certificate, in files of its own.       *)
BuildTra(r) ==
    /\ At(r, "build")
    /\ Goto(r, "key")
    /\ UNCHANGED <<pki, now, cache, files, history>>

WritePem(r) ==
    /\ At(r, "key")
    /\ tmpKeys' = tmpKeys \cup {r}
    /\ Goto(r, "sign")
    /\ UNCHANGED <<pki, now, cache, keyFile, traTmp, history>>

(* openssl cms runs while nothing else does, and refuses a certificate      *)
(* that is not of the key.                                                 *)
Sign(r) ==
    /\ At(r, "sign")
    /\ IF pki[flight[r].taxId].csr = flight[r].taxId
       THEN /\ traTmp' = flight[r].taxId
            /\ Goto(r, "read")
            /\ Cross({q \in Request \ {r} : At(q, "read")})
       ELSE Goto(r, "cleanup") /\ UNCHANGED <<traTmp, crossed>>
    /\ UNCHANGED <<pki, now, cache, keyFile, tmpKeys, pairs, failures>>

ReadCms(r) ==
    /\ At(r, "read")
    /\ flight' = [flight EXCEPT ![r].call = IF traTmp = None THEN "cleanup" ELSE "unlink",
                                ![r].of = traTmp]
    /\ UNCHANGED <<pki, now, cache, files, history>>

UnlinkTra(r) ==
    /\ At(r, "unlink")
    /\ traTmp' = None
    /\ flight' = [flight EXCEPT ![r].call = IF traTmp = None THEN "cleanup" ELSE "login",
                                ![r].of = IF traTmp = None THEN None ELSE @]
    /\ UNCHANGED <<pki, now, cache, keyFile, tmpKeys, history>>

(* WSAA answers a ticket for whoever's request was sent.                    *)
LoginCms(r) == flight[r].of

SaveTicket(r) ==
    /\ At(r, "login")
    /\ cache' = [cache EXCEPT ![<<flight[r].taxId, flight[r].cert>>] = LoginCms(r)]
    /\ Goto(r, "cleanup")
    /\ UNCHANGED <<pki, now, files, history>>

(* What came is no ticket, so saving it throws, or reading it where there  *)
(* is no cache.                                                            *)
TicketUnreadable(r) ==
    /\ At(r, "login")
    /\ flight' = [flight EXCEPT ![r].call = "cleanup", ![r].of = None]
    /\ UNCHANGED <<pki, now, cache, files, history>>

(* The finally block. Without a ticket the request has thrown.              *)
Cleanup(r) ==
    /\ At(r, "cleanup")
    /\ tmpKeys' = tmpKeys \ {r}
    /\ IF flight[r].of = None THEN End(r) ELSE Goto(r, UseOf(flight[r].op))
    /\ UNCHANGED <<pki, now, cache, keyFile, traTmp, history>>

(* EX: the cache drops a ticket when it expires.                            *)
ExpireTicket(c) ==
    /\ cache[c] # None
    /\ cache' = [cache EXCEPT ![c] = None]
    /\ UNCHANGED <<pki, now, flight, files, history>>

(***************************************************************************)
(* The queries of wsfev1.controller: one call each, nothing kept.          *)
(***************************************************************************)
Query(r) ==
    /\ At(r, "query")
    /\ End(r)
    /\ UNCHANGED <<pki, now, cache, files, history>>

(***************************************************************************)
(* POST wsfev1/invoice. It asks for the last invoice, which says nothing:  *)
(* the answer is the body of the envelope and has no CbteNro. A type or a  *)
(* document that is not in the tables throws before.                       *)
(***************************************************************************)
GetLastInvoice(r) ==
    /\ At(r, "ask")
    /\ Goto(r, "currency") \/ End(r)
    /\ UNCHANGED <<pki, now, cache, files, history>>

(* The currency is looked for in Moneda, which the body of an envelope does *)
(* not have either: the request ends in a TypeError and nothing is sent.   *)
GetCurrencyTypes(r) ==
    /\ At(r, "currency")
    /\ End(r)
    /\ UNCHANGED <<pki, now, cache, files, history>>

Tick ==
    /\ now < MaxClock
    /\ now' = now + 1
    /\ UNCHANGED <<pki, cache, flight, files, history>>

(* A call throws or its answer is lost: the finally blocks still run.       *)
Fail(r) ==
    /\ flight[r] # Idle
    /\ failures < MaxFailures
    /\ failures' = failures + 1
    /\ IF flight[r].call \in Signing
       THEN flight' = [flight EXCEPT ![r].call = "cleanup", ![r].of = None]
       ELSE IF flight[r].call = "req"
       THEN Goto(r, "unlinkKey")
       ELSE flight[r].call \notin {"unlinkKey", "cleanup"} /\ End(r)
    /\ UNCHANGED <<pki, now, cache, files, crossed, pairs>>

Step(r) ==
    \/ \E t \in Taxpayer : GenerateKey(r, t)
    \/ WriteKey(r) \/ MakeCsr(r) \/ UnlinkKey(r) \/ SaveKey(r)
    \/ \E op \in {"query", "invoice"}, t \in Taxpayer : GetAuthorizationTicket(r, op, t)
    \/ BuildTra(r) \/ WritePem(r) \/ Sign(r) \/ ReadCms(r) \/ UnlinkTra(r)
    \/ SaveTicket(r) \/ TicketUnreadable(r) \/ Cleanup(r)
    \/ Query(r) \/ GetLastInvoice(r) \/ GetCurrencyTypes(r)
    \/ Fail(r)

Next ==
    \/ \E r \in Request : Step(r)
    \/ \E t \in Taxpayer : SaveCertX50(t)
    \/ \E c \in DOMAIN cache : ExpireTicket(c)
    \/ Tick

Spec == Init /\ [][Next]_vars

(***************************************************************************)
(* Properties.                                                             *)
(***************************************************************************)
(* The signing request stored for a taxpayer was made with his key, and    *)
(* the tickets cached for him and carried by his requests are his, as long *)
(* as no other request wrote the shared file his was waiting to read.      *)
OwnUnlessCrossed == \A t \in Taxpayer \ crossed :
    /\ pki[t].csr \in {None, t}
    /\ \A c \in Certificate : cache[<<t, c>>] \in {None, t}
    /\ \A r \in Request : flight[r].taxId = t => flight[r].of \in {None, t}

(* A private key is on disk only while a request that has still to remove  *)
(* it is in flight, whichever call between writing the file and removing   *)
(* it throws. Removing it does not fail, nor does writing it half-way.     *)
KeysCleaned ==
    /\ \A m \in DOMAIN keyFile : keyFile[m] # None =>
         \E r \in Request : flight[r].call \in {"req", "unlinkKey"} /\ flight[r].at = m
    /\ \A r \in tmpKeys : flight[r].call \in Signing \cup {"cleanup"}
===============================================================================
