------------------------------- MODULE Cloud --------------------------------
(***************************************************************************)
(* The serving side the repository has: pkg/serverauth, which ties a       *)
(* partner to a connection while its TLS handshake runs, and the test      *)
(* cloud (internal/testcloud/server.go), whose handlers run concurrently   *)
(* over any number of connections in request contexts fastrpc reuses       *)
(* (pkg/contract/requestCtx.go).                                           *)
(*                                                                         *)
(* The partner is set by VerifyPeerCertificate, in the middle of the       *)
(* handshake: the peer has not proved yet that it holds the key.  A        *)
(* plaintext client, which fastrpc serves too, and a resumed TLS session   *)
(* never come by VerifyPeerCertificate.  A request is numbered, so that    *)
(* what is appended to a response tells which request it is about.         *)
(***************************************************************************)
EXTENDS Certificates, Integers, Sequences, SequencesExt

CONSTANTS
  Conns, Ctxs,      \* connections; the request contexts of fastrpc
  Certs,            \* the certificates peers present
  Requests,         \* the requests peers send
  Config,           \* the Config the server is started with
  Auth,             \* the serverauth.MTLSConfig of its TLSConfig
  MaxRequests       \* bound

Messages ==
  [name : {"target", "report", "touch", "other"}, decodes : BOOLEAN,
   payer : {"named", "missing", "malformed"}]
Statuses ==
  {"UNKNOWN", "OK", "UNAUTHORIZED", "SERVICE_UNAVAILABLE", "OUTDATED",
   "INVALID_REQUEST", "TECH_ERROR", "NETWORK_ERROR", "FORBIDDEN"}

ASSUME SetsAssumption == Conns # {} /\ Requests # {}
ASSUME CertsAssumption == Certs \subseteq Bundles
ASSUME RequestsAssumption == Requests \subseteq Messages
ASSUME ConfigAssumption ==
  Config \in [TLSConfig : BOOLEAN, TouchPartners : SUBSET Partners,
             ReportBuffer : Int, TargetStatus : Statuses]
ASSUME AuthAssumption ==
  Auth \in [Roots : SUBSET CAs, Intermediates : SUBSET CAs, RequireOCSP : BOOLEAN]
ASSUME BoundAssumption == MaxRequests \in Nat

NormalizeConfig(cfg) ==
  [cfg EXCEPT !.ReportBuffer = IF @ <= 0 THEN 8 ELSE @,
              !.TargetStatus = IF @ = "UNKNOWN" THEN "OK" ELSE @]

ReportBuffer == NormalizeConfig(Config).ReportBuffer
TargetStatus == NormalizeConfig(Config).TargetStatus

VARIABLES
  listener,         \* Server.ln, and rpc.Serve that accepts from it
  conn,             \* [Conns -> where the connection is]
  authID,           \* [Conns -> Partners \cup {Nobody}] authConn.authID
  presented,        \* history: the certificate of a finished handshake
  ctx,              \* [Ctxs -> RequestCtx]
  unauthorized, lastCaller, counter, reports,  \* of the Server
  received,         \* history: requests read so far
  accepted          \* history: reports answered OK, by number

server == <<unauthorized, lastCaller, counter, reports>>
conns == <<listener, conn, authID, presented>>
vars == <<conns, ctx, server, received, accepted>>

NoCert ==
  [leaf |-> [issuer |-> CHOOSE ca \in CAs : TRUE, sound |-> FALSE,
             good |-> FALSE, uuid |-> Nobody],
   intermediates |-> {}, itsKey |-> FALSE]
Number == 0..MaxRequests
Idle(k) == ctx[k].phase = "idle"

TypeOK ==
  /\ listener \in {"none", "open", "closed", "served"}
  /\ conn \in [Conns -> {"new", "accepted", "verified", "open", "closed"}]
  /\ authID \in [Conns -> Partners \cup {Nobody}]
  /\ presented \in [Conns -> Certs \cup {NoCert}]
  /\ ctx \in [Ctxs ->
       [phase : {"idle", "read", "serve", "done"}, n : Number, conn : Conns,
        request : Messages, status : Statuses, value : Seq(Number)]]
  /\ unauthorized \in Nat /\ counter \in Nat
  /\ lastCaller \in Partners \cup {Nobody}
  /\ reports \in Seq(Number) /\ Len(reports) <= ReportBuffer
  /\ received \in Number /\ accepted \subseteq Number

(* A context without a request: of what it still holds only the value      *)
(* could be taken for the next one's.                                      *)
Unused(value) ==
  [phase |-> "idle", n |-> 0, conn |-> CHOOSE c \in Conns : TRUE,
   request |-> CHOOSE r \in Requests : TRUE, status |-> "OK", value |-> value]

Init ==
  /\ listener = "none"
  /\ conn = [c \in Conns |-> "new"]
  /\ authID = [c \in Conns |-> Nobody]
  /\ presented = [c \in Conns |-> NoCert]
  /\ ctx = [k \in Ctxs |-> Unused(<<>>)]
  /\ unauthorized = 0 /\ lastCaller = Nobody /\ counter = 0 /\ reports = <<>>
  /\ received = 0 /\ accepted = {}

-----------------------------------------------------------------------------
(* The listener.  Without a TLS configuration nothing is listened on.      *)

Listen(from, to) ==
  /\ listener = from /\ listener' = to
  /\ UNCHANGED <<conn, authID, presented, ctx, server, received, accepted>>

Start == Config.TLSConfig /\ Listen("none", "open")

Close == Listen("open", "closed")

(* Serve returns once the listener is closed, and Close with it; the       *)
(* connections that are open are served on.                                *)
Served == Listen("closed", "served")

-----------------------------------------------------------------------------
(* Connections.                                                            *)

MoveTo(c, from, to) == conn[c] = from /\ conn' = [conn EXCEPT ![c] = to]

Accept(c) ==
  /\ listener = "open" /\ MoveTo(c, "new", "accepted")
  /\ authID' = [authID EXCEPT ![c] = Nobody]
  /\ UNCHANGED <<listener, presented, ctx, server, received, accepted>>

(* Plaintext, or a TLS session resumed (fastrpc and crypto/tls: external). *)
OpenUnverified(c) ==
  /\ MoveTo(c, "accepted", "open")
  /\ UNCHANGED <<listener, authID, presented, ctx, server, received, accepted>>

VerifyPeerCertificate(c, cert) ==
  /\ AuthenticateClientCertificate(cert, Auth)
  /\ MoveTo(c, "accepted", "verified")
  /\ authID' = [authID EXCEPT ![c] = cert.leaf.uuid]
  /\ presented' = [presented EXCEPT ![c] = cert]
  /\ UNCHANGED <<listener, ctx, server, received, accepted>>

(* The peer signs with the key of its certificate (crypto/tls: external).  *)
FinishHandshake(c) ==
  /\ presented[c].itsKey /\ MoveTo(c, "verified", "open")
  /\ UNCHANGED <<listener, authID, presented, ctx, server, received, accepted>>

(* A refused certificate, a signature that does not match, the peer gone,  *)
(* or the goroutine dropConn starts on every way out of Target and Report. *)
CloseConn(c) ==
  /\ conn[c] \in {"accepted", "verified", "open"}
  /\ conn' = [conn EXCEPT ![c] = "closed"]
  /\ UNCHANGED <<listener, authID, presented, ctx, server, received, accepted>>

-----------------------------------------------------------------------------
(* Requests.  RequestCtx.Init resets what the context held, then           *)
(* ReadRequest fills it.                                                   *)

(* Mutant: Init does not reset the response.                               *)
ReadRequest_KeepsResponse(k, c, request) ==
  /\ Idle(k) /\ conn[c] = "open"
  /\ received < MaxRequests /\ received' = received + 1
  /\ ctx' = [ctx EXCEPT ![k] =
       [phase |-> "read", n |-> received + 1, conn |-> c,
        request |-> request, status |-> "OK", value |-> @.value]]
  /\ UNCHANGED <<conns, server, accepted>>

ReadRequest(k, c, request) ==
  /\ Idle(k) /\ conn[c] = "open"
  /\ received < MaxRequests /\ received' = received + 1
  /\ ctx' = [ctx EXCEPT ![k] =
       [phase |-> "read", n |-> received + 1, conn |-> c,
        request |-> request, status |-> "OK", value |-> <<>>]]
  /\ UNCHANGED <<conns, server, accepted>>

(* The context with a status set, and with something appended or not.      *)
Respond(k, status, appends) ==
  ctx' = [ctx EXCEPT ![k].phase = "done", ![k].status = status,
                     ![k].value = IF appends THEN Append(@, ctx[k].n) ELSE @]

WriteError(k, status) == Respond(k, status, TRUE)

(* fastrpc runs no handler beyond its concurrency limit.                   *)
ConcurrencyLimitError(k) ==
  /\ ctx[k].phase = "read"
  /\ WriteError(k, "TECH_ERROR")
  /\ UNCHANGED <<conns, server, received, accepted>>

GetUUID(c) == authID[c]

HandleUnauthorized(k) ==
  /\ ctx[k].phase = "read" /\ GetUUID(ctx[k].conn) = Nobody
  /\ unauthorized' = unauthorized + 1
  /\ WriteError(k, "UNAUTHORIZED")
  /\ UNCHANGED <<conns, lastCaller, counter, reports, received, accepted>>

Handle(k) ==
  /\ ctx[k].phase = "read" /\ GetUUID(ctx[k].conn) # Nobody
  /\ lastCaller' = GetUUID(ctx[k].conn)
  /\ ctx' = [ctx EXCEPT ![k].phase = "serve"]
  /\ UNCHANGED <<conns, unauthorized, counter, reports, received, accepted>>

(* requestPayer: a missing payer is counted, a malformed one is not.       *)
RequestPayer(request) ==
  unauthorized' = unauthorized + IF request.payer = "missing" THEN 1 ELSE 0

Serving(k, name) == ctx[k].phase = "serve" /\ ctx[k].request.name = name

Unmarshals(k) == ctx[k].request.decodes

HandleTarget(k) ==
  LET request == ctx[k].request IN
  /\ Serving(k, "target")
  /\ \/ /\ ~Unmarshals(k)
        /\ WriteError(k, "INVALID_REQUEST") /\ UNCHANGED <<unauthorized, counter>>
     \/ /\ Unmarshals(k) /\ request.payer # "named"
        /\ WriteError(k, "UNAUTHORIZED") /\ RequestPayer(request)
        /\ UNCHANGED counter
     \/ /\ Unmarshals(k) /\ request.payer = "named"
        /\ Respond(k, TargetStatus, TRUE)
        /\ counter' = counter + IF TargetStatus = "OK" THEN 1 ELSE 0
        /\ UNCHANGED unauthorized
  /\ UNCHANGED <<conns, lastCaller, reports, received, accepted>>

(* Mutant: the channel has no bound.                                       *)
Offer_Unbounded(n) == reports' = Append(reports, n)

(* The send does not block: a full channel drops the report.               *)
Offer(n) == reports' = IF Len(reports) < ReportBuffer THEN Append(reports, n) ELSE reports

(* Mutant: the report is handed over before it is checked.                 *)
HandleReport_OffersFirst(k) ==
  LET request == ctx[k].request IN
  /\ Serving(k, "report")
  /\ Offer(ctx[k].n)
  /\ \/ /\ ~(Unmarshals(k) /\ request.payer = "named")
        /\ WriteError(k, "UNAUTHORIZED") /\ RequestPayer(request)
        /\ UNCHANGED accepted
     \/ /\ Unmarshals(k) /\ request.payer = "named"
        /\ Respond(k, "OK", FALSE)
        /\ accepted' = accepted \cup {ctx[k].n} /\ UNCHANGED unauthorized
  /\ UNCHANGED <<conns, lastCaller, counter, received>>

HandleReport(k) ==
  LET request == ctx[k].request IN
  /\ Serving(k, "report")
  /\ \/ /\ ~Unmarshals(k)
        /\ WriteError(k, "INVALID_REQUEST")
        /\ UNCHANGED <<unauthorized, reports, accepted>>
     \/ /\ Unmarshals(k) /\ request.payer # "named"
        /\ WriteError(k, "UNAUTHORIZED") /\ RequestPayer(request)
        /\ UNCHANGED <<reports, accepted>>
     \/ /\ Unmarshals(k) /\ request.payer = "named"
        /\ Offer(ctx[k].n)
        /\ Respond(k, "OK", FALSE)
        /\ accepted' = accepted \cup {ctx[k].n} /\ UNCHANGED unauthorized
  /\ UNCHANGED <<conns, lastCaller, counter, received>>

(* Mutant: the grant is looked up for the server's lastCaller.             *)
HandleTouch_LastCaller(k) ==
  /\ Serving(k, "touch")
  /\ IF lastCaller \notin Config.TouchPartners THEN WriteError(k, "FORBIDDEN")
     ELSE IF ~Unmarshals(k) THEN WriteError(k, "INVALID_REQUEST")
     ELSE Respond(k, "OK", TRUE)
  /\ UNCHANGED <<conns, server, received, accepted>>

HandleTouch(k) ==
  /\ Serving(k, "touch")
  /\ IF GetUUID(ctx[k].conn) \notin Config.TouchPartners THEN WriteError(k, "FORBIDDEN")
     ELSE IF ~Unmarshals(k) THEN WriteError(k, "INVALID_REQUEST")
     ELSE Respond(k, "OK", TRUE)
  /\ UNCHANGED <<conns, server, received, accepted>>

HandleOther(k) ==
  /\ Serving(k, "other")
  /\ WriteError(k, "INVALID_REQUEST")
  /\ UNCHANGED <<conns, server, received, accepted>>

(* The response is written, if the connection is still there, and fastrpc  *)
(* keeps the context for another request.                                  *)
WriteResponse(k) ==
  /\ ctx[k].phase = "done"
  /\ ctx' = [ctx EXCEPT ![k] = Unused(@.value)]
  /\ UNCHANGED <<conns, server, received, accepted>>

(* A test reads Reports().                                                 *)
TakeReport ==
  /\ reports # <<>>
  /\ reports' = Tail(reports)
  /\ UNCHANGED <<conns, ctx, unauthorized, lastCaller, counter, received, accepted>>

-----------------------------------------------------------------------------
Connection(c) ==
  \/ Accept(c) \/ OpenUnverified(c) \/ FinishHandshake(c) \/ CloseConn(c)
  \/ \E cert \in Certs : VerifyPeerCertificate(c, cert)

Request(k) ==
  \/ \E c \in Conns, r \in Requests : ReadRequest(k, c, r)
  \/ ConcurrencyLimitError(k) \/ HandleUnauthorized(k) \/ Handle(k)
  \/ HandleTarget(k) \/ HandleReport(k) \/ HandleTouch(k) \/ HandleOther(k)
  \/ WriteResponse(k)

Next ==
  \/ Start \/ Close \/ Served
  \/ \E c \in Conns : Connection(c)
  \/ \E k \in Ctxs : Request(k)
  \/ TakeReport

Spec == Init /\ [][Next]_vars
-----------------------------------------------------------------------------
(* auth.go:158-172, server.go:224-232: what a handler serves, and the      *)
(* caller the server remembers, come from a certificate that passed every  *)
(* check, in a handshake that was finished.                                *)
Certified(c) ==
  /\ conn[c] \in {"open", "closed"}
  /\ presented[c] # NoCert
  /\ CheckTLS(presented[c].leaf, Auth.Roots, Auth.Intermediates)
  /\ Auth.RequireOCSP => presented[c].leaf.good
  /\ presented[c].itsKey /\ presented[c].leaf.uuid \in Partners

ServedIsCertified ==
  /\ \A k \in Ctxs :
       \/ ctx[k].phase = "serve"
       \/ ctx[k].phase = "done" /\ ctx[k].status = "OK"
       => Certified(ctx[k].conn)
  /\ lastCaller # Nobody =>
       \E c \in Conns : Certified(c) /\ presented[c].leaf.uuid = lastCaller

(* server.go:317-321: Touch is granted by the certificate of the           *)
(* connection it came over, whoever else is calling.                       *)
TouchGranted ==
  \A k \in Ctxs :
    ctx[k].phase = "done" /\ ctx[k].request.name = "touch" /\ ctx[k].status = "OK"
    => presented[ctx[k].conn].leaf.uuid \in Config.TouchPartners

(* requestCtx.go:34-41: a reused context answers its own request only.     *)
AnswersOwn ==
  \A k \in Ctxs : ctx[k].phase = "done" => ToSet(ctx[k].value) \subseteq {ctx[k].n}

(* server.go:181: "Reports returns Report requests accepted by the server",*)
(* each one once; a refused report never gets there.                       *)
ReportsAccepted ==
  ToSet(reports) \subseteq accepted /\ IsInjective(reports)

=============================================================================
