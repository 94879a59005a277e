---------------------------- MODULE Cloud_proofs ----------------------------
(***************************************************************************)
(* Proofs about Cloud, for any peers, certificates, CAs, requests and      *)
(* request contexts, any number of them; and about Certificates: how the   *)
(* checks of the two ends agree, and for whom they pass.                   *)
(***************************************************************************)
EXTENDS Cloud, FiniteSetTheorems, WellFoundedInduction, TLAPS

Assumptions ==
  /\ SetsAssumption /\ CertsAssumption /\ RequestsAssumption /\ ConfigAssumption
  /\ BoundAssumption /\ PartnersAssumption

LEMMA Assumed == Assumptions
BY SetsAssumption, CertsAssumption, RequestsAssumption, ConfigAssumption,
   BoundAssumption, PartnersAssumption DEF Assumptions

CtxType ==
  [phase : {"idle", "read", "serve", "done"}, n : Number, conn : Conns,
   request : Messages, status : Statuses, value : Seq(Number)]

LEMMA ConfigTypes ==
  /\ ReportBuffer \in Nat \ {0} /\ TargetStatus \in Statuses
  /\ Requests \subseteq Messages
  /\ \A cert \in Certs : cert.leaf.uuid \in Partners \cup {Nobody, "bad"}
<1>1. ReportBuffer \in Nat \ {0} /\ TargetStatus \in Statuses
  BY ConfigAssumption
  DEF ConfigAssumption, ReportBuffer, TargetStatus, NormalizeConfig, Statuses
<1>2. \A cert \in Certs : cert.leaf.uuid \in Partners \cup {Nobody, "bad"}
  BY CertsAssumption DEF CertsAssumption, Bundles, Leaves
<1> QED
  BY <1>1, <1>2, RequestsAssumption DEF RequestsAssumption

-----------------------------------------------------------------------------
(* What a step does to the contexts.                                       *)

(* Respond, pointwise.                                                     *)
Responded(k, status, appends) ==
  /\ \A j \in Ctxs \ {k} : ctx'[j] = ctx[j]
  /\ ctx'[k].phase = "done" /\ ctx'[k].status = status
  /\ ctx'[k].n = ctx[k].n /\ ctx'[k].conn = ctx[k].conn
  /\ ctx'[k].request = ctx[k].request
  /\ ctx'[k].value = IF appends THEN Append(ctx[k].value, ctx[k].n) ELSE ctx[k].value

LEMMA RespondEffect ==
  ASSUME ctx \in [Ctxs -> CtxType], NEW k \in Ctxs, NEW status \in Statuses,
         NEW appends \in BOOLEAN, Respond(k, status, appends)
  PROVE  ctx' \in [Ctxs -> CtxType] /\ Responded(k, status, appends)
<1> DEFINE v == IF appends THEN Append(ctx[k].value, ctx[k].n) ELSE ctx[k].value
<1>1. ctx[k] \in CtxType
  OBVIOUS
<1>2. v \in Seq(Number)
  BY <1>1 DEF CtxType
<1>3. ctx' = [ctx EXCEPT ![k] =
                [ctx[k] EXCEPT !.phase = "done", !.status = status, !.value = v]]
  BY DEF Respond
<1> HIDE DEF v
<1>4. [ctx[k] EXCEPT !.phase = "done", !.status = status, !.value = v] \in CtxType
  BY <1>1, <1>2 DEF CtxType
<1>5. ctx' \in [Ctxs -> CtxType]
  BY <1>3, <1>4
<1>6. Responded(k, status, appends)
  BY <1>1, <1>3 DEF CtxType, Responded, v
<1> QED
  BY <1>5, <1>6

(* The parts of TypeOK.                                                    *)
ConnsOK ==
  /\ listener \in {"none", "open", "closed", "served"}
  /\ conn \in [Conns -> {"new", "accepted", "verified", "open", "closed"}]
  /\ authID \in [Conns -> Partners \cup {Nobody}]
  /\ presented \in [Conns -> Certs \cup {NoCert}]
ServerOK ==
  /\ unauthorized \in Nat /\ counter \in Nat
  /\ lastCaller \in Partners \cup {Nobody}
  /\ reports \in Seq(Number) /\ Len(reports) <= ReportBuffer
  /\ received \in Number /\ accepted \subseteq Number

LEMMA TypeParts == TypeOK <=> ConnsOK /\ ctx \in [Ctxs -> CtxType] /\ ServerOK
BY DEF TypeOK, ConnsOK, ServerOK, CtxType

(* Connections and requests leave each other's state alone.                *)
Elsewhere == UNCHANGED <<ctx, server, received, accepted>>

LEMMA ListenerSteps ==
  ASSUME Start \/ Close \/ Served
  PROVE  /\ Elsewhere /\ UNCHANGED <<conn, authID, presented>>
         /\ listener' \in {"open", "closed", "served"}
BY DEF Start, Close, Served, Listen, Elsewhere

LEMMA ConnectionSteps ==
  ASSUME ConnsOK, NEW c \in Conns, Connection(c)
  PROVE  ConnsOK' /\ Elsewhere
<1> USE DEF ConnsOK, MoveTo, Elsewhere
<1>1. CASE Accept(c)
  BY <1>1 DEF Accept
<1>2. CASE OpenUnverified(c)
  BY <1>2 DEF OpenUnverified
<1>3. CASE FinishHandshake(c)
  BY <1>3 DEF FinishHandshake
<1>4. CASE CloseConn(c)
  BY <1>4 DEF CloseConn
<1>5. ASSUME NEW cert \in Certs, VerifyPeerCertificate(c, cert)
      PROVE  ConnsOK' /\ Elsewhere
  BY <1>5, ConfigTypes DEF VerifyPeerCertificate, AuthenticateClientCertificate
<1> QED
  BY <1>1, <1>2, <1>3, <1>4, <1>5 DEF Connection

(* What an action that ends in a response does: the status, and what it    *)
(* means for the caller.                                                   *)
Answers(k) ==
  \E status \in Statuses, appends \in BOOLEAN :
    /\ Responded(k, status, appends)
    /\ ctx[k].phase \in {"read", "serve"}
    /\ status = "OK" =>
         /\ ctx[k].phase = "serve"
         /\ ctx[k].request.name = "touch" => authID[ctx[k].conn] \in Config.TouchPartners

(* A report that is handed over is accepted; nothing else is.              *)
Keeps == UNCHANGED <<reports, accepted>>
Accepts(k) ==
  /\ accepted' = accepted \cup {ctx[k].n}
  /\ reports' = reports \/ reports' = Append(reports, ctx[k].n)
  /\ Len(reports') <= ReportBuffer

LEMMA HandlerSteps ==
  ASSUME TypeOK, NEW k \in Ctxs,
         \/ ConcurrencyLimitError(k) \/ HandleUnauthorized(k) \/ HandleTarget(k)
         \/ HandleReport(k) \/ HandleTouch(k) \/ HandleOther(k)
  PROVE  /\ ctx' \in [Ctxs -> CtxType] /\ Answers(k)
         /\ Keeps \/ (ctx[k].phase = "serve" /\ Accepts(k))
         /\ UNCHANGED <<conns, lastCaller, received>>
         /\ unauthorized' \in Nat /\ counter' \in Nat
<1> USE DEF WriteError, Keeps, server, Statuses
<1>0. ctx \in [Ctxs -> CtxType] /\ unauthorized \in Nat /\ counter \in Nat
  BY DEF TypeOK, CtxType
<1>r. ASSUME NEW status \in Statuses, NEW appends \in BOOLEAN,
             Respond(k, status, appends), ctx[k].phase \in {"read", "serve"},
             status = "OK" =>
               /\ ctx[k].phase = "serve"
               /\ ctx[k].request.name = "touch" =>
                    authID[ctx[k].conn] \in Config.TouchPartners
      PROVE  ctx' \in [Ctxs -> CtxType] /\ Answers(k)
  BY <1>0, <1>r, RespondEffect DEF Answers
<1>w. ASSUME NEW status \in Statuses \ {"OK"}, WriteError(k, status),
             ctx[k].phase \in {"read", "serve"}
      PROVE  ctx' \in [Ctxs -> CtxType] /\ Answers(k)
  BY <1>r, <1>w
<1>1. CASE ConcurrencyLimitError(k)
  <2>1. WriteError(k, "TECH_ERROR") /\ ctx[k].phase = "read"
    BY <1>1 DEF ConcurrencyLimitError
  <2> QED
    BY <1>0, <1>1, <1>w, <2>1 DEF ConcurrencyLimitError
<1>2. CASE HandleUnauthorized(k)
  <2>1. WriteError(k, "UNAUTHORIZED") /\ ctx[k].phase = "read"
    BY <1>2 DEF HandleUnauthorized
  <2>2. ctx' \in [Ctxs -> CtxType] /\ Answers(k)
    BY <1>w, <2>1
  <2>3. unauthorized' \in Nat /\ counter' \in Nat
    BY ONLY <1>0, <1>2 DEF HandleUnauthorized
  <2> QED
    BY <1>2, <2>2, <2>3 DEF HandleUnauthorized
<1>3. CASE HandleTarget(k)
  <2>1. ctx[k].phase = "serve" /\ ctx[k].request.name = "target"
    BY <1>3 DEF HandleTarget, Serving
  <2>2. \/ WriteError(k, "INVALID_REQUEST") \/ WriteError(k, "UNAUTHORIZED")
        \/ Respond(k, TargetStatus, TRUE)
    BY <1>3 DEF HandleTarget
  <2>3. ctx' \in [Ctxs -> CtxType] /\ Answers(k)
    BY <1>r, <1>w, <2>1, <2>2, ConfigTypes
  <2>4. unauthorized' \in Nat /\ counter' \in Nat
    <3>1. \/ RequestPayer(ctx[k].request) /\ UNCHANGED counter
          \/ UNCHANGED unauthorized /\ counter' = counter + IF TargetStatus = "OK" THEN 1 ELSE 0
          \/ UNCHANGED <<unauthorized, counter>>
      BY <1>3 DEF HandleTarget
    <3> QED
      BY ONLY <1>0, <3>1 DEF RequestPayer
  <2> QED
    BY <1>3, <2>3, <2>4 DEF HandleTarget
<1>4. CASE HandleReport(k)
  <2>1. ctx[k].phase = "serve" /\ ctx[k].request.name = "report"
    BY <1>4 DEF HandleReport, Serving
  <2>2. \/ WriteError(k, "INVALID_REQUEST") \/ WriteError(k, "UNAUTHORIZED")
        \/ Respond(k, "OK", FALSE)
    BY <1>4 DEF HandleReport
  <2>3. ctx' \in [Ctxs -> CtxType] /\ Answers(k)
    BY <1>r, <1>w, <2>1, <2>2
  <2>4. Keeps \/ Accepts(k)
    <3>1. ctx[k].n \in Number /\ reports \in Seq(Number) /\ Len(reports) <= ReportBuffer
      BY <1>0 DEF TypeOK, CtxType
    <3>2. \/ Keeps
          \/ Offer(ctx[k].n) /\ accepted' = accepted \cup {ctx[k].n}
      BY <1>4 DEF HandleReport
    <3>3. ASSUME Offer(ctx[k].n)
          PROVE  /\ reports' = reports \/ reports' = Append(reports, ctx[k].n)
                 /\ Len(reports') <= ReportBuffer
      <4>1. CASE Len(reports) < ReportBuffer
        BY <3>1, <3>3, <4>1, ConfigTypes DEF Offer
      <4>2. CASE ~(Len(reports) < ReportBuffer)
        BY <3>1, <3>3, <4>2 DEF Offer
      <4> QED
        BY <4>1, <4>2
    <3> QED
      BY <3>2, <3>3 DEF Accepts
  <2>5. unauthorized' \in Nat /\ counter' \in Nat
    <3>1. UNCHANGED counter /\ (RequestPayer(ctx[k].request) \/ UNCHANGED unauthorized)
      BY <1>4 DEF HandleReport
    <3> QED
      BY ONLY <1>0, <3>1 DEF RequestPayer
  <2> QED
    BY <1>4, <2>1, <2>3, <2>4, <2>5 DEF HandleReport
<1>5. CASE HandleTouch(k)
  <2>1. ctx[k].phase = "serve" /\ ctx[k].request.name = "touch"
    BY <1>5 DEF HandleTouch, Serving
  <2>2. \/ WriteError(k, "INVALID_REQUEST") \/ WriteError(k, "FORBIDDEN")
        \/ Respond(k, "OK", TRUE) /\ authID[ctx[k].conn] \in Config.TouchPartners
    BY <1>5 DEF HandleTouch, GetUUID
  <2>3. ctx' \in [Ctxs -> CtxType] /\ Answers(k)
    BY <1>r, <1>w, <2>1, <2>2
  <2> QED
    BY <1>0, <1>5, <2>3 DEF HandleTouch
<1>6. CASE HandleOther(k)
  <2>1. ctx[k].phase = "serve" /\ WriteError(k, "INVALID_REQUEST")
    BY <1>6 DEF HandleOther, Serving
  <2> QED
    BY <1>0, <1>6, <1>w, <2>1 DEF HandleOther
<1> QED
  BY <1>1, <1>2, <1>3, <1>4, <1>5, <1>6

(* The other steps of a request, and a test that takes a report.           *)
Reads(k) ==
  \E c \in Conns :
    /\ conn[c] = "open" /\ received < MaxRequests /\ received' = received + 1
    /\ ctx[k].phase = "idle" /\ ctx'[k].phase = "read" /\ ctx'[k].n = received + 1
    /\ ctx'[k].conn = c /\ ctx'[k].value = <<>>
    /\ UNCHANGED <<conns, server, accepted>>

Serves(k) ==
  /\ ctx[k].phase = "read" /\ ctx'[k].phase = "serve"
  /\ authID[ctx[k].conn] # Nobody /\ lastCaller' = authID[ctx[k].conn]
  /\ ctx'[k].n = ctx[k].n /\ ctx'[k].conn = ctx[k].conn
  /\ ctx'[k].request = ctx[k].request /\ ctx'[k].value = ctx[k].value
  /\ UNCHANGED <<conns, unauthorized, counter, reports, received, accepted>>

Writes(k) ==
  /\ ctx[k].phase = "done" /\ ctx'[k].phase = "idle"
  /\ UNCHANGED <<conns, server, received, accepted>>

LEMMA RequestSteps ==
  ASSUME TypeOK, NEW k \in Ctxs,
         \/ \E c \in Conns, r \in Requests : ReadRequest(k, c, r)
         \/ Handle(k) \/ WriteResponse(k)
  PROVE  /\ ctx' \in [Ctxs -> CtxType]
         /\ \A j \in Ctxs \ {k} : ctx'[j] = ctx[j]
         /\ Reads(k) \/ Serves(k) \/ Writes(k)
<1>0. ctx \in [Ctxs -> CtxType] /\ received \in Nat /\ MaxRequests \in Nat
  BY BoundAssumption DEF TypeOK, CtxType, BoundAssumption, Number
<1>1. ASSUME NEW c \in Conns, NEW r \in Requests, ReadRequest(k, c, r)
      PROVE  /\ ctx' \in [Ctxs -> CtxType] /\ Reads(k)
             /\ \A j \in Ctxs \ {k} : ctx'[j] = ctx[j]
  <2> DEFINE new == [phase |-> "read", n |-> received + 1, conn |-> c,
                     request |-> r, status |-> "OK", value |-> <<>>]
  <2>1. new \in CtxType
    BY <1>0, <1>1, ConfigTypes DEF ReadRequest, CtxType, Number, Statuses
  <2>2. ctx' = [ctx EXCEPT ![k] = new]
    BY <1>1 DEF ReadRequest
  <2>3. ctx' \in [Ctxs -> CtxType] /\ \A j \in Ctxs \ {k} : ctx'[j] = ctx[j]
    BY <1>0, <2>1, <2>2
  <2>4. ctx'[k] = new
    BY <1>0, <2>2
  <2>5. /\ ctx'[k].phase = "read" /\ ctx'[k].n = received + 1
        /\ ctx'[k].conn = c /\ ctx'[k].value = <<>>
    BY <2>4
  <2> QED
    BY <1>1, <2>3, <2>5 DEF ReadRequest, Idle, Reads
<1>2. CASE Handle(k)
  <2>1. ctx' = [ctx EXCEPT ![k] = [ctx[k] EXCEPT !.phase = "serve"]]
    BY <1>2 DEF Handle
  <2>2. ctx' \in [Ctxs -> CtxType]
    BY <1>0, <2>1 DEF CtxType
  <2> QED
    BY <1>0, <1>2, <2>1, <2>2 DEF Handle, GetUUID, CtxType, Serves
<1>3. CASE WriteResponse(k)
  <2> DEFINE new == Unused(ctx[k].value)
  <2>1. ctx' = [ctx EXCEPT ![k] = new]
    BY <1>3 DEF WriteResponse
  <2>2. new \in CtxType /\ new.phase = "idle"
    BY <1>0, SetsAssumption, ConfigTypes, BoundAssumption
    DEF SetsAssumption, BoundAssumption, CtxType, Unused, Number, Statuses
  <2> HIDE DEF new
  <2>3. ctx' \in [Ctxs -> CtxType] /\ ctx'[k] = new
    BY <1>0, <2>1, <2>2
  <2> QED
    BY <1>0, <1>3, <2>1, <2>2, <2>3 DEF WriteResponse, Writes
<1> QED
  BY <1>1, <1>2, <1>3

(* What Next does, in these terms.                                         *)
LEMMA NextSteps ==
  ASSUME Next
  PROVE  \/ Start \/ Close \/ Served
         \/ \E c \in Conns : Connection(c)
         \/ \E k \in Ctxs :
              \/ ConcurrencyLimitError(k) \/ HandleUnauthorized(k) \/ HandleTarget(k)
              \/ HandleReport(k) \/ HandleTouch(k) \/ HandleOther(k)
         \/ \E k \in Ctxs :
              \/ \E c \in Conns, r \in Requests : ReadRequest(k, c, r)
              \/ Handle(k) \/ WriteResponse(k)
         \/ TakeReport
BY DEF Next, Request

LEMMA TakeStep ==
  ASSUME TypeOK, TakeReport
  PROVE  /\ UNCHANGED <<conns, ctx, unauthorized, lastCaller, counter, received, accepted>>
         /\ reports' \in Seq(Number) /\ Len(reports') <= ReportBuffer
         /\ Len(reports') < Len(reports)
         /\ \A i \in DOMAIN reports' : i + 1 \in DOMAIN reports /\ reports'[i] = reports[i + 1]
BY ConfigTypes DEF TypeOK, TakeReport

(* Every variable keeps its type, and the channel its bound.               *)
THEOREM TypeCorrect == Spec => []TypeOK
<1>1. Init => TypeOK
  <2> SUFFICES ASSUME Init PROVE TypeOK
    OBVIOUS
  <2>1. ctx \in [Ctxs -> CtxType]
    BY SetsAssumption, ConfigTypes, BoundAssumption
    DEF Init, SetsAssumption, BoundAssumption, CtxType, Unused, Number, Statuses
  <2> QED
    BY <2>1, TypeParts, ConfigTypes, BoundAssumption
    DEF Init, BoundAssumption, ConnsOK, ServerOK, Number
<1>2. TypeOK /\ [Next]_vars => TypeOK'
  <2> SUFFICES ASSUME TypeOK, [Next]_vars PROVE TypeOK'
    OBVIOUS
  <2>0. ConnsOK /\ ctx \in [Ctxs -> CtxType] /\ ServerOK
    BY TypeParts
  <2>p. (ConnsOK /\ ctx \in [Ctxs -> CtxType] /\ ServerOK)' => TypeOK'
    BY DEF TypeOK, ConnsOK, ServerOK, CtxType
  <2>c. ASSUME UNCHANGED conns PROVE ConnsOK'
    BY <2>0, <2>c DEF ConnsOK, conns
  <2>s. ASSUME UNCHANGED <<server, received, accepted>> PROVE ServerOK'
    BY <2>0, <2>s DEF ServerOK, server
  <2>1. CASE Start \/ Close \/ Served
    BY <2>0, <2>p, <2>s, <2>1, ListenerSteps DEF ConnsOK, Elsewhere
  <2>2. ASSUME NEW c \in Conns, Connection(c) PROVE TypeOK'
    BY <2>0, <2>p, <2>s, <2>2, ConnectionSteps DEF Elsewhere
  <2>3. ASSUME NEW k \in Ctxs,
               \/ ConcurrencyLimitError(k) \/ HandleUnauthorized(k) \/ HandleTarget(k)
               \/ HandleReport(k) \/ HandleTouch(k) \/ HandleOther(k)
        PROVE  TypeOK'
    <3>1. /\ ctx' \in [Ctxs -> CtxType]
          /\ Keeps \/ (ctx[k].phase = "serve" /\ Accepts(k))
          /\ UNCHANGED <<conns, lastCaller, received>>
          /\ unauthorized' \in Nat /\ counter' \in Nat
      BY <2>3, HandlerSteps
    <3>2. ctx[k].n \in Number
      BY <2>0 DEF CtxType
    <3>3. /\ reports' \in Seq(Number) /\ Len(reports') <= ReportBuffer
          /\ accepted' \subseteq Number
      <4>1. reports \in Seq(Number) /\ Len(reports) <= ReportBuffer /\ accepted \subseteq Number
        BY <2>0 DEF ServerOK
      <4>2. CASE Keeps
        BY <4>1, <4>2 DEF Keeps
      <4>3. CASE Accepts(k)
        <5>1. Append(reports, ctx[k].n) \in Seq(Number)
          BY <3>2, <4>1
        <5> QED
          BY <3>2, <4>1, <4>3, <5>1 DEF Accepts
      <4> QED
        BY <3>1, <4>2, <4>3
    <3> QED
      BY <2>0, <2>c, <2>p, <3>1, <3>3 DEF ServerOK
  <2>4. ASSUME NEW k \in Ctxs,
               \/ \E c \in Conns, r \in Requests : ReadRequest(k, c, r)
               \/ Handle(k) \/ WriteResponse(k)
        PROVE  TypeOK'
    <3>1. ctx' \in [Ctxs -> CtxType] /\ (Reads(k) \/ Serves(k) \/ Writes(k))
      BY <2>4, RequestSteps
    <3>2. ctx[k].conn \in Conns
      BY <2>0 DEF CtxType
    <3>3. UNCHANGED conns
      BY <3>1 DEF Reads, Serves, Writes
    <3>4. ServerOK'
      <4>1. CASE Reads(k)
        <5>1. received' \in Number
          BY <2>0, <4>1, BoundAssumption DEF ServerOK, Reads, BoundAssumption, Number
        <5> QED
          BY <2>0, <4>1, <5>1 DEF ServerOK, Reads, server
      <4>2. CASE Serves(k)
        <5>1. lastCaller' \in Partners \cup {Nobody}
          BY <2>0, <3>2, <4>2 DEF ConnsOK, Serves
        <5> QED
          BY <2>0, <4>2, <5>1 DEF ServerOK, Serves
      <4>3. CASE Writes(k)
        BY <2>s, <4>3 DEF Writes
      <4> QED
        BY <3>1, <4>1, <4>2, <4>3
    <3> QED
      BY <2>c, <2>p, <3>1, <3>3, <3>4
  <2>5. CASE TakeReport
    BY <2>0, <2>c, <2>p, <2>5, TakeStep DEF ServerOK
  <2>6. CASE UNCHANGED vars
    BY <2>0, <2>c, <2>s, <2>p, <2>6 DEF vars
  <2> QED
    BY <2>1, <2>2, <2>3, <2>4, <2>5, <2>6, NextSteps
<1> QED
  BY <1>1, <1>2, PTL DEF Spec

-----------------------------------------------------------------------------
(* Who is on a connection.                                                 *)

Checked(c) ==
  /\ CheckTLS(presented[c].leaf, Auth.Roots, Auth.Intermediates)
  /\ Auth.RequireOCSP => presented[c].leaf.good
  /\ authID[c] = presented[c].leaf.uuid

Handshakes ==
  \A c \in Conns :
    /\ conn[c] \in {"new", "accepted"} => presented[c] = NoCert
    /\ presented[c] = NoCert => authID[c] = Nobody
    /\ presented[c] # NoCert => Checked(c)
    /\ conn[c] = "open" /\ presented[c] # NoCert => presented[c].itsKey

(* A connection requests have come over: its handshake is finished, if it  *)
(* had one, and it keeps its partner also once it is closed.               *)
Established(c) ==
  /\ conn[c] \in {"open", "closed"}
  /\ presented[c] # NoCert => presented[c].itsKey

LEMMA EstablishedCertified ==
  ASSUME TypeOK, Handshakes, NEW c \in Conns, Established(c), authID[c] # Nobody
  PROVE  Certified(c) /\ presented[c].leaf.uuid = authID[c]
<1>1. authID[c] \in Partners
  BY DEF TypeOK
<1> QED
  BY <1>1 DEF Handshakes, Checked, Established, Certified

(* No certificate that passes the check is taken for none.                 *)
LEMMA CheckedIsSome ==
  ASSUME NEW cert, AuthenticateClientCertificate(cert, Auth)
  PROVE  cert # NoCert
<1>1. cert.leaf.sound
  BY DEF AuthenticateClientCertificate, CheckTLS
<1>2. NoCert.leaf.sound = FALSE
  BY DEF NoCert
<1> QED
  BY <1>1, <1>2

LEMMA HandshakeSteps ==
  ASSUME TypeOK, Handshakes, [Next]_vars
  PROVE  /\ Handshakes'
         /\ \A c \in Conns : Established(c) => Established(c)' /\ authID'[c] = authID[c]
<1> USE DEF Handshakes, Checked, Established
<1>0. ConnsOK
  BY TypeParts
<1>1. ASSUME UNCHANGED <<conn, authID, presented>>
      PROVE  /\ Handshakes'
             /\ \A c \in Conns : Established(c) => Established(c)' /\ authID'[c] = authID[c]
  BY <1>1
<1>2. ASSUME NEW d \in Conns, Connection(d)
      PROVE  /\ Handshakes'
             /\ \A c \in Conns : Established(c) => Established(c)' /\ authID'[c] = authID[c]
  <2> USE DEF ConnsOK, MoveTo
  <2>1. CASE Accept(d)
    BY <1>0, <2>1 DEF Accept
  <2>2. CASE OpenUnverified(d)
    BY <1>0, <2>2 DEF OpenUnverified
  <2>3. CASE FinishHandshake(d)
    BY <1>0, <2>3 DEF FinishHandshake
  <2>4. CASE CloseConn(d)
    BY <1>0, <2>4 DEF CloseConn
  <2>5. ASSUME NEW cert \in Certs, VerifyPeerCertificate(d, cert)
        PROVE  /\ Handshakes'
               /\ \A c \in Conns : Established(c) => Established(c)' /\ authID'[c] = authID[c]
    <3>1. AuthenticateClientCertificate(cert, Auth) /\ cert # NoCert
      BY <2>5, CheckedIsSome DEF VerifyPeerCertificate
    <3>2. /\ conn[d] = "accepted" /\ conn'[d] = "verified"
          /\ authID'[d] = cert.leaf.uuid /\ presented'[d] = cert
          /\ \A c \in Conns \ {d} :
               conn'[c] = conn[c] /\ authID'[c] = authID[c] /\ presented'[c] = presented[c]
      BY <1>0, <2>5 DEF VerifyPeerCertificate
    <3> HIDE DEF ConnsOK, MoveTo
    <3> QED
      BY <3>1, <3>2 DEF AuthenticateClientCertificate
  <2> QED
    BY <1>2, <2>1, <2>2, <2>3, <2>4, <2>5 DEF Connection
<1>3. Next => UNCHANGED <<conn, authID, presented>> \/ \E c \in Conns : Connection(c)
  <2>1. ASSUME NEW k \in Ctxs, Reads(k) \/ Serves(k) \/ Writes(k)
        PROVE  UNCHANGED <<conn, authID, presented>>
    BY <2>1 DEF Reads, Serves, Writes, conns
  <2> QED
    BY <2>1, NextSteps, ListenerSteps, HandlerSteps, RequestSteps DEF TakeReport, conns
<1> QED
  BY <1>1, <1>2, <1>3 DEF vars, conns

-----------------------------------------------------------------------------
(* What was served over them.                                              *)

Granted(k) ==
  ctx[k].phase = "done" /\ ctx[k].status = "OK" /\ ctx[k].request.name = "touch"
    => authID[ctx[k].conn] \in Config.TouchPartners

OverIts(k) ==
  /\ ctx[k].phase # "idle" => Established(ctx[k].conn)
  /\ \/ ctx[k].phase = "serve"
     \/ ctx[k].phase = "done" /\ ctx[k].status = "OK"
     => authID[ctx[k].conn] # Nobody
  /\ Granted(k)

Remembered ==
  lastCaller # Nobody => \E c \in Conns : Established(c) /\ authID[c] = lastCaller

ServedInv == Handshakes /\ (\A k \in Ctxs : OverIts(k)) /\ Remembered

LEMMA ServedStep ==
  ASSUME TypeOK, ServedInv, [Next]_vars
  PROVE  ServedInv'
<1>0. /\ Handshakes'
      /\ \A c \in Conns : Established(c) => Established(c)' /\ authID'[c] = authID[c]
  BY HandshakeSteps DEF ServedInv
<1>1. ctx \in [Ctxs -> CtxType] /\ \A k \in Ctxs : ctx[k].conn \in Conns
  BY TypeParts DEF CtxType
<1>2. ASSUME NEW k \in Ctxs, UNCHANGED ctx \/ ctx'[k] = ctx[k] PROVE OverIts(k)'
  BY <1>0, <1>1, <1>2 DEF ServedInv, OverIts, Granted
<1>3. ASSUME UNCHANGED lastCaller PROVE Remembered'
  BY <1>0, <1>3 DEF ServedInv, Remembered
<1>4. ASSUME Elsewhere PROVE ServedInv'
  BY <1>0, <1>2, <1>3, <1>4 DEF ServedInv, Elsewhere, server
<1>5. ASSUME NEW k \in Ctxs,
             \/ ConcurrencyLimitError(k) \/ HandleUnauthorized(k) \/ HandleTarget(k)
             \/ HandleReport(k) \/ HandleTouch(k) \/ HandleOther(k)
      PROVE  ServedInv'
  <2>1. Answers(k) /\ UNCHANGED <<conns, lastCaller>>
    BY <1>5, HandlerSteps
  <2>2. PICK status \in Statuses, appends \in BOOLEAN :
          /\ Responded(k, status, appends)
          /\ ctx[k].phase \in {"read", "serve"}
          /\ status = "OK" =>
               /\ ctx[k].phase = "serve"
               /\ ctx[k].request.name = "touch" =>
                    authID[ctx[k].conn] \in Config.TouchPartners
    BY <2>1 DEF Answers
  <2>3. OverIts(k)'
    BY <1>0, <1>1, <2>1, <2>2 DEF ServedInv, OverIts, Granted, Responded, conns
  <2>4. \A j \in Ctxs : OverIts(j)'
    BY <1>2, <2>2, <2>3 DEF Responded
  <2> QED
    BY <1>0, <1>3, <2>1, <2>4 DEF ServedInv
<1>6. ASSUME NEW k \in Ctxs,
             \/ \E c \in Conns, r \in Requests : ReadRequest(k, c, r)
             \/ Handle(k) \/ WriteResponse(k)
      PROVE  ServedInv'
  <2>1. /\ \A j \in Ctxs \ {k} : ctx'[j] = ctx[j]
        /\ Reads(k) \/ Serves(k) \/ Writes(k)
    BY <1>6, RequestSteps
  <2>2. CASE Reads(k)
    <3>1. OverIts(k)'
      BY <1>0, <2>2 DEF ServedInv, Reads, OverIts, Granted, Handshakes, Established
    <3> QED
      BY <1>0, <1>2, <1>3, <2>1, <2>2, <3>1 DEF ServedInv, Reads, server
  <2>3. CASE Serves(k)
    <3>1. OverIts(k)'
      BY <1>0, <1>1, <2>3 DEF ServedInv, Serves, OverIts, Granted, conns
    <3>2. Remembered'
      BY <1>0, <1>1, <2>3 DEF ServedInv, Serves, OverIts, Remembered
    <3> QED
      BY <1>0, <1>2, <2>1, <3>1, <3>2 DEF ServedInv
  <2>4. CASE Writes(k)
    <3>1. OverIts(k)'
      BY <2>4 DEF Writes, OverIts, Granted
    <3> QED
      BY <1>0, <1>2, <1>3, <2>1, <2>4, <3>1 DEF ServedInv, Writes, server
  <2> QED
    BY <2>1, <2>2, <2>3, <2>4
<1>7. CASE TakeReport
  BY <1>0, <1>2, <1>3, <1>7, TakeStep DEF ServedInv
<1>8. CASE UNCHANGED vars
  BY <1>4, <1>8 DEF vars, Elsewhere
<1> QED
  BY <1>4, <1>5, <1>6, <1>7, <1>8, NextSteps, ListenerSteps, ConnectionSteps, TypeParts

LEMMA ServedInvariant == Spec => []ServedInv
<1>1. Init => ServedInv
  BY DEF Init, Unused, ServedInv, Handshakes, OverIts, Granted, Remembered
<1>2. TypeOK /\ ServedInv /\ [Next]_vars => ServedInv'
  BY ServedStep
<1> QED
  BY <1>1, <1>2, TypeCorrect, PTL DEF Spec

(* Whoever a handler serves, and whoever the server remembers, showed a    *)
(* certificate that passed every check in a finished handshake             *)
(* (auth.go:158-172, server.go:224-232).                                   *)
THEOREM Certification == Spec => []ServedIsCertified
<1>1. TypeOK /\ ServedInv => ServedIsCertified
  <2> SUFFICES ASSUME TypeOK, ServedInv PROVE ServedIsCertified
    OBVIOUS
  <2>1. \A k \in Ctxs : ctx[k].conn \in Conns
    BY DEF TypeOK
  <2>2. ASSUME NEW k \in Ctxs,
               \/ ctx[k].phase = "serve"
               \/ ctx[k].phase = "done" /\ ctx[k].status = "OK"
        PROVE  Certified(ctx[k].conn)
    BY <2>1, <2>2, EstablishedCertified DEF ServedInv, OverIts
  <2>3. lastCaller # Nobody =>
          \E c \in Conns : Certified(c) /\ presented[c].leaf.uuid = lastCaller
    BY EstablishedCertified DEF ServedInv, Remembered
  <2> QED
    BY <2>2, <2>3 DEF ServedIsCertified
<1> QED
  BY <1>1, TypeCorrect, ServedInvariant, PTL

(* Touch is granted by the certificate of the connection it came over      *)
(* (server.go:317-321).                                                    *)
THEOREM Grants == Spec => []TouchGranted
<1>1. TypeOK /\ ServedInv => TouchGranted
  <2> SUFFICES ASSUME TypeOK, ServedInv, NEW k \in Ctxs, ctx[k].phase = "done",
                      ctx[k].request.name = "touch", ctx[k].status = "OK"
               PROVE  presented[ctx[k].conn].leaf.uuid \in Config.TouchPartners
    BY DEF TouchGranted
  <2>1. ctx[k].conn \in Conns
    BY DEF TypeOK
  <2>2. /\ Established(ctx[k].conn) /\ authID[ctx[k].conn] # Nobody
        /\ authID[ctx[k].conn] \in Config.TouchPartners
    BY DEF ServedInv, OverIts, Granted
  <2> QED
    BY <2>1, <2>2, EstablishedCertified DEF ServedInv
<1> QED
  BY <1>1, TypeCorrect, ServedInvariant, PTL

-----------------------------------------------------------------------------
(* What a response carries.                                                *)

OwnValue(k) ==
  /\ ctx[k].phase \in {"read", "serve"} => ctx[k].value = <<>>
  /\ ctx[k].phase = "done" => ctx[k].value \in {<<>>, <<ctx[k].n>>}

LEMMA OwnStep ==
  ASSUME TypeOK, \A k \in Ctxs : OwnValue(k), [Next]_vars
  PROVE  \A k \in Ctxs : OwnValue(k)'
<1>1. ASSUME NEW k \in Ctxs, ctx'[k] = ctx[k] PROVE OwnValue(k)'
  BY <1>1 DEF OwnValue
<1>2. ASSUME UNCHANGED ctx PROVE \A k \in Ctxs : OwnValue(k)'
  BY <1>1, <1>2
<1>3. ASSUME NEW k \in Ctxs, Answers(k) PROVE \A j \in Ctxs : OwnValue(j)'
  <2>1. PICK status \in Statuses, appends \in BOOLEAN :
          Responded(k, status, appends) /\ ctx[k].phase \in {"read", "serve"}
    BY <1>3 DEF Answers
  <2>2. ctx[k].value = <<>>
    BY <2>1 DEF OwnValue
  <2>3. ctx'[k].value \in {<<>>, <<ctx'[k].n>>}
    BY <2>1, <2>2 DEF Responded
  <2>4. OwnValue(k)'
    BY <2>1, <2>3 DEF OwnValue, Responded
  <2> QED
    BY <1>1, <2>1, <2>4 DEF Responded
<1>4. ASSUME NEW k \in Ctxs, \A j \in Ctxs \ {k} : ctx'[j] = ctx[j],
             Reads(k) \/ Serves(k) \/ Writes(k)
      PROVE  \A j \in Ctxs : OwnValue(j)'
  <2>1. OwnValue(k)'
    BY <1>4 DEF OwnValue, Reads, Serves, Writes
  <2> QED
    BY <1>1, <1>4, <2>1
<1> QED
  BY <1>2, <1>3, <1>4, NextSteps, ListenerSteps, ConnectionSteps, HandlerSteps,
     RequestSteps, TakeStep, TypeParts DEF Elsewhere, vars

(* A reused context answers its own request only (requestCtx.go:34-41).    *)
THEOREM OwnAnswers == Spec => []AnswersOwn
<1>1. Init => \A k \in Ctxs : OwnValue(k)
  BY DEF Init, Unused, OwnValue
<1>2. TypeOK /\ (\A k \in Ctxs : OwnValue(k)) /\ [Next]_vars
        => (\A k \in Ctxs : OwnValue(k))'
  BY OwnStep
<1>3. (\A k \in Ctxs : OwnValue(k)) => AnswersOwn
  BY DEF OwnValue, AnswersOwn, ToSet
<1> QED
  BY <1>1, <1>2, <1>3, TypeCorrect, PTL DEF Spec

-----------------------------------------------------------------------------
(* What the channel carries: a report under way has a number of its own,   *)
(* and none that was accepted.                                             *)

UnderWay(k) == ctx[k].phase \in {"read", "serve"}

Numbered ==
  /\ \A n \in accepted : n <= received
  /\ \A k \in Ctxs : UnderWay(k) => ctx[k].n <= received /\ ctx[k].n \notin accepted
  /\ \A j, k \in Ctxs : UnderWay(j) /\ UnderWay(k) /\ ctx[j].n = ctx[k].n => j = k

Channel ==
  /\ \A i \in DOMAIN reports : reports[i] \in accepted
  /\ \A i, j \in DOMAIN reports : reports[i] = reports[j] => i = j

ReportsInv == Numbered /\ Channel

LEMMA ReportsStep ==
  ASSUME TypeOK, ReportsInv, [Next]_vars
  PROVE  ReportsInv'
<1>0. /\ ctx \in [Ctxs -> CtxType] /\ received \in Nat /\ reports \in Seq(Number)
      /\ \A n \in accepted : n \in Nat
      /\ \A k \in Ctxs : ctx[k].n \in Nat
  BY BoundAssumption DEF TypeOK, CtxType, Number, BoundAssumption
<1>1. ASSUME UNCHANGED <<reports, accepted>> PROVE Channel'
  BY <1>1 DEF ReportsInv, Channel
<1>2. ASSUME UNCHANGED <<ctx, received, accepted>> PROVE Numbered'
  BY <1>2 DEF ReportsInv, Numbered, UnderWay
<1>3. ASSUME NEW k \in Ctxs, Answers(k), UNCHANGED received,
             Keeps \/ (ctx[k].phase = "serve" /\ Accepts(k))
      PROVE  ReportsInv'
  <2>1. PICK status \in Statuses, appends \in BOOLEAN : Responded(k, status, appends)
    BY <1>3 DEF Answers
  <2>2. /\ \A j \in Ctxs : UnderWay(j)' => UnderWay(j) /\ j # k /\ ctx'[j].n = ctx[j].n
    BY <2>1 DEF Responded, UnderWay
  <2>3. CASE Keeps
    <3>1. Numbered'
      BY <1>3, <2>2, <2>3 DEF Keeps, ReportsInv, Numbered
    <3> QED
      BY <1>1, <2>3, <3>1 DEF Keeps, ReportsInv
  <2>4. CASE ctx[k].phase = "serve" /\ Accepts(k)
    <3>1. UnderWay(k) /\ ctx[k].n \notin accepted /\ ctx[k].n <= received
      BY <2>4 DEF UnderWay, ReportsInv, Numbered
    <3>2. accepted' = accepted \cup {ctx[k].n}
      BY <2>4 DEF Accepts
    <3>3. Numbered'
      BY <1>3, <2>2, <3>1, <3>2 DEF ReportsInv, Numbered
    <3>4. CASE reports' = reports
      BY <3>2, <3>3, <3>4 DEF ReportsInv, Channel
    <3>5. CASE reports' = Append(reports, ctx[k].n)
      <4>1. /\ DOMAIN reports = 1..Len(reports) /\ Len(reports) \in Nat
            /\ DOMAIN reports' = 1..(Len(reports) + 1)
            /\ reports'[Len(reports) + 1] = ctx[k].n
            /\ \A i \in 1..Len(reports) : reports'[i] = reports[i]
        BY <1>0, <3>5
      <4>2. \A i \in 1..Len(reports) : reports[i] # ctx[k].n
        BY <3>1, <4>1 DEF ReportsInv, Channel
      <4>3. \A i \in DOMAIN reports' : i \in 1..Len(reports) \/ i = Len(reports) + 1
        BY <4>1
      <4> HIDE DEF Channel
      <4>4. \A i \in DOMAIN reports' : reports'[i] \in accepted'
        BY <3>2, <4>1, <4>3 DEF ReportsInv, Channel
      <4>5. \A i, j \in DOMAIN reports' : reports'[i] = reports'[j] => i = j
        BY <4>1, <4>2, <4>3 DEF ReportsInv, Channel
      <4> QED
        BY <3>3, <4>4, <4>5 DEF ReportsInv, Channel
    <3> QED
      BY <2>4, <3>3, <3>4, <3>5 DEF ReportsInv, Accepts
  <2> QED
    BY <1>3, <2>3, <2>4
<1>4. ASSUME NEW k \in Ctxs, \A j \in Ctxs \ {k} : ctx'[j] = ctx[j],
             Reads(k) \/ Serves(k) \/ Writes(k)
      PROVE  ReportsInv'
  <2>1. CASE Reads(k)
    <3>1. /\ received' = received + 1 /\ ctx'[k].n = received + 1
          /\ UNCHANGED <<reports, accepted>>
      BY <2>1 DEF Reads, server
    <3>2. Numbered'
      BY <1>0, <1>4, <3>1 DEF ReportsInv, Numbered, UnderWay
    <3> QED
      BY <1>1, <3>1, <3>2 DEF ReportsInv
  <2>2. CASE Serves(k) \/ Writes(k)
    <3>1. UNCHANGED <<received, reports, accepted>>
      BY <2>2 DEF Serves, Writes, server
    <3>2. \A j \in Ctxs : UnderWay(j)' => UnderWay(j) /\ ctx'[j].n = ctx[j].n
      BY <1>4, <2>2 DEF Serves, Writes, UnderWay
    <3>3. Numbered'
      BY <3>1, <3>2 DEF ReportsInv, Numbered
    <3> QED
      BY <1>1, <3>1, <3>3 DEF ReportsInv
  <2> QED
    BY <1>4, <2>1, <2>2
<1>5. CASE TakeReport
  <2>1. /\ UNCHANGED <<ctx, received, accepted>> /\ DOMAIN reports' \subseteq Nat
        /\ \A i \in DOMAIN reports' :
             i + 1 \in DOMAIN reports /\ reports'[i] = reports[i + 1]
    BY <1>5, TakeStep
  <2>2. \A i \in DOMAIN reports' : reports'[i] \in accepted'
    BY <2>1 DEF ReportsInv, Channel
  <2>3. \A i, j \in DOMAIN reports' : reports'[i] = reports'[j] => i = j
    <3> SUFFICES ASSUME NEW i \in DOMAIN reports', NEW j \in DOMAIN reports',
                        reports'[i] = reports'[j]
                 PROVE  i = j
      OBVIOUS
    <3>1. i + 1 = j + 1
      BY <2>1 DEF ReportsInv, Channel
    <3> QED
      BY ONLY <2>1, <3>1
  <2> QED
    BY <1>2, <2>1, <2>2, <2>3 DEF ReportsInv, Channel
<1>6. ASSUME Elsewhere PROVE ReportsInv'
  BY <1>1, <1>2, <1>6 DEF Elsewhere, server, ReportsInv
<1>7. CASE UNCHANGED vars
  BY <1>6, <1>7 DEF vars, Elsewhere
<1> QED
  BY <1>3, <1>4, <1>5, <1>6, <1>7, NextSteps, ListenerSteps, ConnectionSteps,
     HandlerSteps, RequestSteps, TypeParts

(* Reports returns what was accepted, each report once (server.go:181).    *)
THEOREM Reported == Spec => []ReportsAccepted
<1>1. Init => ReportsInv
  BY DEF Init, Unused, ReportsInv, Numbered, Channel, UnderWay
<1>2. TypeOK /\ ReportsInv /\ [Next]_vars => ReportsInv'
  BY ReportsStep
<1>3. ReportsInv => ReportsAccepted
  BY DEF ReportsInv, Channel, ReportsAccepted, ToSet, IsInjective
<1> QED
  BY <1>1, <1>2, <1>3, TypeCorrect, PTL DEF Spec

-----------------------------------------------------------------------------
(* The two checks of a certificate, the client's and the server's.         *)

LEMMA NatSetInduction ==
  ASSUME NEW N, 0 \in N, \A n \in Nat : n \in N => n + 1 \in N
  PROVE  Nat \subseteq N
<1> SUFFICES ASSUME ~(Nat \subseteq N) PROVE FALSE
  OBVIOUS
<1> DEFINE rest == Nat \ N
           less == OpToRel(<, Nat)
<1>1. rest \subseteq Nat /\ rest # {}
  OBVIOUS
<1>2. IsWellFoundedOn(less, Nat)
  BY NatLessThanWellFounded
<1>3. \A x, y \in Nat : <<x, y>> \in less <=> x < y
  BY DEF OpToRel
<1>4. \E x \in rest : \A y \in rest : ~(<<y, x>> \in less)
  <2> HIDE DEF less, rest
  <2> QED
    BY <1>1, <1>2, WFMin
<1>5. PICK x \in rest : \A y \in rest : ~(y < x)
  <2> HIDE DEF less
  <2> QED
    BY <1>3, <1>4
<1>6. x # 0 /\ x - 1 \in Nat /\ x - 1 < x /\ x - 1 + 1 = x
  BY <1>5
<1> QED
  BY <1>5, <1>6

(* The issuers above a CA, as far up as ChainsUp looks.                    *)
Above(ca, u, n) == IF n = 0 THEN ca ELSE Issuer[u[n - 1]]
IsUp(ca, u) == u = [n \in 0..Cardinality(CAs) |-> Above(ca, u, n)]

LEMMA UpExists ==
  ASSUME NEW ca
  PROVE  \E u : IsUp(ca, u)
<1> DEFINE Up(n, u) == u = [m \in 0..n |-> Above(ca, u, m)]
           N == {n \in Nat : \E u : Up(n, u)}
<1>1. 0 \in N
  <2>1. Up(0, [m \in 0..0 |-> ca])
    BY DEF Above
  <2> QED
    BY <2>1
<1>2. \A n \in Nat : n \in N => n + 1 \in N
  <2> HIDE DEF Up
  <2> SUFFICES ASSUME NEW n \in Nat, NEW u, Up(n, u)
               PROVE  \E v : Up(n + 1, v)
    OBVIOUS
  <2> USE DEF Up
  <2> DEFINE v == [m \in 0..(n + 1) |-> Above(ca, u, m)]
  <2>1. \A m \in 0..n : m \in 0..(n + 1) /\ u[m] = Above(ca, u, m)
    OBVIOUS
  <2>2. \A m \in 0..n : v[m] = u[m]
    BY <2>1
  <2>3. \A m \in 0..(n + 1) : m # 0 => m - 1 \in 0..n
    OBVIOUS
  <2>4. \A m \in 0..(n + 1) : Above(ca, u, m) = Above(ca, v, m)
    BY <2>2, <2>3 DEF Above
  <2>5. Up(n + 1, v)
    BY <2>4
  <2> QED
    BY <2>5
<1>3. Nat \subseteq N
  <2> HIDE DEF N
  <2> QED
    BY <1>1, <1>2, NatSetInduction
<1>4. Cardinality(CAs) \in Nat
  BY CAsAssumption, FS_CardinalityType DEF CAsAssumption
<1> QED
  BY <1>3, <1>4 DEF IsUp

(* What ChainsUp asks, of the issuers above a CA.                          *)
ChainsBy(u, roots, intermediates) ==
  \E n \in DOMAIN u : u[n] \in roots /\ \A k \in 0..(n - 1) : u[k] \in intermediates

LEMMA ChainsUpIs ==
  ASSUME NEW ca
  PROVE  \E u : /\ IsUp(ca, u)
                /\ \A roots, intermediates :
                     ChainsUp(ca, roots, intermediates) <=> ChainsBy(u, roots, intermediates)
<1> DEFINE P(u) == u = [n \in 0..Cardinality(CAs) |->
                          IF n = 0 THEN ca ELSE Issuer[u[n - 1]]]
           up == CHOOSE u : P(u)
<1>1. \A roots, intermediates :
        ChainsUp(ca, roots, intermediates) <=> ChainsBy(up, roots, intermediates)
  BY DEF ChainsUp, ChainsBy
<1>2. \A u : IsUp(ca, u) <=> P(u)
  BY DEF IsUp, Above
<1> HIDE DEF P
<1>3. P(up)
  BY <1>2, UpExists
<1> QED
  BY <1>1, <1>2, <1>3

(* More CAs to build it of break no chain.                                 *)
LEMMA MoreChains ==
  ASSUME NEW ca, NEW less, NEW roots, less \subseteq roots,
         NEW fewer, NEW intermediates, fewer \subseteq intermediates,
         ChainsUp(ca, less, fewer)
  PROVE  ChainsUp(ca, roots, intermediates)
BY ChainsUpIs DEF ChainsBy

(* A root needs no chain, and under it one intermediate is a chain.        *)
LEMMA ShortChains ==
  ASSUME NEW ca \in CAs, NEW roots, NEW intermediates,
         \/ ca \in roots
         \/ ca \in intermediates /\ Issuer[ca] \in roots
  PROVE  ChainsUp(ca, roots, intermediates)
<1>1. PICK u : /\ IsUp(ca, u)
               /\ ChainsUp(ca, roots, intermediates) <=> ChainsBy(u, roots, intermediates)
  BY ChainsUpIs
<1>2. Cardinality(CAs) \in Nat \ {0}
  BY CAsAssumption, FS_CardinalityType, FS_EmptySet DEF CAsAssumption
<1>3. /\ DOMAIN u = 0..Cardinality(CAs)
      /\ \A n \in 0..Cardinality(CAs) : u[n] = Above(ca, u, n)
  BY <1>1 DEF IsUp
<1>4. /\ 0 \in DOMAIN u /\ 1 \in DOMAIN u
      /\ u[0] = ca /\ u[1] = Issuer[ca]
  BY <1>2, <1>3 DEF Above
<1>5. \A k \in 0..(0 - 1) : FALSE
  OBVIOUS
<1>6. \A k \in 0..(1 - 1) : k = 0
  OBVIOUS
<1>7. ChainsBy(u, roots, intermediates)
  BY <1>4, <1>5, <1>6 DEF ChainsBy
<1> QED
  BY <1>1, <1>7

(* mtls.go:144-146 promises that a certificate the cloud would refuse is   *)
(* reported when it is handed to the SDK.  That holds, and the two checks  *)
(* are one but for the status and the uuid, where the client and the       *)
(* server have the same CAs and nothing is bundled that the server has not *)
(* got itself.                                                             *)
THEOREM ChecksAgree ==
  ASSUME NEW check, NEW auth, NEW bundle,
         check.roots = auth.Roots, check.intermediates = auth.Intermediates,
         bundle.intermediates \subseteq auth.Intermediates,
         bundle.itsKey \in BOOLEAN
  PROVE  /\ bundle.itsKey /\ AuthenticateClientCertificate(bundle, auth)
              => Loads(check, bundle)
         /\ Loads(check, bundle)
              => /\ CheckTLS(bundle.leaf, auth.Roots, auth.Intermediates)
                 /\ \/ AuthenticateClientCertificate(bundle, auth)
                    \/ auth.RequireOCSP /\ ~bundle.leaf.good
                    \/ bundle.leaf.uuid = "bad"
<1>1. check.intermediates \cup bundle.intermediates = auth.Intermediates
  OBVIOUS
<1> QED
  BY <1>1 DEF Loads, AuthenticateClientCertificate

(* The client is never the stricter of the two, whatever is bundled: with  *)
(* pools that hold at least the server's CAs it loads, with its key, every *)
(* certificate the server serves.                                          *)
THEOREM ServedCanBeLoaded ==
  ASSUME NEW check, NEW auth, NEW bundle,
         auth.Roots \subseteq check.roots,
         auth.Intermediates \subseteq check.intermediates \cup bundle.intermediates,
         bundle.itsKey, AuthenticateClientCertificate(bundle, auth)
  PROVE  Loads(check, bundle)
BY MoreChains DEF Loads, AuthenticateClientCertificate, CheckTLS

(* cmd/touch-check against cmd/test-cloud, each given the same file of     *)
(* CAs: what the cloud serves the command can present.                     *)
THEOREM TouchCheckLoads ==
  ASSUME NEW clientCA, clientCA # {}, NEW requireOCSP, NEW bundle, bundle.itsKey,
         AuthenticateClientCertificate(bundle, LoadTLSConfig(clientCA, requireOCSP))
  PROVE  Loads(NewCertCheck(TouchCheckConfig(clientCA)), bundle)
<1> DEFINE auth == LoadTLSConfig(clientCA, requireOCSP)
           check == NewCertCheck(TouchCheckConfig(clientCA))
<1>1. auth.Roots = clientCA /\ auth.Intermediates = {}
  BY DEF LoadTLSConfig
<1>2. check.roots = clientCA
  BY DEF NewCertCheck, TouchCheckConfig, LoadPool, OrDefault, Pool, NilPool
<1> HIDE DEF auth, check
<1>3. AuthenticateClientCertificate(bundle, auth)
  BY DEF auth
<1>4. Loads(check, bundle)
  BY <1>1, <1>2, <1>3, ServedCanBeLoaded
<1> QED
  BY <1>4 DEF check

(* The CAs embedded in the SDK are enough by themselves: a sound           *)
(* certificate of the root among them, or of an intermediate under it, is  *)
(* loaded with nothing configured and nothing bundled.                     *)
THEOREM DefaultsLoad ==
  ASSUME NEW bundle, bundle.itsKey, bundle.leaf.sound,
         bundle.leaf.issuer \in MyGaruCAChain,
         Issuer[bundle.leaf.issuer] \in MyGaruRoots
  PROVE  Loads(NewCertCheck([ClientCertRoots |-> NilPool,
                             ClientCertIntermediates |-> NilPool]), bundle)
<1> DEFINE check == NewCertCheck([ClientCertRoots |-> NilPool,
                                  ClientCertIntermediates |-> NilPool])
           ca == bundle.leaf.issuer
<1>1. check.roots = MyGaruRoots /\ check.intermediates = MyGaruCAChain \ MyGaruRoots
  BY DEF NewCertCheck, OrDefault, NilPool
<1>2. ca \in CAs
  BY ChainAssumption DEF ChainAssumption
<1>3. \/ ca \in check.roots
      \/ ca \in check.intermediates \cup bundle.intermediates /\ Issuer[ca] \in check.roots
  BY <1>1
<1>4. ChainsUp(ca, check.roots, check.intermediates \cup bundle.intermediates)
  <2> HIDE DEF check, ca
  <2> QED
    BY <1>2, <1>3, ShortChains
<1> QED
  BY <1>4 DEF Loads, CheckTLS

(* The test PKI (internal/testpki) hands a test both ends: for any client  *)
(* CA and any uuid, the client it configures loads the certificate it      *)
(* issues, and the server it configures authenticates it.                  *)
THEOREM TestPKIWorks ==
  ASSUME NEW clientCA \in CAs, NEW uuid \in Partners
  PROVE  LET pki == NewCertificates(clientCA, uuid) IN
         /\ Loads(NewCertCheck([ClientCertRoots |-> Pool(pki.ClientRoots),
                                ClientCertIntermediates |-> NilPool]), pki.client)
         /\ AuthenticateClientCertificate(pki.client, pki.auth)
<1> DEFINE pki == NewCertificates(clientCA, uuid)
           check == NewCertCheck([ClientCertRoots |-> Pool(pki.ClientRoots),
                                  ClientCertIntermediates |-> NilPool])
<1>1. /\ pki.client.leaf.issuer = clientCA /\ pki.client.leaf.sound
      /\ pki.client.itsKey /\ pki.client.leaf.uuid = uuid
      /\ pki.auth.Roots = {clientCA} /\ ~pki.auth.RequireOCSP
      /\ check.roots = {clientCA}
  BY DEF NewCertificates, NewClientCertificate, NewCertCheck, OrDefault, Pool
<1>2. uuid # "bad"
  BY PartnersAssumption DEF PartnersAssumption
<1> HIDE DEF pki, check
<1>3. \A intermediates : CheckTLS(pki.client.leaf, {clientCA}, intermediates)
  BY <1>1, ShortChains DEF CheckTLS
<1>4. Loads(check, pki.client) /\ AuthenticateClientCertificate(pki.client, pki.auth)
  BY <1>1, <1>2, <1>3 DEF Loads, AuthenticateClientCertificate
<1> QED
  BY <1>4 DEF pki, check

=============================================================================
