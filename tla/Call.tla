-------------------------------- MODULE Call --------------------------------
(***************************************************************************)
(* One Target, Report or Touch, from the request the application built to  *)
(* the status it gets back (pkg/client: shardedClient.go, payer.go,        *)
(* client.go).  The payers are resolved and stamped into the application's *)
(* own request, which it may correct and send again; then the call takes   *)
(* its turn on a connection, is counted, waits for fastrpc, and the answer *)
(* is sorted into one of the counters.                                     *)
(*                                                                         *)
(* A payer is written as text: nothing, something uuid.Parse refuses, or   *)
(* the spelling of a uuid, canonical (what UUID.String writes) or not; the *)
(* uuid may be the all-zero one.  Which client of the pool comes next is   *)
(* the subject of RoundRobin; here any may.  What fastrpc and the cloud do *)
(* with a request is external.                                             *)
(***************************************************************************)
EXTENDS Naturals, Sequences, FiniteSets

CONSTANTS
  Callers,          \* goroutines of the application, one request object each
  Payers,           \* the uuids of partners
  Clients,          \* the connections of the pool
  Requests,         \* requests the application starts from
  Texts,            \* payers it may write into a request later
  Refusals,         \* statuses the cloud answers besides OK
  MaxPending,       \* Configuration.MaxPendingRequests
  MaxCalls          \* bound: calls of Target, Report and Touch

Zero == "zero"      \* uuid.Nil
Failed == "failed"  \* an error in place of a uuid
NoText == [form |-> "empty", uuid |-> Zero]
Malformed == [form |-> "malformed", uuid |-> Zero]
Spellings == [form : {"canonical", "other"}, uuid : Payers \cup {Zero}]
AllTexts == {NoText, Malformed} \cup Spellings
NilRule == [form |-> "nil", uuid |-> Zero]      \* a nil pointer in the rules
Rules == Seq(AllTexts \cup {NilRule})

(* Of a message: its kind, whether TrackingId is set, the payer (of a      *)
(* Report), the payers of its rules, and whether the rest of it marshals,  *)
(* to something or to nothing.                                             *)
Messages ==
  [kind : {"target", "report", "touch"}, tracking : BOOLEAN,
   payer : AllTexts, rules : Rules, rest : {"some", "none", "bad"}]

ASSUME PayersAssumption == Zero \notin Payers /\ Failed \notin Payers
ASSUME RefusalsAssumption == "OK" \notin Refusals
ASSUME RequestsAssumption == Requests \subseteq Messages /\ Texts \subseteq AllTexts
ASSUME TouchAssumption == \A r \in Requests : r.kind = "touch" => r.rules = <<>>
ASSUME ClientsAssumption == Clients # {} /\ IsFiniteSet(Callers)
ASSUME BoundsAssumption == MaxPending \in Nat \ {0} /\ MaxCalls \in Nat

Counters == {"request", "success", "failed", "timeout", "overflow", "error"}
Statuses == {"OK", "UNKNOWN", "INVALID_REQUEST", "NETWORK_ERROR"} \cup Refusals
NotCalled == [status |-> "none", err |-> FALSE]

VARIABLES
  req,              \* the request object of each caller
  pc,               \* how far its call is
  on,               \* the client whose turn it was
  result,           \* what the last call returned, NotCalled during one
  metrics,          \* the metricsGroup
  calls,            \* calls made, for MaxCalls
  asked,            \* history: req as the application itself wrote it
  told,             \* history: payers it reported this request under
  reached,          \* history: the call under way was written to the cloud
  unread            \* history: answers that were OK and did not unmarshal

vars == <<req, pc, on, result, metrics, calls, asked, told, reached, unread>>

TypeOK ==
  /\ req \in [Callers -> Messages] /\ asked \in [Callers -> Messages]
  /\ pc \in [Callers -> {"idle", "turn", "ready", "waiting"}]
  /\ on \in [Callers -> Clients]
  /\ result \in [Callers ->
       {NotCalled} \cup [status : Statuses, err : BOOLEAN]]
  /\ metrics \in [Counters -> Nat] /\ calls \in 0..MaxCalls
  /\ told \in [Callers -> SUBSET Payers]
  /\ reached \in [Callers -> BOOLEAN] /\ unread \in Nat

-----------------------------------------------------------------------------
(* Payers: Failed stands for every error of the two resolutions.           *)

String(uuid) == [form |-> "canonical", uuid |-> uuid]

ResolveRequestPayer(text) ==
  IF text.form = "malformed" \/ text.uuid = Zero THEN Failed ELSE text.uuid

(* Mutant: the all-zero uuid is taken for a partner.                       *)
ResolveRulePayer_ZeroNamed(text, default) ==
  IF text.form = "malformed" THEN Failed
  ELSE IF text.form # "empty" THEN text.uuid
  ELSE IF default # Zero THEN default ELSE Failed

(* Mutant: the fallback overwrites what the rule names.                    *)
ResolveRulePayer_DefaultWins(text, default) ==
  IF text.form = "malformed" THEN Failed
  ELSE IF default # Zero THEN default
  ELSE IF text.uuid # Zero THEN text.uuid ELSE Failed

ResolveRulePayer(text, default) ==
  IF text.form = "malformed" THEN Failed
  ELSE IF text.uuid # Zero THEN text.uuid
  ELSE IF default # Zero THEN default ELSE Failed

(* Rules are stamped in order, up to the first one that is refused.        *)
Refuses(rule, default) ==
  rule = NilRule \/ ResolveRulePayer(rule, default) = Failed

ApplyRulePayers(rules, default) ==
  [i \in DOMAIN rules |->
    IF \E j \in 1..i : Refuses(rules[j], default)
    THEN rules[i]
    ELSE String(ResolveRulePayer(rules[i], default))]

AnyRefused(rules, default) == \E i \in DOMAIN rules : Refuses(rules[i], default)

-----------------------------------------------------------------------------
Init ==
  /\ req \in [Callers -> Requests]
  /\ asked = req
  /\ pc = [p \in Callers |-> "idle"]
  /\ on = [p \in Callers |-> CHOOSE c \in Clients : TRUE]
  /\ result = [p \in Callers |-> NotCalled]
  /\ metrics = [k \in Counters |-> 0]
  /\ calls = 0
  /\ told = [p \in Callers |-> {}]
  /\ reached = [p \in Callers |-> FALSE]
  /\ unread = 0

Count(k) == metrics' = [metrics EXCEPT ![k] = @ + 1]

Return(p, status, err) ==
  /\ pc' = [pc EXCEPT ![p] = "idle"]
  /\ result' = [result EXCEPT ![p] = [status |-> status, err |-> err]]

Called(p, kind) ==
  /\ pc[p] = "idle" /\ req[p].kind = kind
  /\ calls < MaxCalls /\ calls' = calls + 1
  /\ reached' = [reached EXCEPT ![p] = FALSE]

Proceed(p) ==
  /\ pc' = [pc EXCEPT ![p] = "turn"]
  /\ result' = [result EXCEPT ![p] = NotCalled]

(* The application corrects its request before it tries again.             *)
SetPayer(p, text) ==
  /\ pc[p] = "idle" /\ calls \in 1..(MaxCalls - 1)
  /\ req[p].kind = "report"
  /\ req' = [req EXCEPT ![p].payer = text]
  /\ asked' = [asked EXCEPT ![p].payer = text]
  /\ UNCHANGED <<pc, on, result, metrics, calls, told, reached, unread>>

SetRulePayer(p, i, text) ==
  /\ pc[p] = "idle" /\ calls \in 1..(MaxCalls - 1)
  /\ req' = [req EXCEPT ![p].rules[i] = text]
  /\ asked' = [asked EXCEPT ![p].rules[i] = text]
  /\ UNCHANGED <<pc, on, result, metrics, calls, told, reached, unread>>

-----------------------------------------------------------------------------
(* Stamp the rules; refuse the call, or let it take its turn.              *)
Stamp(p, default) ==
  LET rules == req[p].rules IN
  /\ req' = [req EXCEPT ![p].rules = ApplyRulePayers(rules, default),
                        ![p].payer = IF default = Zero THEN @ ELSE String(default)]
  /\ IF AnyRefused(rules, default)
     THEN Return(p, "INVALID_REQUEST", TRUE)
     ELSE Proceed(p)

Target(p) ==
  /\ Called(p, "target")
  /\ Stamp(p, Zero)
  /\ UNCHANGED <<on, metrics, asked, told, unread>>

ReportUntracked(p) ==
  /\ Called(p, "report")
  /\ ~req[p].tracking
  /\ Return(p, "UNKNOWN", TRUE)
  /\ UNCHANGED <<req, on, metrics, asked, told, unread>>

Report(p) ==
  LET payer == ResolveRequestPayer(req[p].payer) IN
  /\ Called(p, "report")
  /\ req[p].tracking
  /\ \/ /\ payer = Failed
        /\ Return(p, "INVALID_REQUEST", TRUE)
        /\ UNCHANGED <<req, told>>
     \/ /\ payer # Failed
        /\ Stamp(p, payer)
        /\ told' = [told EXCEPT ![p] = @ \cup {payer}]
  /\ UNCHANGED <<on, metrics, asked, unread>>

Touch(p) ==
  /\ Called(p, "touch")
  /\ Proceed(p)
  /\ UNCHANGED <<req, on, metrics, asked, told, unread>>

TakeTurn(p, c) ==
  /\ pc[p] = "turn"
  /\ pc' = [pc EXCEPT ![p] = "ready"]
  /\ on' = [on EXCEPT ![p] = c]
  /\ UNCHANGED <<req, result, metrics, calls, asked, told, reached, unread>>

-----------------------------------------------------------------------------
(* doUnary.  A rule, a payer or a tracking id is on the wire: only a       *)
(* message without any of them can be empty.                               *)

Marshaled(r) ==
  CASE r.rest = "bad" -> "error"
    [] r.rest = "none" /\ r.rules = <<>> /\ r.kind # "report" -> "empty"
    [] OTHER -> "bytes"

NotMarshaled(p) ==
  /\ pc[p] = "ready"
  /\ Marshaled(req[p]) \in {"error", "empty"}
  /\ Return(p, "UNKNOWN", TRUE)
  /\ UNCHANGED <<req, on, metrics, calls, asked, told, reached, unread>>

(* Requests fastrpc holds for a client (external).                         *)
PendingOn(c) == {p \in Callers : pc[p] = "waiting" /\ on[p] = c}

DoDeadline(p) ==
  /\ pc[p] = "ready" /\ Marshaled(req[p]) = "bytes"
  /\ Cardinality(PendingOn(on[p])) < MaxPending
  /\ Count("request")
  /\ pc' = [pc EXCEPT ![p] = "waiting"]
  /\ UNCHANGED <<req, on, result, calls, asked, told, reached, unread>>

(* ErrPendingRequestsOverflow, at once.                                    *)
Overflow(p) ==
  /\ pc[p] = "ready" /\ Marshaled(req[p]) = "bytes"
  /\ Cardinality(PendingOn(on[p])) >= MaxPending
  /\ metrics' = [metrics EXCEPT !["request"] = @ + 1, !["overflow"] = @ + 1]
  /\ Return(p, "NETWORK_ERROR", TRUE)
  /\ UNCHANGED <<req, on, calls, asked, told, reached, unread>>

(* fastrpc writes the request to the connection (external).                *)
Reach(p) ==
  /\ pc[p] = "waiting" /\ ~reached[p]
  /\ reached' = [reached EXCEPT ![p] = TRUE]
  /\ UNCHANGED <<req, pc, on, result, metrics, calls, asked, told, unread>>

(* Mutant: the call returns before it has a status.                        *)
Fail_NoStatus(p, kind) ==
  /\ pc[p] = "waiting"
  /\ kind \in {"timeout", "error"}
  /\ Count(kind)
  /\ Return(p, "none", TRUE)
  /\ UNCHANGED <<req, on, calls, asked, told, reached, unread>>

(* Mutant: the status of the reset response is returned.                   *)
Fail_PooledStatus(p, kind) ==
  /\ pc[p] = "waiting"
  /\ kind \in {"timeout", "error"}
  /\ Count(kind)
  /\ Return(p, "OK", TRUE)
  /\ UNCHANGED <<req, on, calls, asked, told, reached, unread>>

(* fastrpc gives up, before or after the request was written.              *)
Fail(p, kind) ==
  /\ pc[p] = "waiting"
  /\ kind \in {"timeout", "error"}
  /\ Count(kind)
  /\ Return(p, "NETWORK_ERROR", TRUE)
  /\ UNCHANGED <<req, on, calls, asked, told, reached, unread>>

(* Mutant: a refused answer is not passed to countError.                   *)
AnswerRefused_Uncounted(p, status) ==
  /\ pc[p] = "waiting" /\ reached[p]
  /\ Return(p, status, TRUE)
  /\ UNCHANGED <<req, on, metrics, calls, asked, told, reached, unread>>

AnswerRefused(p, status) ==
  /\ pc[p] = "waiting" /\ reached[p]
  /\ Count("failed")
  /\ Return(p, status, TRUE)
  /\ UNCHANGED <<req, on, calls, asked, told, reached, unread>>

(* A Report has no response message to unmarshal.                          *)
AnswerUnread(p) ==
  /\ pc[p] = "waiting" /\ reached[p]
  /\ req[p].kind # "report"
  /\ unread' = unread + 1
  /\ Return(p, "OK", TRUE)
  /\ UNCHANGED <<req, on, metrics, calls, asked, told, reached>>

AnswerOK(p) ==
  /\ pc[p] = "waiting" /\ reached[p]
  /\ Count("success")
  /\ Return(p, "OK", FALSE)
  /\ UNCHANGED <<req, on, calls, asked, told, reached, unread>>

-----------------------------------------------------------------------------
Apply(p) ==
  \/ \E t \in Texts : SetPayer(p, t)
  \/ \E i \in DOMAIN req[p].rules, t \in Texts : SetRulePayer(p, i, t)
  \/ Target(p) \/ ReportUntracked(p) \/ Report(p) \/ Touch(p)

DoUnary(p) ==
  \/ \E c \in Clients : TakeTurn(p, c)
  \/ NotMarshaled(p) \/ DoDeadline(p) \/ Overflow(p) \/ Reach(p)
  \/ \E k \in {"timeout", "error"} : Fail(p, k)
  \/ \E s \in Refusals : AnswerRefused(p, s)
  \/ AnswerUnread(p) \/ AnswerOK(p)

Next == \E p \in Callers : Apply(p) \/ DoUnary(p)

Spec == Init /\ [][Next]_vars

-----------------------------------------------------------------------------
Sent(p) == pc[p] = "waiting"

(* README.md:163, "a rule that names a payer keeps it": whatever is sent   *)
(* bills the client the application named on a rule, and a rule it left    *)
(* empty a payer it reported this request under.  Across refused calls,    *)
(* corrections and resubmissions: the SDK writes into the same object.     *)
KeepsNamed ==
  \A p \in Callers : Sent(p) =>
    \A i \in DOMAIN req[p].rules :
      IF asked[p].rules[i].uuid # Zero
      THEN req[p].rules[i].uuid = asked[p].rules[i].uuid
      ELSE req[p].rules[i].uuid \in told[p]

(* README.md:139-142: nothing is sent unless every payer it needs is a     *)
(* partner, spelled as the cloud spells it.                                *)
Named(text) == text.form = "canonical" /\ text.uuid # Zero
NothingUnpaid ==
  \A p \in Callers : Sent(p) =>
    /\ \A i \in DOMAIN req[p].rules : Named(req[p].rules[i])
    /\ req[p].kind = "report" => Named(req[p].payer)

(* client.go:107-129: a request is counted once when it is made and once   *)
(* when it is over, however it ends, except when its answer was OK and     *)
(* could not be read, which no counter shows.                              *)
Accounted ==
  metrics["request"] =
    metrics["success"] + metrics["failed"] + metrics["timeout"] +
    metrics["overflow"] + metrics["error"] + unread +
    Cardinality({p \in Callers : Sent(p)})

(* client.go:110-130: a call without an error was answered by the cloud.   *)
SuccessReached ==
  \A p \in Callers : pc[p] = "idle" /\ result[p].status = "OK" => reached[p]

(* README.md:544: "`status != OK` means the request reached the server, but*)
(* the server returned a non-success application status".  Expected to be  *)
(* violated: the client itself returns INVALID_REQUEST, UNKNOWN and        *)
(* NETWORK_ERROR for requests that never left it.                          *)
NotOKReached ==
  \A p \in Callers :
    pc[p] = "idle" /\ result[p].status \notin {"none", "OK"} => reached[p]

(* The inductive invariant behind KeepsNamed and NothingUnpaid: what was   *)
(* stamped is what the application named or reported under, and a call     *)
(* that got past Stamp has every payer.                                    *)
StampInv ==
  \A p \in Callers :
    /\ req[p].kind = asked[p].kind /\ DOMAIN req[p].rules = DOMAIN asked[p].rules
    /\ req[p].kind = "touch" => DOMAIN req[p].rules = {}
    /\ \A i \in DOMAIN req[p].rules :
         IF asked[p].rules[i].uuid # Zero
         THEN req[p].rules[i].uuid = asked[p].rules[i].uuid
         ELSE req[p].rules[i].uuid \in told[p] \cup {Zero}
    /\ pc[p] # "idle" =>
         /\ \A i \in DOMAIN req[p].rules : Named(req[p].rules[i])
         /\ req[p].kind = "report" => Named(req[p].payer)

=============================================================================
