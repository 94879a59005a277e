---------------------------- MODULE Call_proofs -----------------------------
(* Proofs about Call: any callers, payers, requests and corrections.       *)
EXTENDS Call, SequenceTheorems, FiniteSetTheorems, TLAPS

(* A function from 1..n is a sequence.                                     *)
LEMMA IsSequence ==
  ASSUME NEW S, NEW n \in Nat, NEW g \in [1..n -> S]
  PROVE  g \in Seq(S)
BY SeqDef

(* What a resolution returns: a partner, or an error.                      *)
LEMMA RequestPayerType ==
  ASSUME NEW t \in AllTexts
  PROVE  ResolveRequestPayer(t) = Failed \/ ResolveRequestPayer(t) \in Payers
BY DEF AllTexts, Spellings, NoText, Malformed, ResolveRequestPayer

LEMMA RulePayerType ==
  ASSUME NEW t \in AllTexts, NEW d \in Payers \cup {Zero},
         ResolveRulePayer(t, d) # Failed
  PROVE  /\ ResolveRulePayer(t, d) \in Payers
         /\ ResolveRulePayer(t, d) = t.uuid \/ t.uuid = Zero
         /\ t.uuid # Zero \/ ResolveRulePayer(t, d) = d
BY DEF AllTexts, Spellings, NoText, Malformed, ResolveRulePayer

LEMMA StringType ==
  ASSUME NEW u \in Payers
  PROVE  String(u) \in AllTexts /\ Named(String(u)) /\ String(u).uuid = u
BY PayersAssumption DEF PayersAssumption, String, AllTexts, Spellings, Named

(* Rules after stamping: each is as it was or a payer's canonical name.    *)
LEMMA Stamped ==
  ASSUME NEW rules \in Rules, NEW d \in Payers \cup {Zero}
  PROVE  /\ ApplyRulePayers(rules, d) \in Rules
         /\ DOMAIN ApplyRulePayers(rules, d) = DOMAIN rules
         /\ \A i \in DOMAIN rules :
              LET new == ApplyRulePayers(rules, d)[i] IN
              /\ rules[i].uuid # Zero => new.uuid = rules[i].uuid
              /\ rules[i].uuid = Zero => new.uuid \in {Zero, d}
              /\ ~AnyRefused(rules, d) => Named(new)
<1> DEFINE new == ApplyRulePayers(rules, d)
<1>1. DOMAIN new = DOMAIN rules
  BY DEF ApplyRulePayers
<1>2. ASSUME NEW i \in DOMAIN rules
      PROVE  /\ new[i] \in AllTexts \cup {NilRule}
             /\ rules[i].uuid # Zero => new[i].uuid = rules[i].uuid
             /\ rules[i].uuid = Zero => new[i].uuid \in {Zero, d}
             /\ ~AnyRefused(rules, d) => Named(new[i])
  <2>1. rules[i] \in AllTexts \cup {NilRule}
    BY DEF Rules
  <2>2. CASE \E j \in 1..i : Refuses(rules[j], d)
    <3>1. new[i] = rules[i]
      BY <2>2 DEF ApplyRulePayers
    <3>2. AnyRefused(rules, d)
      BY <2>2 DEF AnyRefused, Rules
    <3> QED
      BY <2>1, <3>1, <3>2
  <2>3. CASE ~ \E j \in 1..i : Refuses(rules[j], d)
    <3>1. new[i] = String(ResolveRulePayer(rules[i], d))
      BY <2>3 DEF ApplyRulePayers
    <3>2. ~Refuses(rules[i], d)
      BY <2>3 DEF Rules
    <3>3. rules[i] \in AllTexts /\ ResolveRulePayer(rules[i], d) # Failed
      BY <2>1, <3>2 DEF Refuses
    <3>4. /\ ResolveRulePayer(rules[i], d) \in Payers
          /\ ResolveRulePayer(rules[i], d) = rules[i].uuid \/ rules[i].uuid = Zero
          /\ rules[i].uuid # Zero \/ ResolveRulePayer(rules[i], d) = d
      BY <3>3, RulePayerType
    <3> QED
      BY <3>1, <3>4, StringType
  <2> QED
    BY <2>2, <2>3
<1>3. new \in Rules
  <2>1. Len(rules) \in Nat /\ DOMAIN rules = 1..Len(rules)
    BY DEF Rules
  <2>2. new \in [1..Len(rules) -> AllTexts \cup {NilRule}]
    BY <1>2, <2>1 DEF ApplyRulePayers
  <2> HIDE DEF new
  <2>3. new \in Seq(AllTexts \cup {NilRule})
    BY ONLY <2>1, <2>2, IsSequence
  <2> QED
    BY <2>3 DEF Rules
<1> QED
  BY <1>1, <1>2, <1>3

-----------------------------------------------------------------------------
(* Types.                                                                  *)
MessagesOK ==
  /\ req \in [Callers -> Messages] /\ asked \in [Callers -> Messages]
  /\ told \in [Callers -> SUBSET Payers]

ControlOK ==
  /\ pc \in [Callers -> {"idle", "turn", "ready", "waiting"}]
  /\ on \in [Callers -> Clients]
  /\ result \in [Callers ->
       {NotCalled} \cup [status : Statuses, err : BOOLEAN]]
  /\ reached \in [Callers -> BOOLEAN]

CountsOK == metrics \in [Counters -> Nat] /\ calls \in 0..MaxCalls /\ unread \in Nat

LEMMA TypeParts == TypeOK <=> MessagesOK /\ ControlOK /\ CountsOK
BY DEF TypeOK, MessagesOK, ControlOK, CountsOK

(* Stamp changes the payers of one request, to payers.                     *)
LEMMA StampStep ==
  ASSUME req \in [Callers -> Messages], NEW p \in Callers,
         NEW d \in Payers \cup {Zero}, Stamp(p, d)
  PROVE  /\ req' \in [Callers -> Messages]
         /\ \A q \in Callers \ {p} : req'[q] = req[q]
         /\ req'[p].kind = req[p].kind
         /\ req'[p].rules = ApplyRulePayers(req[p].rules, d)
         /\ req'[p].payer = IF d = Zero THEN req[p].payer ELSE String(d)
<1> DEFINE rs == ApplyRulePayers(req[p].rules, d)
           t == IF d = Zero THEN req[p].payer ELSE String(d)
<1>1. req[p] \in Messages /\ req[p].rules \in Rules /\ req[p].payer \in AllTexts
  BY DEF Messages
<1>2. rs \in Rules
  BY <1>1, Stamped
<1>3. t \in AllTexts
  BY <1>1, StringType
<1>4. req' = [req EXCEPT ![p] = [req[p] EXCEPT !.rules = rs, !.payer = t]]
  BY DEF Stamp
<1> HIDE DEF rs, t
<1>5. [req[p] EXCEPT !.rules = rs, !.payer = t] \in Messages
  BY <1>1, <1>2, <1>3 DEF Messages
<1>6. /\ [req[p] EXCEPT !.rules = rs, !.payer = t].kind = req[p].kind
      /\ [req[p] EXCEPT !.rules = rs, !.payer = t].rules = rs
      /\ [req[p] EXCEPT !.rules = rs, !.payer = t].payer = t
  BY <1>1 DEF Messages
<1> QED
  BY <1>4, <1>5, <1>6 DEF rs, t

LEMMA SetPayerStep ==
  ASSUME NEW f \in [Callers -> Messages], NEW p \in Callers, NEW t \in AllTexts
  PROVE  /\ [f EXCEPT ![p].payer = t] \in [Callers -> Messages]
         /\ [f EXCEPT ![p].payer = t][p].rules = f[p].rules
         /\ [f EXCEPT ![p].payer = t][p].kind = f[p].kind
BY DEF Messages

LEMMA SetRuleStep ==
  ASSUME NEW f \in [Callers -> Messages], NEW p \in Callers, NEW t \in AllTexts, NEW i
  PROVE  /\ [f EXCEPT ![p].rules[i] = t] \in [Callers -> Messages]
         /\ [f EXCEPT ![p].rules[i] = t][p].rules = [f[p].rules EXCEPT ![i] = t]
         /\ [f EXCEPT ![p].rules[i] = t][p].kind = f[p].kind
         /\ [f EXCEPT ![p].rules[i] = t][p].payer = f[p].payer
<1> DEFINE rs == [f[p].rules EXCEPT ![i] = t]
<1>1. f[p] \in Messages /\ f[p].rules \in Rules
  BY DEF Messages
<1>2. rs \in Rules
  <2>1. Len(f[p].rules) \in Nat /\ DOMAIN f[p].rules = 1..Len(f[p].rules)
    BY <1>1 DEF Rules
  <2>2. rs \in [1..Len(f[p].rules) -> AllTexts \cup {NilRule}]
    <3>1. /\ f[p].rules = [j \in 1..Len(f[p].rules) |-> f[p].rules[j]]
          /\ \A j \in 1..Len(f[p].rules) : f[p].rules[j] \in AllTexts \cup {NilRule}
      BY <1>1, <2>1 DEF Rules
    <3>2. DOMAIN rs = 1..Len(f[p].rules)
      BY <2>1
    <3>3. ASSUME NEW j \in 1..Len(f[p].rules)
          PROVE  rs[j] \in AllTexts \cup {NilRule}
      BY <3>1, <2>1
    <3>4. rs = [j \in 1..Len(f[p].rules) |-> rs[j]]
      BY <2>1
    <3> HIDE DEF rs
    <3> QED
      BY <3>3, <3>4
  <2> HIDE DEF rs
  <2>3. rs \in Seq(AllTexts \cup {NilRule})
    BY ONLY <2>1, <2>2, IsSequence
  <2> QED
    BY <2>3 DEF Rules
<1>3. [f EXCEPT ![p].rules[i] = t] = [f EXCEPT ![p] = [f[p] EXCEPT !.rules = rs]]
  OBVIOUS
<1> HIDE DEF rs
<1>4. /\ [f[p] EXCEPT !.rules = rs] \in Messages
      /\ [f[p] EXCEPT !.rules = rs].rules = rs
      /\ [f[p] EXCEPT !.rules = rs].kind = f[p].kind
      /\ [f[p] EXCEPT !.rules = rs].payer = f[p].payer
  BY <1>1, <1>2 DEF Messages
<1> QED
  BY <1>3, <1>4 DEF rs

-----------------------------------------------------------------------------
(* Most actions leave the requests alone, and start no call.               *)
Quiet ==
  /\ UNCHANGED <<req, asked, told>>
  /\ \A q \in Callers : pc'[q] # "idle" => pc[q] # "idle"

LEMMA QuietSteps ==
  ASSUME ControlOK, NEW p \in Callers,
         ReportUntracked(p) \/ DoUnary(p) \/ UNCHANGED vars
  PROVE  Quiet
<1> USE DEF ControlOK, Quiet
<1>1. CASE ReportUntracked(p)
  BY <1>1 DEF ReportUntracked, Called, Return
<1>2. ASSUME NEW c \in Clients, TakeTurn(p, c) PROVE Quiet
  BY <1>2 DEF TakeTurn
<1>3. CASE NotMarshaled(p)
  BY <1>3 DEF NotMarshaled, Return
<1>4. CASE DoDeadline(p)
  BY <1>4 DEF DoDeadline
<1>5. CASE Overflow(p)
  BY <1>5 DEF Overflow, Return
<1>6. CASE Reach(p)
  BY <1>6 DEF Reach
<1>7. ASSUME NEW k \in {"timeout", "error"}, Fail(p, k) PROVE Quiet
  BY <1>7 DEF Fail, Return
<1>8. ASSUME NEW s \in Refusals, AnswerRefused(p, s) PROVE Quiet
  BY <1>8 DEF AnswerRefused, Return
<1>9. CASE AnswerUnread(p)
  BY <1>9 DEF AnswerUnread, Return
<1>10. CASE AnswerOK(p)
  BY <1>10 DEF AnswerOK, Return
<1>11. CASE UNCHANGED vars
  BY <1>11 DEF vars
<1> QED
  BY <1>1, <1>2, <1>3, <1>4, <1>5, <1>6, <1>7, <1>8, <1>9, <1>10, <1>11 DEF DoUnary

LEMMA MessagesStep ==
  ASSUME MessagesOK, ControlOK, [Next]_vars
  PROVE  MessagesOK'
<1> USE DEF MessagesOK
<1>1. ASSUME NEW p \in Callers, NEW t \in Texts, SetPayer(p, t) PROVE MessagesOK'
  BY <1>1, RequestsAssumption, SetPayerStep DEF RequestsAssumption, SetPayer
<1>2. ASSUME NEW p \in Callers, NEW t \in Texts, NEW i, SetRulePayer(p, i, t)
      PROVE  MessagesOK'
  BY <1>2, RequestsAssumption, SetRuleStep DEF RequestsAssumption, SetRulePayer
<1>3. ASSUME NEW p \in Callers, Target(p) PROVE MessagesOK'
  BY <1>3, StampStep DEF Target
<1>4. ASSUME NEW p \in Callers, Report(p) PROVE MessagesOK'
  <2> DEFINE payer == ResolveRequestPayer(req[p].payer)
  <2>1. req[p].payer \in AllTexts
    BY DEF Messages
  <2>2. CASE payer = Failed
    BY <1>4, <2>2 DEF Report
  <2>3. CASE payer # Failed
    <3>1. payer \in Payers
      BY <2>1, <2>3, RequestPayerType
    <3>2. Stamp(p, payer) /\ told' = [told EXCEPT ![p] = @ \cup {payer}]
          /\ asked' = asked
      BY <1>4, <2>3 DEF Report
    <3> HIDE DEF payer
    <3> QED
      BY <3>1, <3>2, StampStep
  <2> QED
    BY <2>2, <2>3
<1>5. ASSUME NEW p \in Callers, Touch(p) PROVE MessagesOK'
  BY <1>5 DEF Touch
<1>6. ASSUME NEW p \in Callers, ReportUntracked(p) \/ DoUnary(p) PROVE MessagesOK'
  BY <1>6, QuietSteps DEF Quiet
<1>7. CASE UNCHANGED vars
  BY <1>7 DEF vars
<1> QED
  BY <1>1, <1>2, <1>3, <1>4, <1>5, <1>6, <1>7 DEF Next, Apply

LEMMA ReturnTypes ==
  ASSUME ControlOK, NEW p \in Callers, NEW s \in Statuses, NEW e \in BOOLEAN,
         Return(p, s, e)
  PROVE  /\ pc' \in [Callers -> {"idle", "turn", "ready", "waiting"}]
         /\ result' \in [Callers ->
              {NotCalled} \cup [status : Statuses, err : BOOLEAN]]
BY DEF ControlOK, Return

LEMMA ControlStep == ControlOK /\ [Next]_vars => ControlOK'
<1> SUFFICES ASSUME ControlOK, [Next]_vars PROVE ControlOK'
  OBVIOUS
<1>s. {"OK", "UNKNOWN", "INVALID_REQUEST", "NETWORK_ERROR"} \subseteq Statuses
      /\ Refusals \subseteq Statuses
  BY DEF Statuses
<1>1. ASSUME NEW p \in Callers, Apply(p) PROVE ControlOK'
  <2>1. ASSUME NEW d, Stamp(p, d)
        PROVE  /\ pc' \in [Callers -> {"idle", "turn", "ready", "waiting"}]
               /\ result' \in [Callers ->
                    {NotCalled} \cup [status : Statuses, err : BOOLEAN]]
    BY <2>1, <1>s, ReturnTypes DEF Stamp, Proceed, ControlOK
  <2>2. ASSUME NEW t \in Texts, SetPayer(p, t) PROVE ControlOK'
    BY <2>2 DEF SetPayer, ControlOK
  <2>3. ASSUME NEW t \in Texts, NEW i, SetRulePayer(p, i, t) PROVE ControlOK'
    BY <2>3 DEF SetRulePayer, ControlOK
  <2>4. CASE Target(p)
    BY <2>1, <2>4 DEF Target, Called, ControlOK
  <2>5. CASE ReportUntracked(p)
    BY <2>5, <1>s, ReturnTypes DEF ReportUntracked, Called, ControlOK
  <2>6. CASE Report(p)
    BY <2>1, <2>6, <1>s, ReturnTypes DEF Report, Called, ControlOK
  <2>7. CASE Touch(p)
    BY <2>7 DEF Touch, Called, Proceed, ControlOK
  <2> QED
    BY <1>1, <2>2, <2>3, <2>4, <2>5, <2>6, <2>7 DEF Apply
<1>2. ASSUME NEW p \in Callers, DoUnary(p) PROVE ControlOK'
  <2>1. ASSUME NEW c \in Clients, TakeTurn(p, c) PROVE ControlOK'
    BY <2>1 DEF TakeTurn, ControlOK
  <2>2. CASE NotMarshaled(p)
    BY <2>2, <1>s, ReturnTypes DEF NotMarshaled, ControlOK
  <2>3. CASE DoDeadline(p)
    BY <2>3 DEF DoDeadline, ControlOK
  <2>4. CASE Overflow(p)
    BY <2>4, <1>s, ReturnTypes DEF Overflow, ControlOK
  <2>5. CASE Reach(p)
    BY <2>5 DEF Reach, ControlOK
  <2>6. ASSUME NEW k \in {"timeout", "error"}, Fail(p, k) PROVE ControlOK'
    BY <2>6, <1>s, ReturnTypes DEF Fail, ControlOK
  <2>7. ASSUME NEW s \in Refusals, AnswerRefused(p, s) PROVE ControlOK'
    BY <2>7, <1>s, ReturnTypes DEF AnswerRefused, ControlOK
  <2>8. CASE AnswerUnread(p)
    BY <2>8, <1>s, ReturnTypes DEF AnswerUnread, ControlOK
  <2>9. CASE AnswerOK(p)
    BY <2>9, <1>s, ReturnTypes DEF AnswerOK, ControlOK
  <2> QED
    BY <1>2, <2>1, <2>2, <2>3, <2>4, <2>5, <2>6, <2>7, <2>8, <2>9 DEF DoUnary
<1>3. CASE UNCHANGED vars
  BY <1>3 DEF vars, ControlOK
<1> QED
  BY <1>1, <1>2, <1>3 DEF Next

LEMMA CountsStep == CountsOK /\ [Next]_vars => CountsOK'
<1> SUFFICES ASSUME CountsOK, [Next]_vars PROVE CountsOK'
  OBVIOUS
<1> USE BoundsAssumption DEF BoundsAssumption, CountsOK, Counters
<1>1. ASSUME NEW p \in Callers, Apply(p) PROVE CountsOK'
  <2>1. metrics' = metrics /\ unread' = unread
    BY <1>1 DEF Apply, SetPayer, SetRulePayer, Target, ReportUntracked, Report, Touch
  <2>2. calls' = calls \/ (calls < MaxCalls /\ calls' = calls + 1)
    BY <1>1 DEF Apply, SetPayer, SetRulePayer, Target, ReportUntracked, Report,
                Touch, Called
  <2>3. calls' \in 0..MaxCalls
    BY <2>2
  <2> QED
    BY <2>1, <2>3
<1>2. ASSUME NEW p \in Callers, DoUnary(p) PROVE CountsOK'
  <2>1. calls' = calls /\ unread' \in {unread, unread + 1}
    BY <1>2 DEF DoUnary, TakeTurn, NotMarshaled, DoDeadline, Overflow, Reach, Fail,
                AnswerRefused, AnswerUnread, AnswerOK
  <2>2. \/ metrics' = metrics
        \/ \E k \in Counters : Count(k)
        \/ metrics' = [metrics EXCEPT !["request"] = @ + 1, !["overflow"] = @ + 1]
    BY <1>2 DEF DoUnary, TakeTurn, NotMarshaled, DoDeadline, Overflow, Reach, Fail,
                AnswerRefused, AnswerUnread, AnswerOK
  <2>3. metrics' \in [Counters -> Nat]
    BY <2>2 DEF Count
  <2> QED
    BY <2>1, <2>3
<1>3. CASE UNCHANGED vars
  BY <1>3 DEF vars
<1> QED
  BY <1>1, <1>2, <1>3 DEF Next

LEMMA TypeInit == Init => TypeOK
<1> SUFFICES ASSUME Init PROVE TypeOK
  OBVIOUS
<1>1. (CHOOSE c \in Clients : TRUE) \in Clients
  BY ClientsAssumption DEF ClientsAssumption
<1>2. MessagesOK
  BY RequestsAssumption DEF RequestsAssumption, Init, MessagesOK
<1>3. ControlOK
  BY <1>1 DEF Init, ControlOK
<1>4. CountsOK
  BY BoundsAssumption DEF BoundsAssumption, Init, CountsOK
<1> QED
  BY <1>2, <1>3, <1>4, TypeParts

(* Type correctness: requests stay messages whatever is stamped into them, *)
(* and every return has a status.                                          *)
THEOREM TypeCorrect == Spec => []TypeOK
<1>1. Init => TypeOK
  BY TypeInit
<1>2. TypeOK /\ [Next]_vars => TypeOK'
  <2> SUFFICES ASSUME TypeOK, [Next]_vars PROVE TypeOK'
    OBVIOUS
  <2>1. MessagesOK' /\ ControlOK' /\ CountsOK'
    BY TypeParts, MessagesStep, ControlStep, CountsStep
  <2> QED
    BY <2>1 DEF TypeOK, MessagesOK, ControlOK, CountsOK
<1> QED
  BY <1>1, <1>2, PTL DEF Spec

-----------------------------------------------------------------------------
(* StampInv, one caller at a time.                                         *)
StampOf(p) ==
  /\ req[p].kind = asked[p].kind /\ DOMAIN req[p].rules = DOMAIN asked[p].rules
  /\ req[p].kind = "touch" => DOMAIN req[p].rules = {}
  /\ \A i \in DOMAIN req[p].rules :
       IF asked[p].rules[i].uuid # Zero
       THEN req[p].rules[i].uuid = asked[p].rules[i].uuid
       ELSE req[p].rules[i].uuid \in told[p] \cup {Zero}
  /\ pc[p] # "idle" =>
       /\ \A i \in DOMAIN req[p].rules : Named(req[p].rules[i])
       /\ req[p].kind = "report" => Named(req[p].payer)

LEMMA StampInvOf == StampInv <=> \A p \in Callers : StampOf(p)
BY DEF StampInv, StampOf

(* What a caller's request depends on, left alone.                         *)
LEMMA Untouched ==
  ASSUME NEW q \in Callers, StampOf(q),
         req'[q] = req[q], asked'[q] = asked[q], told'[q] = told[q],
         pc'[q] # "idle" => pc[q] # "idle"
  PROVE  StampOf(q)'
BY DEF StampOf

(* A stamped request keeps what the application named, and has every payer *)
(* when the call goes on.                                                  *)
LEMMA StampKeeps ==
  ASSUME MessagesOK, ControlOK, NEW p \in Callers, StampOf(p),
         NEW d \in Payers \cup {Zero}, Stamp(p, d), asked' = asked,
         d = Zero => told'[p] = told[p],
         d # Zero => told'[p] = told[p] \cup {d},
         IF d = Zero THEN req[p].kind = "target" ELSE req[p].kind = "report"
  PROVE  StampOf(p)'
<1> DEFINE rules == req[p].rules
           new == ApplyRulePayers(rules, d)
<1>1. rules \in Rules
  BY DEF MessagesOK, Messages
<1>2. /\ req'[p].kind = req[p].kind /\ req'[p].rules = new
      /\ req'[p].payer = IF d = Zero THEN req[p].payer ELSE String(d)
  BY StampStep DEF MessagesOK
<1>3. /\ DOMAIN new = DOMAIN rules
      /\ \A i \in DOMAIN rules :
           /\ rules[i].uuid # Zero => new[i].uuid = rules[i].uuid
           /\ rules[i].uuid = Zero => new[i].uuid \in {Zero, d}
           /\ ~AnyRefused(rules, d) => Named(new[i])
  BY <1>1, Stamped
<1>4. pc'[p] # "idle" => ~AnyRefused(rules, d)
  BY DEF Stamp, Return, ControlOK
<1> HIDE DEF new
<1>5. DOMAIN req'[p].rules = DOMAIN asked'[p].rules
  BY <1>2, <1>3 DEF StampOf
<1>6. ASSUME NEW i \in DOMAIN req'[p].rules
      PROVE  IF asked'[p].rules[i].uuid # Zero
             THEN req'[p].rules[i].uuid = asked'[p].rules[i].uuid
             ELSE req'[p].rules[i].uuid \in told'[p] \cup {Zero}
  BY <1>2, <1>3, <1>6 DEF StampOf
<1>7. pc'[p] # "idle" => \A i \in DOMAIN req'[p].rules : Named(req'[p].rules[i])
  BY <1>2, <1>3, <1>4
<1>8. req'[p].kind = "report" => Named(req'[p].payer)
  BY <1>2, StringType
<1> QED
  BY <1>2, <1>5, <1>6, <1>7, <1>8 DEF StampOf

LEMMA StampInvStep == MessagesOK /\ ControlOK /\ StampInv /\ [Next]_vars => StampInv'
<1> SUFFICES ASSUME MessagesOK, ControlOK, StampInv, [Next]_vars,
                    NEW q \in Callers
             PROVE  StampOf(q)'
  BY DEF StampInv, StampOf
<1>0. StampOf(q)
  BY StampInvOf
<1>1. ASSUME NEW p \in Callers, NEW t \in Texts, SetPayer(p, t) PROVE StampOf(q)'
  <2>1. t \in AllTexts
    BY RequestsAssumption DEF RequestsAssumption
  <2>2. CASE q # p
    BY <1>0, <1>1, <2>2, Untouched DEF SetPayer, MessagesOK
  <2>3. CASE q = p
    <3>1. /\ req'[p].rules = req[p].rules /\ req'[p].kind = req[p].kind
          /\ asked'[p].rules = asked[p].rules /\ asked'[p].kind = asked[p].kind
      BY <1>1, <2>1, SetPayerStep DEF SetPayer, MessagesOK
    <3>2. pc'[p] = "idle" /\ told' = told
      BY <1>1 DEF SetPayer
    <3> QED
      BY <1>0, <2>3, <3>1, <3>2 DEF StampOf
  <2> QED
    BY <2>2, <2>3
<1>2. ASSUME NEW p \in Callers, NEW i \in DOMAIN req[p].rules, NEW t \in Texts,
             SetRulePayer(p, i, t)
      PROVE  StampOf(q)'
  <2>1. t \in AllTexts
    BY RequestsAssumption DEF RequestsAssumption
  <2>2. CASE q # p
    BY <1>0, <1>2, <2>2, Untouched DEF SetRulePayer, MessagesOK
  <2>3. CASE q = p
    <3>1. /\ req'[p].rules = [req[p].rules EXCEPT ![i] = t]
          /\ req'[p].kind = req[p].kind
          /\ asked'[p].rules = [asked[p].rules EXCEPT ![i] = t]
          /\ asked'[p].kind = asked[p].kind
      BY <1>2, <2>1, SetRuleStep DEF SetRulePayer, MessagesOK
    <3>2. pc'[p] = "idle" /\ told' = told
      BY <1>2 DEF SetRulePayer
    <3>3. ASSUME NEW j \in DOMAIN req'[p].rules
          PROVE  IF asked'[p].rules[j].uuid # Zero
                 THEN req'[p].rules[j].uuid = asked'[p].rules[j].uuid
                 ELSE req'[p].rules[j].uuid \in told'[p] \cup {Zero}
      BY <1>0, <2>3, <3>1, <3>2, <3>3 DEF StampOf
    <3> QED
      BY <1>0, <2>3, <3>1, <3>2, <3>3 DEF StampOf
  <2> QED
    BY <2>2, <2>3
<1>3. ASSUME NEW p \in Callers, Target(p) PROVE StampOf(q)'
  <2>1. Stamp(p, Zero) /\ asked' = asked /\ told' = told /\ req[p].kind = "target"
    BY <1>3 DEF Target, Called
  <2>2. CASE q # p
    <3>1. req'[q] = req[q]
      BY <1>0, <2>1, <2>2, StampStep DEF MessagesOK
    <3>2. pc'[q] = pc[q]
      <4>1. pc' = [pc EXCEPT ![p] = "idle"] \/ pc' = [pc EXCEPT ![p] = "turn"]
        BY <2>1 DEF Stamp, Return, Proceed
      <4> QED
        BY <1>0, <2>2, <4>1 DEF ControlOK
    <3> QED
      BY <1>0, <2>1, <3>1, <3>2, Untouched
  <2>3. CASE q = p
    BY <1>0, <2>1, <2>3, StampKeeps
  <2> QED
    BY <2>2, <2>3
<1>4. ASSUME NEW p \in Callers, Report(p) PROVE StampOf(q)'
  <2> DEFINE payer == ResolveRequestPayer(req[p].payer)
  <2>1. asked' = asked /\ req[p].kind = "report"
    BY <1>4 DEF Report, Called
  <2>2. CASE payer = Failed
    BY <1>0, <1>4, <2>2, Untouched DEF Report, Return, ControlOK
  <2>3. CASE payer # Failed
    <3>1. payer \in Payers /\ payer # Zero
      BY <2>3, RequestPayerType, PayersAssumption
         DEF PayersAssumption, MessagesOK, Messages
    <3>2. Stamp(p, payer) /\ told' = [told EXCEPT ![p] = @ \cup {payer}]
      BY <1>4, <2>3 DEF Report
    <3> HIDE DEF payer
    <3>3. CASE q # p
      <4>1. req'[q] = req[q]
        BY <1>0, <3>1, <3>2, <3>3, StampStep DEF MessagesOK
      <4>2. asked'[q] = asked[q] /\ told'[q] = told[q]
        BY <1>0, <2>1, <3>2, <3>3 DEF MessagesOK
      <4>3. pc'[q] = pc[q]
        <5>1. pc' = [pc EXCEPT ![p] = "idle"] \/ pc' = [pc EXCEPT ![p] = "turn"]
          BY <3>2 DEF Stamp, Return, Proceed
        <5> QED
          BY <1>0, <3>3, <5>1 DEF ControlOK
      <4> QED
        BY <1>0, <4>1, <4>2, <4>3, Untouched
    <3>4. CASE q = p
      BY <1>0, <2>1, <3>1, <3>2, <3>4, StampKeeps DEF MessagesOK
    <3> QED
      BY <3>3, <3>4
  <2> QED
    BY <2>2, <2>3
<1>5. ASSUME NEW p \in Callers, Touch(p) PROVE StampOf(q)'
  <2>1. req' = req /\ asked' = asked /\ told' = told /\ req[p].kind = "touch"
    BY <1>5 DEF Touch, Called
  <2>2. CASE q # p
    BY <1>0, <1>5, <2>1, <2>2, Untouched DEF Touch, Proceed, ControlOK
  <2>3. CASE q = p
    BY <1>0, <2>1, <2>3 DEF StampOf
  <2> QED
    BY <2>2, <2>3
<1>6. ASSUME NEW p \in Callers, ReportUntracked(p) \/ DoUnary(p) \/ UNCHANGED vars
      PROVE  StampOf(q)'
  BY <1>0, <1>6, QuietSteps, Untouched DEF Quiet
<1> QED
  BY <1>1, <1>2, <1>3, <1>4, <1>5, <1>6 DEF Next, Apply

(* The inductive invariant: a request says what the application said, but  *)
(* for stamps of payers it reported under.                                 *)
THEOREM StampCorrect == Spec => []StampInv
<1>1. Init => StampInv
  <2> SUFFICES ASSUME Init, NEW p \in Callers PROVE StampOf(p)
    BY DEF StampInv, StampOf
  <2>1. req[p] \in Requests /\ asked = req /\ told[p] = {} /\ pc[p] = "idle"
    BY DEF Init
  <2>2. req[p].kind = "touch" => DOMAIN req[p].rules = {}
    BY <2>1, TouchAssumption DEF TouchAssumption
  <2> QED
    BY <2>1, <2>2 DEF StampOf
<1>2. TypeOK /\ StampInv /\ [Next]_vars => StampInv'
  BY TypeParts, StampInvStep
<1> QED
  BY <1>1, <1>2, TypeCorrect, PTL DEF Spec

(* README.md:163: a rule that names a payer keeps it, across refused calls,*)
(* corrections and resubmissions of one request object.                    *)
THEOREM Keeps == Spec => []KeepsNamed
<1>1. StampInv => KeepsNamed
  BY DEF StampInv, KeepsNamed, Sent, Named
<1> QED
  BY <1>1, StampCorrect, PTL

(* README.md:139-142: nothing is sent without every payer it needs.        *)
THEOREM Paid == Spec => []NothingUnpaid
<1>1. StampInv => NothingUnpaid
  BY DEF StampInv, NothingUnpaid, Sent
<1> QED
  BY <1>1, StampCorrect, PTL

-----------------------------------------------------------------------------
(* How calls end.                                                          *)

(* One caller's part of SuccessReached.                                    *)
ReachedOf(q) == pc[q] = "idle" /\ result[q].status = "OK" => reached[q]

(* A call without an error was answered by the cloud (client.go:110-130).  *)
THEOREM Successes == Spec => []SuccessReached
<1>1. Init => SuccessReached
  BY DEF Init, SuccessReached, NotCalled
<1>2. ControlOK /\ SuccessReached /\ [Next]_vars => SuccessReached'
  <2> SUFFICES ASSUME ControlOK, SuccessReached, [Next]_vars, NEW q \in Callers
               PROVE  ReachedOf(q)'
    BY DEF SuccessReached, ReachedOf
  <2>0. ReachedOf(q)
    BY DEF SuccessReached, ReachedOf
  <2>1. ASSUME pc'[q] = pc[q], result'[q] = result[q], reached'[q] = reached[q]
        PROVE  ReachedOf(q)'
    BY <2>0, <2>1 DEF ReachedOf
  <2>2. ASSUME NEW p \in Callers, NEW s, NEW e, Return(p, s, e),
               s # "OK" \/ reached'[p],
               \A r \in Callers \ {p} : reached'[r] = reached[r]
        PROVE  ReachedOf(q)'
    BY <2>0, <2>2 DEF ReachedOf, Return, ControlOK
  <2>3. ASSUME NEW p \in Callers, pc'[p] # "idle",
               \A r \in Callers \ {p} :
                 pc'[r] = pc[r] /\ result'[r] = result[r] /\ reached'[r] = reached[r]
        PROVE  ReachedOf(q)'
    BY <2>0, <2>3 DEF ReachedOf
  <2>4. ASSUME NEW p \in Callers, Apply(p) PROVE ReachedOf(q)'
    <3>c. ASSUME NEW kind, Called(p, kind)
          PROVE  \A r \in Callers \ {p} : reached'[r] = reached[r]
      BY <3>c DEF Called, ControlOK
    <3>s. ASSUME NEW d, Stamp(p, d), \A r \in Callers \ {p} : reached'[r] = reached[r]
          PROVE  ReachedOf(q)'
      <4>1. CASE Return(p, "INVALID_REQUEST", TRUE)
        BY <2>2, <3>s, <4>1
      <4>2. CASE Proceed(p)
        BY <2>3, <3>s, <4>2 DEF Proceed, ControlOK
      <4> QED
        BY <3>s, <4>1, <4>2 DEF Stamp
    <3>1. ASSUME NEW t \in Texts, SetPayer(p, t) PROVE ReachedOf(q)'
      BY <2>1, <3>1 DEF SetPayer
    <3>2. ASSUME NEW t \in Texts, NEW i, SetRulePayer(p, i, t) PROVE ReachedOf(q)'
      BY <2>1, <3>2 DEF SetRulePayer
    <3>3. CASE Target(p)
      BY <3>c, <3>s, <3>3 DEF Target
    <3>4. CASE ReportUntracked(p)
      <4>1. Return(p, "UNKNOWN", TRUE)
        BY <3>4 DEF ReportUntracked
      <4> QED
        BY <2>2, <3>c, <3>4, <4>1 DEF ReportUntracked
    <3>5. CASE Report(p)
      <4>1. Return(p, "INVALID_REQUEST", TRUE) \/ \E d : Stamp(p, d)
        BY <3>5 DEF Report
      <4> QED
        BY <2>2, <3>c, <3>s, <3>5, <4>1 DEF Report
    <3>6. CASE Touch(p)
      BY <2>3, <3>c, <3>6 DEF Touch, Proceed, ControlOK
    <3> QED
      BY <2>4, <3>1, <3>2, <3>3, <3>4, <3>5, <3>6 DEF Apply
  <2>5. ASSUME NEW p \in Callers, DoUnary(p) PROVE ReachedOf(q)'
    <3>1. ASSUME NEW c \in Clients, TakeTurn(p, c) PROVE ReachedOf(q)'
      BY <2>3, <3>1 DEF TakeTurn, ControlOK
    <3>2. CASE DoDeadline(p)
      BY <2>3, <3>2 DEF DoDeadline, ControlOK
    <3>3. CASE Reach(p)
      BY <2>3, <3>3 DEF Reach, ControlOK
    <3>4. CASE \/ NotMarshaled(p) \/ Overflow(p)
               \/ \E k \in {"timeout", "error"} : Fail(p, k)
      <4>1. /\ Return(p, "UNKNOWN", TRUE) \/ Return(p, "NETWORK_ERROR", TRUE)
            /\ reached' = reached
        BY <3>4 DEF NotMarshaled, Overflow, Fail
      <4> QED
        BY <2>2, <4>1
    <3>5. ASSUME NEW s \in Refusals, AnswerRefused(p, s) PROVE ReachedOf(q)'
      <4>1. Return(p, s, TRUE) /\ reached' = reached /\ reached[p]
        BY <3>5 DEF AnswerRefused
      <4> QED
        BY <2>2, <4>1
    <3>6. CASE AnswerUnread(p) \/ AnswerOK(p)
      <4>1. /\ Return(p, "OK", TRUE) \/ Return(p, "OK", FALSE)
            /\ reached' = reached /\ reached[p]
        BY <3>6 DEF AnswerUnread, AnswerOK
      <4> QED
        BY <2>2, <4>1
    <3> QED
      BY <2>5, <3>1, <3>2, <3>3, <3>4, <3>5, <3>6 DEF DoUnary
  <2>6. CASE UNCHANGED vars
    BY <2>1, <2>6 DEF vars
  <2> QED
    BY <2>4, <2>5, <2>6 DEF Next
<1>3. TypeOK => ControlOK
  BY TypeParts
<1> QED
  BY <1>1, <1>2, <1>3, TypeCorrect, PTL DEF Spec

(* Calls under way, and what has been counted of the others.               *)
Waiting == {p \in Callers : Sent(p)}
Ended ==
  metrics["success"] + metrics["failed"] + metrics["timeout"] +
  metrics["overflow"] + metrics["error"] + unread

LEMMA WaitingFinite == IsFiniteSet(Waiting) /\ Cardinality(Waiting) \in Nat
BY ClientsAssumption, FS_Subset, FS_CardinalityType DEF ClientsAssumption, Waiting

(* The four ways the counters and the calls under way change.              *)
Still == Waiting' = Waiting /\ UNCHANGED <<metrics, unread>>
Begins == \E p \in Callers :
  p \notin Waiting /\ Waiting' = Waiting \cup {p} /\ Count("request") /\ unread' = unread
Overflows ==
  /\ Waiting' = Waiting /\ unread' = unread
  /\ metrics' = [metrics EXCEPT !["request"] = @ + 1, !["overflow"] = @ + 1]
Ends == \E p \in Waiting :
  /\ Waiting' = Waiting \ {p}
  /\ \/ unread' = unread + 1 /\ metrics' = metrics
     \/ unread' = unread /\ \E k \in Counters \ {"request", "overflow"} : Count(k)

LEMMA AccountingSteps ==
  ASSUME ControlOK, [Next]_vars
  PROVE  Still \/ Begins \/ Overflows \/ Ends
<1> USE DEF Waiting, Sent
<1>1. ASSUME NEW p \in Callers, pc[p] # "waiting", pc'[p] # "waiting",
             \A q \in Callers \ {p} : pc'[q] = pc[q]
      PROVE  Waiting' = Waiting
  BY <1>1
<1>2. ASSUME NEW p \in Callers, NEW s, NEW e, Return(p, s, e)
      PROVE  pc'[p] = "idle" /\ \A q \in Callers \ {p} : pc'[q] = pc[q]
  BY <1>2 DEF Return, ControlOK
<1>3. ASSUME NEW p \in Callers, Apply(p) PROVE Still
  <2>1. UNCHANGED <<metrics, unread>>
    BY <1>3 DEF Apply, SetPayer, SetRulePayer, Target, ReportUntracked, Report, Touch
  <2>2. \/ UNCHANGED pc
        \/ pc[p] = "idle" /\ (Proceed(p) \/ \E s, e : Return(p, s, e))
    BY <1>3 DEF Apply, SetPayer, SetRulePayer, Target, ReportUntracked, Report, Touch,
                Called, Stamp
  <2>3. Waiting' = Waiting
    BY <1>1, <1>2, <2>2 DEF Proceed, ControlOK
  <2> QED
    BY <2>1, <2>3 DEF Still
<1>4. ASSUME NEW p \in Callers, DoUnary(p) PROVE Still \/ Begins \/ Overflows \/ Ends
  <2>1. ASSUME NEW c \in Clients, TakeTurn(p, c) PROVE Still
    BY <1>1, <2>1 DEF TakeTurn, ControlOK, Still
  <2>2. CASE NotMarshaled(p)
    <3>1. Waiting' = Waiting
      BY <1>1, <1>2, <2>2 DEF NotMarshaled
    <3> QED
      BY <2>2, <3>1 DEF NotMarshaled, Still
  <2>3. CASE DoDeadline(p)
    <3>1. /\ pc[p] = "ready" /\ pc'[p] = "waiting"
          /\ \A q \in Callers \ {p} : pc'[q] = pc[q]
      BY <2>3 DEF DoDeadline, ControlOK
    <3>2. p \notin Waiting /\ Waiting' = Waiting \cup {p}
      BY <3>1
    <3> QED
      BY <2>3, <3>2 DEF DoDeadline, Begins
  <2>4. CASE Overflow(p)
    <3>1. Waiting' = Waiting
      BY <1>1, <1>2, <2>4 DEF Overflow
    <3> QED
      BY <2>4, <3>1 DEF Overflow, Overflows
  <2>5. CASE Reach(p)
    BY <2>5 DEF Reach, Still
  <2>6. ASSUME pc[p] = "waiting", \E s, e : Return(p, s, e)
        PROVE  p \in Waiting /\ Waiting' = Waiting \ {p}
    BY <1>2, <2>6
  <2>7. ASSUME NEW k \in {"timeout", "error"}, Fail(p, k) PROVE Ends
    BY <2>6, <2>7 DEF Fail, Ends, Counters
  <2>8. ASSUME NEW s \in Refusals, AnswerRefused(p, s) PROVE Ends
    BY <2>6, <2>8 DEF AnswerRefused, Ends, Counters
  <2>9. CASE AnswerUnread(p)
    BY <2>6, <2>9 DEF AnswerUnread, Ends
  <2>10. CASE AnswerOK(p)
    BY <2>6, <2>10 DEF AnswerOK, Ends, Counters
  <2> QED
    BY <1>4, <2>1, <2>2, <2>3, <2>4, <2>5, <2>7, <2>8, <2>9, <2>10 DEF DoUnary
<1>5. CASE UNCHANGED vars
  BY <1>5 DEF vars, Still
<1> QED
  BY <1>3, <1>4, <1>5 DEF Next

(* A request is counted once when it is made and once when it is over,     *)
(* however it ends, except when its answer could not be read               *)
(* (client.go:107-129).                                                    *)
THEOREM Accounting == Spec => []Accounted
<1> DEFINE Balance == metrics["request"] = Ended + Cardinality(Waiting)
<1>1. Init => Balance
  <2> SUFFICES ASSUME Init PROVE Balance
    OBVIOUS
  <2>1. Waiting = {}
    BY DEF Init, Waiting, Sent
  <2>2. Cardinality(Waiting) = 0
    BY <2>1, FS_EmptySet
  <2> QED
    BY <2>2 DEF Init, Ended, Counters
<1>2. ControlOK /\ CountsOK /\ Balance /\ [Next]_vars => Balance'
  <2> SUFFICES ASSUME ControlOK, CountsOK, Balance, [Next]_vars PROVE Balance'
    OBVIOUS
  <2>0. /\ metrics \in [Counters -> Nat] /\ unread \in Nat
        /\ IsFiniteSet(Waiting) /\ Cardinality(Waiting) \in Nat
    BY WaitingFinite DEF CountsOK
  <2>1. CASE Still
    BY <2>1 DEF Still, Ended
  <2>2. CASE Begins
    <3>1. Cardinality(Waiting') = Cardinality(Waiting) + 1
      BY <2>0, <2>2, FS_AddElement DEF Begins
    <3>2. metrics' = [metrics EXCEPT !["request"] = @ + 1] /\ unread' = unread
      BY <2>2 DEF Begins, Count
    <3>3. metrics'["request"] = metrics["request"] + 1 /\ Ended' = Ended
      BY <2>0, <3>2 DEF Counters, Ended
    <3>4. Ended \in Nat /\ metrics["request"] \in Nat
      BY <2>0 DEF Counters, Ended
    <3> QED
      BY <2>0, <3>1, <3>3, <3>4
  <2>3. CASE Overflows
    <3>1. /\ metrics' = [metrics EXCEPT !["request"] = @ + 1, !["overflow"] = @ + 1]
          /\ unread' = unread /\ Waiting' = Waiting
      BY <2>3 DEF Overflows
    <3>2. metrics'["request"] = metrics["request"] + 1 /\ Ended' = Ended + 1
      BY <2>0, <3>1 DEF Counters, Ended
    <3>3. Ended \in Nat /\ metrics["request"] \in Nat
      BY <2>0 DEF Counters, Ended
    <3> QED
      BY <2>0, <3>1, <3>2, <3>3
  <2>4. CASE Ends
    <3>1. PICK p \in Waiting :
            /\ Waiting' = Waiting \ {p}
            /\ \/ unread' = unread + 1 /\ metrics' = metrics
               \/ unread' = unread /\ \E k \in Counters \ {"request", "overflow"} : Count(k)
      BY <2>4 DEF Ends
    <3>2. Cardinality(Waiting') = Cardinality(Waiting) - 1
      BY <2>0, <3>1, FS_RemoveElement
    <3>3. metrics'["request"] = metrics["request"] /\ Ended' = Ended + 1
      <4>1. CASE unread' = unread + 1 /\ metrics' = metrics
        BY <2>0, <4>1 DEF Counters, Ended
      <4>2. ASSUME NEW k \in Counters \ {"request", "overflow"},
                   metrics' = [metrics EXCEPT ![k] = @ + 1], unread' = unread
            PROVE  metrics'["request"] = metrics["request"] /\ Ended' = Ended + 1
        BY <2>0, <4>2 DEF Counters, Ended
      <4> QED
        BY <3>1, <4>1, <4>2 DEF Count
    <3>4. Ended \in Nat /\ metrics["request"] \in Nat
      BY <2>0 DEF Counters, Ended
    <3> QED
      BY <2>0, <3>2, <3>3, <3>4
  <2> QED
    BY <2>1, <2>2, <2>3, <2>4, AccountingSteps
<1>3. Balance => Accounted
  BY DEF Accounted, Ended, Waiting
<1>4. TypeOK => ControlOK /\ CountsOK
  BY TypeParts
<1> HIDE DEF Balance
<1> QED
  BY <1>1, <1>2, <1>3, <1>4, TypeCorrect, PTL DEF Spec
=============================================================================
