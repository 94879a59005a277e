------------------------ MODULE RenewalClock_proofs -------------------------
(* Proofs about RenewalClock, for every length of every interval.          *)
EXTENDS RenewalClock, TLAPS

LEMMA TypeInit == Init => TypeOK
<1> SUFFICES ASSUME Init PROVE TypeOK
  OBVIOUS
<1>1. notAfter \in Nat /\ notAfter # 0
  BY TimesAssumption DEF TimesAssumption, Init
<1>2. asked \in BOOLEAN
  BY DEF Init
<1>3. now \in 0..MaxNow /\ until \in Nat /\ now <= until /\ since \in 0..now
  BY TimesAssumption DEF TimesAssumption, Init
<1> QED
  BY <1>1, <1>2, <1>3 DEF Init, TypeOK

LEMMA TypeStep == TypeOK /\ [Next]_vars => TypeOK'
<1> SUFFICES ASSUME TypeOK, [Next]_vars PROVE TypeOK'
  OBVIOUS
<1> USE TimesAssumption DEF TimesAssumption, TypeOK
<1>1. CASE Tick
  BY <1>1 DEF Tick, history
<1>2. CASE CheckSkips
  BY <1>2 DEF CheckSkips, Woken, SleepFor, history
<1>3. CASE CheckTries
  BY <1>3 DEF CheckTries, Woken
<1>4. CASE Renewed
  <2>1. notAfter' \in Nat /\ notAfter' # 0
    BY <1>4 DEF Renewed
  <2>2. asked' \in BOOLEAN
    BY <1>4 DEF Renewed
  <2>3. until' \in Nat /\ now' <= until' /\ since' \in 0..now'
    BY <1>4 DEF Renewed, SleepFor
  <2> QED
    BY <1>4, <2>1, <2>2, <2>3 DEF Renewed, SleepFor
<1>5. CASE Same
  BY <1>5 DEF Same, SleepFor
<1>6. CASE Fails
  BY <1>6 DEF Fails, SleepFor, RetryWait
<1>7. CASE UNCHANGED vars
  BY <1>7 DEF vars, history
<1> QED
  BY <1>1, <1>2, <1>3, <1>4, <1>5, <1>6, <1>7 DEF Next

(* Type correctness of the renewer's clock, run and check of autorenew.go. *)
THEOREM TypeCorrect == Spec => []TypeOK
BY TypeInit, TypeStep, PTL DEF Spec

-----------------------------------------------------------------------------
(* What is to be assumed of RenewBefore and of the CA.                     *)
InTime == Every <= Before /\ Every < MinLife

LEMMA WakesStep ==
  ASSUME InTime, TypeOK, WakesInTime, [Next]_vars
  PROVE  WakesInTime'
<1> USE TimesAssumption DEF TimesAssumption, TypeOK, WakesInTime, InTime
<1>1. CASE Tick
  BY <1>1 DEF Tick, history
<1>2. CASE CheckSkips
  BY <1>2 DEF CheckSkips, Woken, NotYet, SleepFor, history
<1>3. CASE CheckTries
  BY <1>3 DEF CheckTries, Woken
<1>4. CASE Renewed
  BY <1>4 DEF Renewed, SleepFor
<1>5. CASE Same
  BY <1>5 DEF Same, SleepFor
<1>6. CASE Fails
  BY <1>6 DEF Fails, SleepFor
<1>7. CASE UNCHANGED vars
  BY <1>7 DEF vars, history
<1> QED
  BY <1>1, <1>2, <1>3, <1>4, <1>5, <1>6, <1>7 DEF Next

(* autorenew.go:30, 88: with RenewBefore no shorter than the interval and  *)
(* certificates that outlast one, none expires before the CA was asked for *)
(* another while it was valid.                                             *)
THEOREM AsksInTime == ASSUME InTime PROVE Spec => []AskedInTime
<1>1. Init => WakesInTime
  BY DEF Init, WakesInTime
<1>2. TypeOK /\ WakesInTime /\ [Next]_vars => WakesInTime'
  BY WakesStep
<1>3. TypeOK /\ WakesInTime => AskedInTime
  BY DEF TypeOK, WakesInTime, AskedInTime
<1> QED
  BY <1>1, <1>2, <1>3, TypeCorrect, PTL DEF Spec

-----------------------------------------------------------------------------
LEMMA OneMore ==
  \A n, m \in Nat : n * m \in Nat /\ (n + 1) * m = n * m + m
OBVIOUS

LEMMA Difference ==
  \A a, b, c \in Nat : a >= c + b => a - b >= c /\ a - b \in Nat
OBVIOUS

LEMMA AccountsStep ==
  ASSUME TypeOK, AccountsAhead, [Next]_vars
  PROVE  AccountsAhead'
<1> USE TimesAssumption DEF TimesAssumption, TypeOK
<1> DEFINE S == sames * (CheckMax + Every)
           F == fails * (CheckMax + RetryWait)
<1>0. RetryWait \in Nat /\ S \in Nat /\ F \in Nat
  BY OneMore DEF RetryWait
<1>0a. DueSince \in Nat
  BY DEF DueSince
<1>1. CASE Tick
  BY <1>1 DEF Tick, history, AccountsAhead, Accounted, DueSince
<1>2. CASE CheckSkips
  <2>1. DueSince' = notAfter - Before
    BY <1>2 DEF CheckSkips, NotYet, DueSince, history
  <2>2. pc' = "sleep" /\ until' = now + Every /\ sames' = sames /\ fails' = fails
    BY <1>2 DEF CheckSkips, SleepFor, history
  <2>3. now + Every <= (notAfter - Before) + Every + S + F
    BY <1>2, <1>0 DEF CheckSkips, NotYet
  <2> QED
    BY <2>1, <2>2, <2>3 DEF AccountsAhead, Accounted
<1>3. CASE CheckTries
  <2>1. now = until /\ pc = "sleep"
    BY <1>3 DEF CheckTries, Woken
  <2>2. pc' = "try" /\ until' = now + CheckMax
        /\ UNCHANGED <<now, notAfter, since, sames, fails>>
    BY <1>3 DEF CheckTries
  <2>3. until' - CheckMax = until /\ CheckMax <= until'
    BY <2>1, <2>2
  <2>4. Accounted(until)
    BY <2>1 DEF AccountsAhead
  <2> QED
    BY <2>2, <2>3, <2>4 DEF AccountsAhead, Accounted, DueSince
<1>4. CASE Renewed
  <2>1. pc' = "sleep" /\ until' = now + Every /\ sames' = 0 /\ fails' = 0
        /\ since' = now
    BY <1>4 DEF Renewed, SleepFor
  <2>2. notAfter' \in Nat
    BY <1>4 DEF Renewed
  <2>3. DueSince' >= now /\ DueSince' \in Nat
    <3>1. CASE notAfter' >= now + Before
      <4>1. DueSince' = notAfter' - Before
        BY <2>1, <3>1 DEF DueSince
      <4>2. now \in Nat /\ Before \in Nat
        OBVIOUS
      <4>3. notAfter' - Before >= now /\ notAfter' - Before \in Nat
        BY ONLY <2>2, <3>1, <4>2, Difference
      <4> QED
        BY ONLY <4>1, <4>3
    <3>2. CASE ~(notAfter' >= now + Before)
      BY <2>1, <3>2 DEF DueSince
    <3> QED
      BY <3>1, <3>2
  <2>4. sames' * (CheckMax + Every) = 0 /\ fails' * (CheckMax + RetryWait) = 0
    BY <2>1, <1>0
  <2> QED
    BY <2>1, <2>3, <2>4 DEF AccountsAhead, Accounted
<1>5. CASE Same
  <2>1. pc' = "sleep" /\ until' = now + Every /\ sames' = sames + 1
        /\ fails' = fails /\ DueSince' = DueSince /\ pc = "try"
    BY <1>5 DEF Same, SleepFor, DueSince
  <2>2. CheckMax <= until /\ until - CheckMax <= DueSince + Every + S + F
    BY <2>1 DEF AccountsAhead, Accounted
  <2>3. sames' * (CheckMax + Every) = S + (CheckMax + Every)
    BY <2>1, OneMore
  <2>4. now + Every <= DueSince + Every + (S + (CheckMax + Every)) + F
    BY <2>2, <1>0, <1>0a
  <2> QED
    BY <2>1, <2>3, <2>4 DEF AccountsAhead, Accounted
<1>6. CASE Fails
  <2>1. pc' = "sleep" /\ until' = now + RetryWait /\ sames' = sames
        /\ fails' = fails + 1 /\ DueSince' = DueSince /\ pc = "try"
    BY <1>6 DEF Fails, SleepFor, DueSince
  <2>2. CheckMax <= until /\ until - CheckMax <= DueSince + Every + S + F
    BY <2>1 DEF AccountsAhead, Accounted
  <2>3. fails' * (CheckMax + RetryWait) = F + (CheckMax + RetryWait)
    BY <2>1, <1>0, OneMore
  <2>4. now + RetryWait <= DueSince + Every + S + (F + (CheckMax + RetryWait))
    BY <2>2, <1>0, <1>0a
  <2> QED
    BY <2>1, <2>3, <2>4 DEF AccountsAhead, Accounted
<1>7. CASE UNCHANGED vars
  BY <1>7 DEF vars, history, AccountsAhead, Accounted, DueSince
<1> QED
  BY <1>1, <1>2, <1>3, <1>4, <1>5, <1>6, <1>7 DEF Next

(* autorenew.go:71-81: the time since a certificate became due is spent on *)
(* tries, each of which accounts for its own length and one wait.          *)
THEOREM AlwaysTrying == Spec => []KeepsTrying
<1>1. Init => AccountsAhead
  BY TimesAssumption DEF TimesAssumption, Init, AccountsAhead, Accounted, DueSince, RetryWait
<1>2. TypeOK /\ AccountsAhead /\ [Next]_vars => AccountsAhead'
  BY AccountsStep
<1>3. TypeOK /\ AccountsAhead => KeepsTrying
  <2> SUFFICES ASSUME TypeOK, AccountsAhead, pc = "sleep" PROVE Accounted(now)
    BY DEF TypeOK, AccountsAhead, KeepsTrying
  <2>1. Accounted(until)
    BY DEF AccountsAhead
  <2>2. sames * (CheckMax + Every) \in Nat /\ fails * (CheckMax + RetryWait) \in Nat
    BY OneMore, TimesAssumption DEF TimesAssumption, TypeOK, RetryWait
  <2>3. DueSince \in Nat
    BY TimesAssumption DEF TimesAssumption, TypeOK, DueSince
  <2> QED
    BY <2>1, <2>2, <2>3, TimesAssumption DEF TimesAssumption, TypeOK, Accounted
<1> QED
  BY <1>1, <1>2, <1>3, TypeCorrect, PTL DEF Spec

=============================================================================
