---------------------------- MODULE RenewalClock ----------------------------
(***************************************************************************)
(* When the automatic renewal tries (pkg/client/autorenew.go: newAutoRenewer,*)
(* run, check): the certificate is checked every RenewCheckInterval, tried *)
(* at the CA once RenewBefore or less of it is left, and tried again after *)
(* at most the retry interval when a try fails.  What a try does to the    *)
(* certificate and the files is the subject of Renewal; here it takes some *)
(* of at most CheckMax (the fetch timeout, the application's OnRenewed and *)
(* a graceful Reconnect) and ends in one of three ways.                    *)
(*                                                                         *)
(* Time is a number, the same for time.Sleep and for NotAfter; a goroutine *)
(* whose sleep is over runs within less than one unit of it.  A CA renews  *)
(* only over a connection it accepts, so not with an expired certificate.  *)
(***************************************************************************)
EXTENDS Naturals

CONSTANTS
  Before,           \* autoRenewer.before: RenewBefore, 7 days by default
  Every,            \* autoRenewer.every: RenewCheckInterval, 12 hours
  Retry,            \* renewRetryInterval
  CheckMax,         \* renewFetchTimeout, and what follows the fetch
  MinLife, MaxLife, \* how long a certificate is valid when it is renewed
  MaxNow            \* bound

ASSUME TimesAssumption ==
  /\ Before \in Nat \ {0} /\ Every \in Nat \ {0} /\ Retry \in Nat \ {0}
  /\ CheckMax \in Nat /\ MinLife \in Nat \ {0} /\ MaxLife \in Nat
  /\ MinLife <= MaxLife /\ MaxNow \in Nat

VARIABLES
  now,
  notAfter,         \* of the certificate in use
  pc,               \* the renewer sleeps, or is in check beyond its first test
  until,            \* when its sleep, or at the latest its check, ends
  asked,            \* history: this certificate was tried while still valid
  since,            \* history: when the certificate came into use
  sames, fails      \* history: how often its tries ended these ways

history == <<asked, since, sames, fails>>
vars == <<now, notAfter, pc, until, history>>

TypeOK ==
  /\ now \in 0..MaxNow /\ notAfter \in Nat \ {0} /\ until \in Nat /\ now <= until
  /\ pc \in {"sleep", "try"}
  /\ asked \in BOOLEAN /\ since \in 0..now /\ sames \in Nat /\ fails \in Nat

(* run checks at once; the certificate may be about to expire, or not.     *)
Init ==
  /\ now = 0 /\ notAfter \in 1..MaxLife
  /\ pc = "sleep" /\ until = 0
  /\ asked = FALSE /\ since = 0 /\ sames = 0 /\ fails = 0

Tick ==
  /\ now < until /\ now < MaxNow
  /\ now' = now + 1
  /\ UNCHANGED <<notAfter, pc, until, history>>

-----------------------------------------------------------------------------
Woken == pc = "sleep" /\ now = until
SleepFor(wait) == pc' = "sleep" /\ until' = now + wait

(* Mutant: only a certificate that expired is renewed.                     *)
NotYet_Expired(before) == notAfter > now

NotYet(before) == notAfter > now + before

CheckSkips == Woken /\ NotYet(Before) /\ SleepFor(Every)
              /\ UNCHANGED <<now, notAfter, history>>

CheckTries ==
  /\ Woken /\ ~NotYet(Before)
  /\ pc' = "try" /\ until' = now + CheckMax
  /\ asked' = (asked \/ now < notAfter)
  /\ UNCHANGED <<now, notAfter, since, sames, fails>>

(* The renewed certificate is used: sleep the whole interval.              *)
Renewed ==
  /\ pc = "try" /\ now < notAfter
  /\ notAfter' \in (now + MinLife)..(now + MaxLife)
  /\ SleepFor(Every)
  /\ asked' = FALSE /\ since' = now /\ sames' = 0 /\ fails' = 0
  /\ UNCHANGED now

(* The CA has nothing newer: not an error, so the whole interval again.    *)
Same ==
  /\ pc = "try" /\ now < notAfter
  /\ SleepFor(Every)
  /\ sames' = sames + 1
  /\ UNCHANGED <<now, notAfter, asked, since, fails>>

RetryWait == IF Every <= Retry THEN Every ELSE Retry

(* Mutant: a failed renewal ends the goroutine.                            *)
Fails_Returns ==
  /\ pc = "try"
  /\ pc' = "returned" /\ UNCHANGED until
  /\ fails' = fails + 1
  /\ UNCHANGED <<now, notAfter, asked, since, sames>>

(* Mutant: a failure waits like a success.                                 *)
Fails_WaitsInterval ==
  /\ pc = "try"
  /\ SleepFor(Every)
  /\ fails' = fails + 1
  /\ UNCHANGED <<now, notAfter, asked, since, sames>>

Fails ==
  /\ pc = "try"
  /\ SleepFor(RetryWait)
  /\ fails' = fails + 1
  /\ UNCHANGED <<now, notAfter, asked, since, sames>>

Next == Tick \/ CheckSkips \/ CheckTries \/ Renewed \/ Same \/ Fails

Spec == Init /\ [][Next]_vars

-----------------------------------------------------------------------------
(* autorenew.go:30, "renews a client's certificate before it expires": no  *)
(* certificate expires without the CA having been asked for another while  *)
(* it was valid.  It takes RenewBefore to be no shorter than the interval, *)
(* and the CA not to issue certificates that expire within one.            *)
AskedInTime == now >= notAfter => asked

(* autorenew.go:69-81: from when a certificate is due, all the time beyond *)
(* one interval is accounted for by tries: an answer without a newer       *)
(* certificate costs an interval, a failure only the wait for its retry.   *)
DueSince ==
  IF notAfter >= since + Before THEN notAfter - Before ELSE since

Accounted(time) ==
  time <= DueSince + Every + sames * (CheckMax + Every)
                   + fails * (CheckMax + RetryWait)
KeepsTrying == Accounted(IF pc = "try" THEN until - CheckMax ELSE now)

(* The inductive invariants: a certificate nobody asked to replace is still*)
(* valid when the renewer wakes, and what is accounted for reaches to then.*)
WakesInTime ==
  /\ pc = "sleep" /\ ~asked => until < notAfter
  /\ pc = "try" => asked

AccountsAhead ==
  /\ pc = "sleep" => Accounted(until)
  /\ pc = "try" => CheckMax <= until /\ Accounted(until - CheckMax)

=============================================================================
