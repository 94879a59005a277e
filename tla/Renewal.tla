------------------------------ MODULE Renewal -------------------------------
(***************************************************************************)
(* Automatic renewal of the client certificate: the autoRenewer goroutine, *)
(* CertProvider.Fetch at the CA, SaveToFiles as MTLSConfig.OnRenewed, and  *)
(* the process crashing and loading its pair from the two files again      *)
(* (pkg/client/autorenew.go, certprovider.go, savefiles.go, mtls.go).      *)
(*                                                                         *)
(* A certificate, with the key issued for it, is its serial number; the CA *)
(* issues them in order and a later one expires later.  Time is only what  *)
(* check compares: which certificates are within RenewBefore of expiring   *)
(* (RenewalClock has the clock).  The two files change atomically, one at  *)
(* a time.  The application may renew by itself beside the renewer, with   *)
(* Fetch and Update of the same CertProvider (README.md:262), in two calls *)
(* with anything in between; it writes no pair over the two files.         *)
(***************************************************************************)
EXTENDS Naturals

CONSTANTS
  MaxSerial,        \* bound on the certificates the CA issues
  Refused,          \* serials that certCheck.load refuses
  AppUpdates        \* whether the application calls Fetch and Update too

ASSUME SerialAssumption == MaxSerial \in Nat \ {0}
ASSUME RefusedAssumption == Refused \subseteq 2..(MaxSerial - 1)
ASSUME AppUpdatesAssumption == AppUpdates \in BOOLEAN

VARIABLES
  pc,               \* where the renewer is, "down" while the process is
  current,          \* CertProvider.current, 0 while the process is down
  leaf,             \* the certificate check started from
  fetched,          \* the pair Fetch returned
  expired,          \* fetchCtx's two minutes are over
  certFile, keyFile,\* the serials the two files hold
  due,              \* certificates up to this one are within RenewBefore
  issued,           \* the last certificate the CA issued
  used,             \* history: the newest certificate the renewer or a
                    \* start put in use
  given,            \* history: those the application put in use
  meanwhile,        \* history: of them, since check read the leaf
  dirty             \* history: a save failed that had replaced a file, or
                    \* what was saved or handed over was not both saved and
                    \* used, and nothing was saved since

files == <<certFile, keyFile>>
renewer == <<pc, current, leaf, fetched, expired>>
world == <<due, issued>>
history == <<used, given, meanwhile, dirty>>
vars == <<renewer, files, world, history>>

Serials == 1..MaxSerial
Pcs == {"down", "sleep", "fetch", "poll", "compare", "saveKey", "saveCert",
        "update", "reconnect"}

Fetching == {"fetch", "poll"}
Saving == {"saveKey", "saveCert", "update"}

TypeOK ==
  /\ pc \in Pcs
  /\ current \in Serials \cup {0} /\ (current = 0 <=> pc = "down")
  /\ leaf \in Serials \cup {0} /\ fetched \in Serials \cup {0}
  /\ pc \in {"compare", "saveKey", "saveCert", "update"} => fetched # 0
  /\ certFile \in Serials /\ keyFile \in Serials
  /\ due \in Serials \cup {0} /\ issued \in Serials
  /\ used \in Serials /\ given \subseteq Serials /\ meanwhile \subseteq given
  /\ dirty \in BOOLEAN /\ expired \in BOOLEAN

Init == /\ pc = "sleep" /\ current = 1
        /\ leaf = 0 /\ fetched = 0 /\ expired = FALSE
        /\ certFile = 1 /\ keyFile = 1
        /\ due = 0 /\ issued = 1
        /\ used = 1 /\ given = {} /\ meanwhile = {} /\ dirty = FALSE

-----------------------------------------------------------------------------
(* The world: time passes, the CA issues a certificate it was asked for.   *)

(* MaxSerial is never due: the bound leaves no certificate to replace it.  *)
Age == /\ due < issued /\ due + 1 < MaxSerial
       /\ due' = due + 1
       /\ UNCHANGED <<renewer, files, issued, history>>

Issue == /\ pc \in Fetching /\ issued < MaxSerial
         /\ issued' = issued + 1
         /\ UNCHANGED <<renewer, files, due, history>>

(* The application's own Fetch: the CA issues a certificate for it.        *)
AppFetch == /\ AppUpdates /\ pc # "down" /\ issued < MaxSerial
            /\ issued' = issued + 1
            /\ UNCHANGED <<renewer, files, due, history>>

(* The application's own Update, at whatever the renewer is, with any pair *)
(* it ever fetched: nothing compares it with the current one.  A refused   *)
(* one leaves that in place.                                               *)
AppUpdate ==
  /\ AppUpdates /\ pc # "down"
  /\ current' \in (1..issued) \ Refused
  /\ given' = given \cup {current'} /\ meanwhile' = meanwhile \cup {current'}
  /\ dirty' = TRUE
  /\ UNCHANGED <<pc, leaf, fetched, expired, files, world, used>>

-----------------------------------------------------------------------------
(* run: check, then sleep whatever became of it.                           *)

Sleep == pc' = "sleep" /\ leaf' = 0 /\ fetched' = 0 /\ expired' = FALSE

(* Mutant: the loop ends with the first error.                             *)
Fail_Returns ==
  pc' = "returned" /\ leaf' = 0 /\ fetched' = 0 /\ expired' = FALSE /\ UNCHANGED current

(* check returns err: certFailed, onError, and the next check within the   *)
(* retry interval.                                                         *)
Fail == Sleep /\ UNCHANGED current

(* check reads the leaf; a certificate not within RenewBefore is left.     *)
Check == /\ pc = "sleep"
         /\ current <= due
         /\ pc' = "fetch"
         /\ leaf' = current
         /\ meanwhile' = {}
         /\ UNCHANGED <<current, fetched, expired, files, world, used, given, dirty>>

(* Fetch.  An answer counts as arrived before the deadline or not at all,  *)
(* and a request made after it fails at once.                              *)

Expire == /\ pc \in Fetching /\ ~expired
          /\ expired' = TRUE
          /\ UNCHANGED <<pc, current, leaf, fetched, files, world, history>>

(* Mutant: the requests are made without ctx.                              *)
Accepted_NoContext ==
  /\ pc = "fetch"
  /\ pc' = "poll"
  /\ UNCHANGED <<current, leaf, fetched, expired, files, world, history>>

(* 202: the CA has taken the renewal on and not issued it yet.             *)
Accepted == /\ pc = "fetch" /\ ~expired
            /\ pc' = "poll"
            /\ UNCHANGED <<current, leaf, fetched, expired, files, world, history>>

(* select takes either case when both are ready.                           *)
AskAgain == /\ pc = "poll"
            /\ pc' = "fetch"
            /\ UNCHANGED <<current, leaf, fetched, expired, files, world, history>>

GiveUp == /\ pc = "poll" /\ expired /\ Fail
          /\ UNCHANGED <<files, world, history>>

(* 200 and a pair: the one the request was made with, or the last issued.  *)
FetchPair == /\ pc = "fetch" /\ ~expired
             /\ fetched' \in {current, issued}
             /\ pc' = "compare"
             /\ UNCHANGED <<current, leaf, expired, files, world, history>>

(* askCA or parseCARenewResponse fails, or the CA answers otherwise.       *)
FetchFails == /\ pc = "fetch" /\ Fail
              /\ UNCHANGED <<files, world, history>>

(* Mutant: the serials are compared with the certificate now in use.       *)
Compare_Current ==
  /\ pc = "compare"
  /\ \/ fetched = current /\ Sleep
     \/ fetched # current /\ fetched \in Refused /\ Fail
     \/ /\ fetched # current /\ fetched \notin Refused
        /\ pc' = "saveKey" /\ UNCHANGED <<leaf, fetched, expired>>
  /\ UNCHANGED <<current, files, world, history>>

(* Mutant: the pair is handed to the application unvalidated.              *)
Compare_Unchecked ==
  /\ pc = "compare"
  /\ \/ fetched = leaf /\ Sleep
     \/ fetched # leaf /\ pc' = "saveKey" /\ UNCHANGED <<leaf, fetched, expired>>
  /\ UNCHANGED <<current, files, world, history>>

(* The serials are compared, then the pair is validated as Update will.    *)
Compare ==
  /\ pc = "compare"
  /\ \/ fetched = leaf /\ Sleep
     \/ fetched # leaf /\ fetched \in Refused /\ Fail
     \/ /\ fetched # leaf /\ fetched \notin Refused
        /\ pc' = "saveKey" /\ UNCHANGED <<leaf, fetched, expired>>
  /\ UNCHANGED <<current, files, world, history>>

(* Mutant: the certificate file goes first.                                *)
SaveKey_CertFirst == /\ pc = "saveKey"
                     /\ certFile' = fetched
                     /\ pc' = "saveCert"
                     /\ UNCHANGED <<current, leaf, fetched, expired, keyFile, world, history>>

(* saveFileAtomic of the key: renamed and read back.                       *)
SaveKey == /\ pc = "saveKey"
           /\ keyFile' = fetched
           /\ pc' = "saveCert"
           /\ UNCHANGED <<current, leaf, fetched, expired, certFile, world, history>>

SaveCert == /\ pc = "saveCert"
            /\ certFile' = fetched
            /\ pc' = "update"
            /\ dirty' = FALSE
            /\ UNCHANGED <<current, leaf, fetched, expired, keyFile, world, used, given, meanwhile>>

(* Mutant: an error of OnRenewed is not looked at.                         *)
SaveFails_Ignored ==
  /\ pc \in {"saveKey", "saveCert"}
  /\ pc' = "update" /\ dirty' = TRUE
  /\ UNCHANGED <<current, leaf, fetched, expired, files, world, used, given, meanwhile>>

(* Either save fails: before its rename, or after it on the read-back.     *)
SaveFails ==
  /\ pc \in {"saveKey", "saveCert"} /\ Fail
  /\ \/ pc = "saveKey" /\ UNCHANGED <<files, dirty>>
     \/ pc = "saveKey" /\ keyFile' = fetched /\ dirty' = TRUE /\ UNCHANGED certFile
     \/ pc = "saveCert" /\ certFile' \in {certFile, fetched} /\ dirty' = TRUE
        /\ UNCHANGED keyFile
  /\ UNCHANGED <<world, used, given, meanwhile>>

(* Mutant: Update stores the pair it was given before.                     *)
Update_Stale == /\ pc = "update"
                /\ current' = leaf
                /\ used' = IF used < leaf THEN leaf ELSE used
                /\ pc' = "reconnect"
                /\ UNCHANGED <<leaf, fetched, expired, files, world, given, meanwhile, dirty>>

(* provider.Update: the pair that was saved is stored.                     *)
Update == /\ pc = "update"
          /\ current' = fetched
          /\ used' = IF used < fetched THEN fetched ELSE used
          /\ pc' = "reconnect"
          /\ UNCHANGED <<leaf, fetched, expired, files, world, given, meanwhile, dirty>>

(* It is validated once more, and a check that depends on the time need    *)
(* not pass a second time.                                                 *)
UpdateRefused == /\ pc = "update" /\ Fail
                 /\ dirty' = TRUE
                 /\ UNCHANGED <<files, world, used, given, meanwhile>>

(* sc.Reconnect(false) has returned; see the module Reconnect.             *)
Reconnected == /\ pc = "reconnect" /\ Sleep
               /\ UNCHANGED <<current, files, world, history>>

-----------------------------------------------------------------------------
(* The process dies at any point, and is started again.                    *)

Crash == /\ pc # "down"
         /\ pc' = "down" /\ current' = 0
         /\ leaf' = 0 /\ fetched' = 0 /\ expired' = FALSE
         /\ UNCHANGED <<files, world, history>>

(* NewWithMTLS on what the files hold: the key must be the certificate's   *)
(* and the certificate one the cloud accepts, or there is no client.       *)
Restart == /\ pc = "down"
           /\ certFile = keyFile /\ certFile \notin Refused
           /\ pc' = "sleep" /\ current' = certFile
           /\ used' = IF used < certFile THEN certFile ELSE used
           /\ dirty' = FALSE
           /\ UNCHANGED <<leaf, fetched, expired, files, world, given, meanwhile>>

-----------------------------------------------------------------------------
Next == \/ Age \/ Issue \/ AppFetch \/ AppUpdate \/ Expire
        \/ Check \/ Accepted \/ AskAgain \/ GiveUp \/ FetchPair \/ FetchFails \/ Compare
        \/ SaveKey \/ SaveCert \/ SaveFails \/ Update \/ UpdateRefused
        \/ Reconnected
        \/ Crash \/ Restart

Spec == Init /\ [][Next]_vars

(* The renewer is scheduled, its timers fire, a request ends with or       *)
(* without an answer, and the world is not against it for ever: the CA     *)
(* issues, answers time and again with a pair that is new and accepted,    *)
(* the files can be written, and what was validated a moment ago is        *)
(* accepted again, time and again.                                         *)
GoodAnswer == FetchPair /\ fetched' # leaf /\ fetched' \notin Refused

Fairness == /\ WF_vars(Check) /\ WF_vars(Compare)
            /\ WF_vars(Reconnected) /\ WF_vars(Expire)
            /\ WF_vars(FetchPair \/ FetchFails) /\ WF_vars(AskAgain \/ GiveUp)
            /\ SF_vars(Issue) /\ SF_vars(GoodAnswer)
            /\ SF_vars(SaveKey) /\ SF_vars(SaveCert) /\ SF_vars(Update)

FairSpec == Spec /\ Fairness

-----------------------------------------------------------------------------
(* A process started again never runs on a certificate older than one it   *)
(* was started on or the renewer put in use - a pair is saved before       *)
(* Update, and the key first (autorenew.go:115-120) - unless it is one the *)
(* application itself had put in use.                                      *)
RestartNotOlder ==
  [][pc = "down" /\ pc' # "down" => current' >= used \/ current' \in given]_vars

(* Files that do not match hold the newer key: a start on them fails       *)
(* rather than running on the old certificate (savefiles.go:16-19).  check *)
(* saves whatever is not the pair it started from (autorenew.go:104), so an*)
(* older key may come, of a pair the application itself had put in use.    *)
KeyFirst == keyFile >= certFile \/ keyFile \in given

(* Nothing certCheck.load refuses is ever saved or used, whoever hands it  *)
(* over (autorenew.go:110-114, certprovider.go:89-94), so only a pair that *)
(* does not match keeps the process from starting again.                   *)
OnlyUsable == {certFile, keyFile, current} \cap Refused = {}

(* Outside a save, and unless one failed with a file replaced, the files   *)
(* hold the pair in use (README.md:216, autorenew.go:110-118).             *)
InUseIsOnDisk ==
  pc \in {"sleep", "fetch", "poll", "compare", "saveKey", "reconnect"} /\ ~dirty =>
    certFile = current /\ keyFile = current

(* A certificate about to expire is replaced, however often the CA, the    *)
(* validation or a save fails first (autorenew.go:71-81) and whatever pair *)
(* the application left in use, once it leaves that to the renewer, unless *)
(* the process dies.                                                       *)
EventuallyRenewed ==
  <>[][~AppUpdate]_vars =>
    (current <= due /\ pc # "down" ~> current > due \/ pc = "down")

(* Fetch ends, however often the CA answers that it has accepted and not   *)
(* issued yet (autorenew.go:92, certprovider.go:120-123).                  *)
FetchEnds == pc \in Fetching ~> pc \notin Fetching

(* What the renewer puts in use is newer than what its check started from, *)
(* or another pair, that the application put in use during that very check:*)
(* the fetch is made with whatever is current by then, and answered with   *)
(* it, and that is not the leaf it is compared with (autorenew.go:87,104). *)
RenewsForward ==
  [][pc = "update" /\ pc' = "reconnect"
       => current' > leaf \/ current' \in meanwhile \ {leaf}]_vars

(* README.md:216 of a renewal that could not be saved: "That keeps what is *)
(* on disk and what is in use the same".  savefiles.go:22-27 replaces the  *)
(* key before it tries the certificate, and saveFileAtomic can fail after  *)
(* its rename.                                                             *)
DiskSameAsInUse ==
  pc \in {"sleep", "fetch", "poll", "compare"} => certFile = current /\ keyFile = current

(* The inductive invariant behind the safety properties: what is fetched   *)
(* is what check started from, or was put in use by the application during *)
(* the check, or is as new as everything that is saved and was used.       *)
Newest(n) == n >= leaf /\ n >= certFile /\ n >= keyFile /\ n >= used

FilesInv ==
  /\ certFile <= issued /\ keyFile <= issued /\ used <= issued
  /\ current <= issued /\ leaf <= issued /\ fetched <= issued
  /\ OnlyUsable
  /\ KeyFirst
  /\ certFile >= used \/ certFile \in given
  /\ pc \in Fetching => current = leaf \/ current \in meanwhile
  /\ pc \in {"compare"} \cup Saving =>
       fetched = leaf \/ fetched \in meanwhile \/ Newest(fetched)
  /\ pc \in Saving => fetched # leaf /\ fetched \notin Refused
  /\ pc \in {"saveCert", "update"} => keyFile = fetched
  /\ pc = "update" => certFile = fetched
  /\ InUseIsOnDisk
=============================================================================
