--------------------------- MODULE Renewal_proofs ---------------------------
(***************************************************************************)
(* Proofs about Renewal, for any number of certificates and any set of     *)
(* them that is refused.                                                   *)
(***************************************************************************)
EXTENDS Renewal, TLAPS

(* Every variable keeps its type, and a running client has a certificate.  *)
THEOREM TypeCorrect == Spec => []TypeOK
<1> USE SerialAssumption DEF TypeOK, Serials, Pcs, Saving
<1>1. Init => TypeOK
  <2>1. 1 \in Serials
    OBVIOUS
  <2> SUFFICES ASSUME Init PROVE TypeOK
    OBVIOUS
  <2>2. pc \in Pcs /\ dirty \in BOOLEAN /\ expired \in BOOLEAN /\ pc # "down" /\ pc \notin {"compare", "saveKey", "saveCert", "update"}
    BY DEF Init
  <2>3. current = 1 /\ leaf = 0 /\ fetched = 0 /\ certFile = 1 /\ keyFile = 1 /\ due = 0 /\ issued = 1 /\ used = 1
        /\ given = {} /\ meanwhile = {}
    BY DEF Init
  <2> QED BY <2>1, <2>2, <2>3
<1>2. TypeOK /\ [Next]_vars => TypeOK'
  <2> SUFFICES ASSUME TypeOK, [Next]_vars PROVE TypeOK'
    OBVIOUS
  <2> USE DEF files, renewer, world, history, vars
  <2>1. CASE Age
    BY <2>1 DEF Age
  <2>2. CASE Issue
    BY <2>2 DEF Issue
  <2>3. CASE Check
    BY <2>3 DEF Check
  <2>4. CASE FetchPair
    BY <2>4 DEF FetchPair
  <2>5. CASE FetchFails
    BY <2>5 DEF FetchFails, Fail, Sleep
  <2>6. CASE Compare
    BY <2>6 DEF Compare, Fail, Sleep
  <2>7. CASE SaveKey
    <3>1. fetched \in Serials
      BY <2>7 DEF SaveKey
    <3> QED BY <2>7, <3>1 DEF SaveKey
  <2>8. CASE SaveCert
    BY <2>8 DEF SaveCert
  <2>9. CASE SaveFails
    BY <2>9 DEF SaveFails, Fail, Sleep
  <2>10. CASE Update
    BY <2>10 DEF Update
  <2>11. CASE Reconnected
    BY <2>11 DEF Reconnected, Sleep
  <2>12. CASE Crash
    BY <2>12 DEF Crash
  <2>13. CASE Restart
    <3>1. used' \in Serials
      BY <2>13 DEF Restart
    <3>2. current' \in Serials /\ current' # 0 /\ pc' = "sleep"
      BY <2>13 DEF Restart
    <3> QED BY <2>13, <3>1, <3>2 DEF Restart
  <2>14. CASE UNCHANGED vars
    BY <2>14
  <2>15. CASE AppUpdate
    BY <2>15 DEF AppUpdate
  <2>16. CASE Expire
    BY <2>16 DEF Expire, Fetching
  <2>17. CASE Accepted
    BY <2>17 DEF Accepted
  <2>18. CASE AskAgain
    BY <2>18 DEF AskAgain
  <2>19. CASE GiveUp
    BY <2>19 DEF GiveUp, Fail, Sleep
  <2>21. CASE AppFetch
    BY <2>21 DEF AppFetch
  <2>22. CASE UpdateRefused
    BY <2>22 DEF UpdateRefused, Fail, Sleep
  <2> QED BY <2>1, <2>2, <2>3, <2>4, <2>5, <2>6, <2>7, <2>8, <2>9, <2>10,
             <2>11, <2>12, <2>13,
             <2>14, <2>15, <2>16, <2>17, <2>18, <2>19, <2>21, <2>22 DEF Next
<1> QED BY <1>1, <1>2, PTL DEF Spec
(* The pairs saved, the pair in use and the renewal under way agree.       *)
THEOREM FilesCorrect == Spec => []FilesInv
<1>1. Init => FilesInv
  BY RefusedAssumption, SerialAssumption
     DEF Init, FilesInv, KeyFirst, Newest, InUseIsOnDisk, OnlyUsable, Fetching, Saving
<1>2. TypeOK /\ FilesInv /\ [Next]_vars => FilesInv'
  <2> SUFFICES ASSUME TypeOK, FilesInv, [Next]_vars PROVE FilesInv'
    OBVIOUS
  <2>20. 0 \notin Refused
    BY RefusedAssumption, SerialAssumption
  <2>23. pc \in Saving =>
           /\ fetched >= certFile \/ fetched \in given
           /\ fetched >= used \/ fetched \in given
           /\ fetched \in 1..issued
    BY DEF FilesInv, Newest, Saving, TypeOK, Serials
  <2> USE SerialAssumption
      DEF FilesInv, KeyFirst, Newest, InUseIsOnDisk, OnlyUsable, files, renewer, world, history, vars, TypeOK, Serials, Pcs, Fetching, Saving
  <2>1. CASE Age
    BY <2>1 DEF Age
  <2>2. CASE Issue
    BY <2>2 DEF Issue
  <2>3. CASE Check
    BY <2>3 DEF Check
  <2>4. CASE FetchPair
    BY <2>4 DEF FetchPair
  <2>5. CASE FetchFails
    BY <2>5 DEF FetchFails, Fail, Sleep
  <2>6. CASE Compare
    BY <2>6 DEF Compare, Fail, Sleep
  <2>7. CASE SaveKey
    <3>1. fetched >= certFile \/ fetched \in given
      BY <2>7, <2>23 DEF SaveKey
    <3> QED BY <2>7, <2>23, <3>1 DEF SaveKey
  <2>8. CASE SaveCert
    BY <2>8, <2>23 DEF SaveCert
  <2>9. CASE SaveFails
    <3>1. /\ pc \in {"saveKey", "saveCert"} /\ pc' = "sleep" /\ leaf' = 0
          /\ current' = current /\ used' = used /\ given' = given /\ issued' = issued
      BY <2>9 DEF SaveFails, Fail, Sleep
    <3>2. CASE pc = "saveKey" /\ UNCHANGED <<files, dirty>>
      BY <3>1, <3>2, <2>9 DEF SaveFails, Fail, Sleep
    <3>3. CASE pc = "saveKey" /\ keyFile' = fetched /\ dirty' /\ UNCHANGED certFile
      BY <3>1, <3>3, <2>23, <2>9 DEF SaveFails, Fail, Sleep
    <3>4. CASE pc = "saveCert" /\ certFile' \in {certFile, fetched} /\ dirty' /\ UNCHANGED keyFile
      BY <3>1, <3>4, <2>23, <2>9 DEF SaveFails, Fail, Sleep
    <3> QED
      BY <2>9, <3>2, <3>3, <3>4 DEF SaveFails
  <2>10. CASE Update
    BY <2>10 DEF Update
  <2>11. CASE Reconnected
    BY <2>11 DEF Reconnected, Sleep
  <2>12. CASE Crash
    BY <2>12, <2>20 DEF Crash
  <2>13. CASE Restart
    BY <2>13 DEF Restart
  <2>14. CASE UNCHANGED vars
    BY <2>14
  <2>15. CASE AppUpdate
    BY <2>15 DEF AppUpdate
  <2>16. CASE Expire
    BY <2>16 DEF Expire, Fetching
  <2>17. CASE Accepted
    BY <2>17 DEF Accepted
  <2>18. CASE AskAgain
    BY <2>18 DEF AskAgain
  <2>19. CASE GiveUp
    BY <2>19 DEF GiveUp, Fail, Sleep
  <2>21. CASE AppFetch
    BY <2>21 DEF AppFetch
  <2>22. CASE UpdateRefused
    BY <2>22 DEF UpdateRefused, Fail, Sleep
  <2> QED BY <2>1, <2>2, <2>3, <2>4, <2>5, <2>6, <2>7, <2>8, <2>9, <2>10, <2>11, <2>12, <2>13,
             <2>14, <2>15, <2>16, <2>17, <2>18, <2>19, <2>21, <2>22 DEF Next
<1> QED BY <1>1, <1>2, TypeCorrect, PTL DEF Spec

(* Files that do not match hold the newer key (savefiles.go:16-19).        *)
THEOREM KeyIsFirst == Spec => []KeyFirst
<1>1. FilesInv => KeyFirst
  BY DEF FilesInv, KeyFirst
<1> QED BY <1>1, FilesCorrect, PTL

(* Nothing refused is ever saved or used (autorenew.go:110-114).           *)
THEOREM SavesUsable == Spec => []OnlyUsable
<1>1. FilesInv => OnlyUsable
  BY DEF FilesInv, OnlyUsable
<1> QED BY <1>1, FilesCorrect, PTL

(* Outside a save, and unless one failed, the files hold the pair in use.  *)
THEOREM InUseOnDisk == Spec => []InUseIsOnDisk
<1>1. FilesInv => InUseIsOnDisk
  BY DEF FilesInv
<1> QED BY <1>1, FilesCorrect, PTL

(* A process started again never runs on a certificate older than one it   *)
(* has used before, but for one the application itself had put in use      *)
(* (autorenew.go:115-120).                                                 *)
THEOREM RestartsNotOlder == Spec => RestartNotOlder
<1>1. TypeOK /\ FilesInv /\ [Next]_vars =>
        [pc = "down" /\ pc' # "down" => current' >= used \/ current' \in given]_vars
  <2> SUFFICES ASSUME TypeOK, FilesInv, Next, pc = "down", pc' # "down"
               PROVE  current' >= used \/ current' \in given
    OBVIOUS
  <2>1. Restart
    BY DEF Next, Age, Issue, AppFetch, AppUpdate, Expire, Check, Accepted, AskAgain, GiveUp,
           FetchPair, FetchFails, Compare, SaveKey, SaveCert,
           SaveFails, Update, UpdateRefused, Reconnected, Crash, renewer
  <2>2. (certFile >= used \/ certFile \in given) /\ current' = certFile
    BY <2>1 DEF Restart, FilesInv
  <2> QED BY <2>2 DEF TypeOK, Serials
<1> QED BY <1>1, TypeCorrect, FilesCorrect, PTL DEF Spec, RestartNotOlder

(* Whatever the application fetches and updates meanwhile, and however     *)
(* long it kept what it fetched: what the renewer puts in use is newer than*)
(* the leaf of its check, or another the application put in use during     *)
(* that check (autorenew.go:87,104, certprovider.go:95-102).                    *)
THEOREM Forward == Spec => RenewsForward
<1>1. TypeOK /\ FilesInv /\ [Next]_vars =>
        [pc = "update" /\ pc' = "reconnect"
           => current' > leaf \/ current' \in meanwhile \ {leaf}]_vars
  <2> SUFFICES ASSUME TypeOK, FilesInv, Next, pc = "update", pc' = "reconnect"
               PROVE  current' > leaf \/ current' \in meanwhile \ {leaf}
    OBVIOUS
  <2>1. Update
    BY DEF Next, Age, Issue, AppFetch, AppUpdate, Expire, Check, Accepted, AskAgain, GiveUp,
           FetchPair, FetchFails, Compare, SaveKey, SaveCert, SaveFails, UpdateRefused, Reconnected,
           Crash, Restart, Fail, Sleep, renewer
  <2> QED
    BY <2>1 DEF Update, FilesInv, Newest, Saving, TypeOK, Serials
<1> QED BY <1>1, TypeCorrect, FilesCorrect, PTL DEF Spec, RenewsForward

(* A renewer alone, with an application that leaves the certificate to it. *)
Alone ==
  /\ given = {}
  /\ used <= certFile /\ certFile <= keyFile
  /\ pc # "down" => used <= current

(* savefiles.go:16-19, autorenew.go:115-120: if the renewer alone updates, *)
(* then files that do not match do hold the newer key, and neither they nor*)
(* the running process fall behind any certificate there was.              *)
THEOREM RenewerAlone == ASSUME ~AppUpdates PROVE Spec => []Alone
<1>1. Init => Alone
  BY DEF Init, Alone
<1>2. TypeOK /\ FilesInv /\ Alone /\ [Next]_vars => Alone'
  <2> SUFFICES ASSUME TypeOK, FilesInv, Alone, [Next]_vars PROVE Alone'
    OBVIOUS
  <2>1. TypeOK /\ meanwhile = {} /\ given = {}
    BY DEF Alone, TypeOK
  <2>2. pc \in Saving => Newest(fetched)
    BY <2>1 DEF FilesInv
  <2> USE SerialAssumption, <2>1 DEF Alone, TypeOK, Serials, vars, renewer, files, history, world
  <2>3. CASE UNCHANGED vars
    BY <2>3
  <2>4. CASE Age \/ Issue \/ AppFetch \/ AppUpdate
    BY <2>4 DEF Age, Issue, AppFetch, AppUpdate
  <2>5. CASE Expire \/ Check \/ Accepted \/ AskAgain \/ FetchPair
    BY <2>5 DEF Expire, Check, Accepted, AskAgain, FetchPair, Fetching
  <2>6. CASE GiveUp \/ FetchFails \/ Compare \/ Reconnected
    BY <2>6 DEF GiveUp, FetchFails, Compare, Reconnected, Fail, Sleep
  <2>7. CASE SaveKey
    BY <2>2, <2>7 DEF SaveKey, Saving, Newest
  <2>8. CASE SaveCert
    BY <2>2, <2>8 DEF SaveCert, Saving, Newest, FilesInv
  <2>9. CASE SaveFails
    BY <2>2, <2>9 DEF SaveFails, Fail, Sleep, Saving, Newest, FilesInv
  <2>10. CASE Update
    BY <2>2, <2>10 DEF Update, Saving, Newest, FilesInv
  <2>11. CASE UpdateRefused
    BY <2>11 DEF UpdateRefused, Fail, Sleep
  <2>12. CASE Crash
    BY <2>12 DEF Crash
  <2>13. CASE Restart
    BY <2>13 DEF Restart
  <2> QED
    BY <2>3, <2>4, <2>5, <2>6, <2>7, <2>8, <2>9, <2>10, <2>11, <2>12, <2>13 DEF Next
<1> QED BY <1>1, <1>2, TypeCorrect, FilesCorrect, PTL DEF Spec
=============================================================================
