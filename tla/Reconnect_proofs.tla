-------------------------- MODULE Reconnect_proofs --------------------------
(***************************************************************************)
(* Proofs about Reconnect, for any number of clients, calls, requests,     *)
(* Updates and dials.                                                      *)
(***************************************************************************)
EXTENDS Reconnect, FiniteSetTheorems, TLAPS

(* Every variable keeps its type: the state of the worker, of the requests *)
(* and of the goroutines of Reconnect.                                     *)
THEOREM TypeCorrect == Spec => []TypeOK
<1> USE DEF TypeOK, Phases, ReqStates, Pcs
<1>1. Init => TypeOK
  BY DEF Init
<1>2. TypeOK /\ [Next]_vars => TypeOK'
  <2> SUFFICES ASSUME TypeOK, [Next]_vars PROVE TypeOK'
    OBVIOUS
  <2> USE DEF worker, requests, calls, goroutines, vars
  <2>1. CASE Tick
    BY <2>1 DEF Tick
  <2>2. CASE Update
    BY <2>2 DEF Update
  <2>3. ASSUME NEW c \in Clients, Worker(c) PROVE TypeOK'
    <3>1. CASE Dial(c)
      BY <3>1 DEF Dial
    <3>2. CASE OnConnDialed(c)
      BY <3>2 DEF OnConnDialed
    <3>3. CASE GetClientCertificate(c)
      BY <3>3 DEF GetClientCertificate
    <3>4. CASE Serve(c)
      BY <3>4 DEF Serve
    <3>5. CASE Abandon(c)
      BY <3>5 DEF Abandon
    <3> QED BY <2>3, <3>1, <3>2, <3>3, <3>4, <3>5 DEF Worker
  <2>4. ASSUME NEW c \in Clients, Drop(c) PROVE TypeOK'
    BY <2>4 DEF Drop
  <2>5. ASSUME NEW c \in Clients, NEW s \in Slots, Request(c, s) PROVE TypeOK'
    <3>1. CASE Submit(c, s)
      BY <3>1 DEF Submit
    <3>2. CASE Write(c, s)
      BY <3>2 DEF Write
    <3>3. CASE Finish(c, s)
      BY <3>3 DEF Finish
    <3> QED BY <2>5, <3>1, <3>2, <3>3 DEF Request
  <2>6. ASSUME NEW p \in Callers, Begin(p) PROVE TypeOK'
    BY <2>6 DEF Begin
  <2>7. ASSUME NEW p \in Callers, Return(p) PROVE TypeOK'
    BY <2>7 DEF Return
  <2>8. ASSUME NEW p \in Callers, NEW c \in Clients, Goroutine(p, c) PROVE TypeOK'
    <3>1. CASE Load(p, c)
      <4>1. CASE conn[c] = 0
        <5>1. Settled(p, c) /\ UNCHANGED <<ptr, deadline>>
          BY <3>1, <4>1 DEF Load
        <5> QED BY <3>1, <5>1 DEF Load, Settled
      <4>2. CASE conn[c] # 0
        <5>1. now + MaxRequestDuration \in Nat
          BY DurationAssumption
        <5>2. /\ ptr' \in [Callers -> [Clients -> Nat]]
              /\ pc' \in [Callers -> [Clients -> Pcs]]
              /\ deadline' \in [Callers -> [Clients -> Nat]]
          <6>1. /\ ptr' = [ptr EXCEPT ![p][c] = conn[c]]
                /\ pc' = [pc EXCEPT ![p][c] = IF force[p] THEN "close" ELSE "wait"]
                /\ deadline' = [deadline EXCEPT ![p][c] = now + MaxRequestDuration]
            BY <3>1, <4>2 DEF Load
          <6>2. ptr' \in [Callers -> [Clients -> Nat]]
            BY <6>1
          <6>3. deadline' \in [Callers -> [Clients -> Nat]]
            BY <5>1, <6>1
          <6>4. pc' \in [Callers -> [Clients -> Pcs]]
            BY <6>1
          <6> QED BY <6>2, <6>3, <6>4
        <5> QED BY <3>1, <4>2, <5>2 DEF Load
      <4> QED BY <4>1, <4>2
    <3>2. CASE Wait(p, c)
      BY <3>2 DEF Wait
    <3>3. CASE Close(p, c)
      BY <3>3 DEF Close
    <3>4. CASE Forget(p, c)
      BY <3>4 DEF Forget, Settled
    <3> QED BY <2>8, <3>1, <3>2, <3>3, <3>4 DEF Goroutine
  <2>9. CASE UNCHANGED vars
    BY <2>9
  <2> QED BY <2>1, <2>2, <2>3, <2>4, <2>5, <2>6, <2>7, <2>8, <2>9 DEF Next
<1> QED BY <1>1, <1>2, PTL DEF Spec
(* Load, pointwise: the goroutine ends where there is nothing to close, or *)
(* takes the pointer and starts to wait.                                   *)
LoadPost(p, c) ==
         /\ UNCHANGED <<now, current, worker, requests, calls>>
         /\ pc[p][c] = "load"
         /\ \/ /\ conn[c] = 0 /\ UNCHANGED <<ptr, deadline>>
               /\ pc'[p][c] = "done"
               /\ floor'[c] = IF floor[c] < began[p] THEN began[p] ELSE floor[c]
            \/ /\ conn[c] # 0 /\ UNCHANGED floor
               /\ ptr'[p][c] = conn[c]
               /\ deadline'[p][c] = now + MaxRequestDuration
               /\ pc'[p][c] = IF force[p] THEN "close" ELSE "wait"
         /\ \A q \in Callers, d \in Clients : q # p \/ d # c =>
              /\ pc'[q][d] = pc[q][d]
              /\ ptr'[q][d] = ptr[q][d]
              /\ deadline'[q][d] = deadline[q][d]
         /\ \A d \in Clients : d # c => floor'[d] = floor[d]

LEMMA LoadEffect ==
  ASSUME TypeOK, NEW p \in Callers, NEW c \in Clients, Load(p, c)
  PROVE  LoadPost(p, c)
<1> USE DEF TypeOK, LoadPost
<1>1. CASE conn[c] = 0
  <2>1. Settled(p, c) /\ UNCHANGED <<ptr, deadline>>
    BY <1>1 DEF Load
  <2> QED BY <1>1, <2>1 DEF Load, Settled
<1>2. CASE conn[c] # 0
  <2>1. /\ ptr' = [ptr EXCEPT ![p][c] = conn[c]]
        /\ pc' = [pc EXCEPT ![p][c] = IF force[p] THEN "close" ELSE "wait"]
        /\ deadline' = [deadline EXCEPT ![p][c] = now + MaxRequestDuration]
        /\ UNCHANGED floor
    BY <1>2 DEF Load
  <2>2. /\ ptr'[p][c] = conn[c]
        /\ deadline'[p][c] = now + MaxRequestDuration
        /\ pc'[p][c] = IF force[p] THEN "close" ELSE "wait"
    BY <2>1
  <2>3. \A q \in Callers, d \in Clients : q # p \/ d # c =>
              /\ pc'[q][d] = pc[q][d]
              /\ ptr'[q][d] = ptr[q][d]
              /\ deadline'[q][d] = deadline[q][d]
    BY <2>1
  <2> QED BY <1>2, <2>1, <2>2, <2>3 DEF Load
<1> QED BY <1>1, <1>2

(* Pointers, dials and closes agree: no Reconnect can miss the connection  *)
(* it has to close (client.go:41-64).                                      *)
THEOREM PointerCorrect == Spec => []PointerInv
<1> USE DEF PointerInv, Phases, Pcs
<1>1. Init => PointerInv
  BY DEF Init
<1>2. TypeOK /\ PointerInv /\ [Next]_vars => PointerInv'
  <2> SUFFICES ASSUME TypeOK, PointerInv, [Next]_vars PROVE PointerInv'
    OBVIOUS
  <2> USE DEF worker, requests, calls, goroutines, vars, TypeOK
  <2>1. CASE Tick
    BY <2>1 DEF Tick
  <2>2. CASE Update
    BY <2>2 DEF Update
  <2>3. ASSUME NEW c \in Clients, Worker(c) PROVE PointerInv'
    <3>1. CASE Dial(c)
      BY <3>1 DEF Dial
    <3>2. CASE OnConnDialed(c)
      BY <3>2 DEF OnConnDialed
    <3>3. CASE GetClientCertificate(c)
      BY <3>3 DEF GetClientCertificate
    <3>4. CASE Serve(c)
      BY <3>4 DEF Serve
    <3>5. CASE Abandon(c)
      BY <3>5 DEF Abandon
    <3> QED BY <2>3, <3>1, <3>2, <3>3, <3>4, <3>5 DEF Worker
  <2>4. ASSUME NEW c \in Clients, Drop(c) PROVE PointerInv'
    BY <2>4 DEF Drop
  <2>5. ASSUME NEW c \in Clients, NEW s \in Slots, Request(c, s) PROVE PointerInv'
    <3>1. CASE Submit(c, s)
      BY <3>1 DEF Submit
    <3>2. CASE Write(c, s)
      BY <3>2 DEF Write
    <3>3. CASE Finish(c, s)
      BY <3>3 DEF Finish
    <3> QED BY <2>5, <3>1, <3>2, <3>3 DEF Request
  <2>6. ASSUME NEW p \in Callers, Begin(p) PROVE PointerInv'
    BY <2>6 DEF Begin
  <2>7. ASSUME NEW p \in Callers, Return(p) PROVE PointerInv'
    BY <2>7 DEF Return
  <2>8. ASSUME NEW p \in Callers, NEW c \in Clients, Goroutine(p, c) PROVE PointerInv'
    <3>1. CASE Load(p, c)
      <4>1. LoadPost(p, c)
        BY <3>1, LoadEffect
      <4>2. UNCHANGED <<phase, last, open, conn>>
        BY <4>1 DEF LoadPost
      <4>3. ASSUME NEW q \in Callers, NEW d \in Clients
            PROVE  /\ ptr'[q][d] <= last[d]
                   /\ pc'[q][d] = "forget" /\ ptr'[q][d] = last[d] => ~open[d]
        <5>1. CASE q = p /\ d = c
          BY <4>1, <5>1 DEF LoadPost
        <5>2. CASE q # p \/ d # c
          <6>1. pc'[q][d] = pc[q][d] /\ ptr'[q][d] = ptr[q][d]
            BY <4>1, <5>2 DEF LoadPost
          <6> QED BY <6>1
        <5> QED BY <5>1, <5>2
      <4> QED BY <4>2, <4>3
    <3>2. CASE Wait(p, c)
      BY <3>2 DEF Wait
    <3>3. CASE Close(p, c)
      <4>1. /\ UNCHANGED <<phase, last, conn, ptr>>
            /\ \A d \in Clients : open'[d] => open[d]
            /\ ptr[p][c] = last[c] => ~open'[c]
        BY <3>3 DEF Close
      <4>2. ASSUME NEW q \in Callers, NEW d \in Clients
            PROVE  q # p \/ d # c => pc'[q][d] = pc[q][d]
        <5>1. pc' = [pc EXCEPT ![p][c] = "forget"] /\ pc \in [Callers -> [Clients -> Pcs]]
          BY <3>3 DEF Close
        <5> QED BY ONLY <5>1, q \in Callers, d \in Clients, p \in Callers, c \in Clients
      <4>3. ASSUME NEW q \in Callers, NEW d \in Clients
            PROVE  pc'[q][d] = "forget" /\ ptr[q][d] = last[d] => ~open'[d]
        <5>1. CASE q = p /\ d = c
          BY <4>1, <5>1
        <5>2. CASE q # p \/ d # c
          <6>1. pc'[q][d] = pc[q][d] /\ (open'[d] => open[d])
            BY <4>1, <4>2, <5>2
          <6>2. pc[q][d] = "forget" /\ ptr[q][d] = last[d] => ~open[d]
            OBVIOUS
          <6> QED BY <6>1, <6>2
        <5> QED BY <5>1, <5>2
      <4> QED BY <4>1, <4>3
    <3>4. CASE Forget(p, c)
      <4>1. /\ UNCHANGED <<phase, last, open, ptr>>
            /\ conn' = [conn EXCEPT ![c] = IF conn[c] = ptr[p][c] THEN 0 ELSE conn[c]]
            /\ pc[p][c] = "forget"
        BY <3>4 DEF Forget
      <4>2. ASSUME NEW q \in Callers, NEW d \in Clients
            PROVE  pc'[q][d] = "forget" => pc[q][d] = "forget"
        <5>1. pc' = [pc EXCEPT ![p][c] = "done"] /\ pc \in [Callers -> [Clients -> Pcs]]
          BY <3>4 DEF Forget, Settled
        <5> QED BY ONLY <5>1, q \in Callers, d \in Clients, p \in Callers, c \in Clients
      <4>3. ASSUME NEW d \in Clients
            PROVE  /\ conn'[d] <= last[d]
                   /\ phase[d] \notin {"idle", "dialed"} /\ open[d] => conn'[d] = last[d]
        BY <4>1
      <4> QED BY <4>1, <4>2, <4>3
    <3> QED BY <2>8, <3>1, <3>2, <3>3, <3>4 DEF Goroutine
  <2>9. CASE UNCHANGED vars
    BY <2>9
  <2> QED BY <2>1, <2>2, <2>3, <2>4, <2>5, <2>6, <2>7, <2>8, <2>9 DEF Next
<1> QED BY <1>1, <1>2, TypeCorrect, PTL DEF Spec

(* A client whose conn is nil presents no certificate.                     *)
LEMMA NilPresentsNothing ==
  ASSUME TypeOK, PointerInv, NEW c \in Clients, conn[c] = 0
  PROVE  ~Presenting(c)
<1>1. SUFFICES ASSUME Presenting(c) PROVE FALSE
  OBVIOUS
<1>2. phase[c] # "idle" /\ phase[c] # "dialed" /\ open[c]
  BY <1>1 DEF Presenting
<1>3. last[c] > 0 /\ conn[c] = last[c]
  BY <1>2 DEF PointerInv
<1> QED BY <1>3

(* Certificates, settled floors and calls under way agree.                 *)
THEOREM CertCorrect == Spec => []CertInv
<1> USE DEF CertInv, PointerInv, Presenting, Phases, Pcs
<1>1. Init => CertInv
  BY DEF Init
<1>2. TypeOK /\ PointerInv /\ CertInv /\ [Next]_vars => CertInv'
  <2> SUFFICES ASSUME TypeOK, PointerInv, CertInv, [Next]_vars PROVE CertInv'
    OBVIOUS
  <2> USE DEF worker, requests, calls, goroutines, vars, TypeOK
  <2>1. CASE Tick
    BY <2>1 DEF Tick
  <2>2. CASE Update
    BY <2>2 DEF Update
  <2>3. ASSUME NEW c \in Clients, Worker(c) PROVE CertInv'
    <3>1. CASE Dial(c)
      BY <3>1 DEF Dial
    <3>2. CASE OnConnDialed(c)
      BY <3>2 DEF OnConnDialed
    <3>3. CASE GetClientCertificate(c)
      BY <3>3 DEF GetClientCertificate
    <3>4. CASE Serve(c)
      BY <3>4 DEF Serve
    <3>5. CASE Abandon(c)
      BY <3>5 DEF Abandon
    <3> QED BY <2>3, <3>1, <3>2, <3>3, <3>4, <3>5 DEF Worker
  <2>4. ASSUME NEW c \in Clients, Drop(c) PROVE CertInv'
    BY <2>4 DEF Drop
  <2>5. ASSUME NEW c \in Clients, NEW s \in Slots, Request(c, s) PROVE CertInv'
    <3>1. CASE Submit(c, s)
      BY <3>1 DEF Submit
    <3>2. CASE Write(c, s)
      BY <3>2 DEF Write
    <3>3. CASE Finish(c, s)
      BY <3>3 DEF Finish
    <3> QED BY <2>5, <3>1, <3>2, <3>3 DEF Request
  <2>6. ASSUME NEW p \in Callers, Begin(p) PROVE CertInv'
    BY <2>6 DEF Begin
  <2>7. ASSUME NEW p \in Callers, Return(p) PROVE CertInv'
    BY <2>7 DEF Return
  <2>8. ASSUME NEW p \in Callers, NEW c \in Clients, Goroutine(p, c) PROVE CertInv'
    <3>1. CASE Load(p, c)
      <4>1. LoadPost(p, c)
        BY <3>1, LoadEffect
      <4>2. UNCHANGED <<current, phase, last, open, cert, call, began>>
        BY <4>1 DEF LoadPost
      <4>3. conn[c] = 0 => ~Presenting(c)
        BY NilPresentsNothing
      <4>4. ASSUME NEW d \in Clients
            PROVE  /\ floor'[d] >= floor[d] /\ floor'[d] <= current
                   /\ Presenting(d) => floor'[d] <= cert[d]
        <5>1. CASE d = c
          BY <4>1, <4>3, <5>1 DEF LoadPost
        <5>2. CASE d # c
          BY <4>1, <5>2 DEF LoadPost
        <5> QED BY <5>1, <5>2
      <4>5. ASSUME NEW q \in Callers, NEW d \in Clients
            PROVE  /\ call[q] = "running" /\ pc'[q][d] = "done" => floor'[d] >= began[q]
                   /\ pc'[q][d] \in {"wait", "close", "forget"} /\ Presenting(d) =>
                        ptr'[q][d] = last[d] \/ cert[d] >= began[q]
        <5>1. CASE q = p /\ d = c
          <6>1. CASE conn[c] = 0
            <7>1. pc'[p][c] = "done" /\ floor'[c] >= began[p]
              BY <4>1, <6>1 DEF LoadPost
            <7> QED BY <5>1, <7>1
          <6>2. CASE conn[c] # 0
            <7>1. ptr'[p][c] = conn[c] /\ pc'[p][c] \in {"wait", "close"}
              BY <4>1, <6>2 DEF LoadPost
            <7>2. Presenting(c) => conn[c] = last[c]
              OBVIOUS
            <7> QED BY <5>1, <7>1, <7>2
          <6> QED BY <6>1, <6>2
        <5>2. CASE q # p \/ d # c
          <6>1. pc'[q][d] = pc[q][d] /\ ptr'[q][d] = ptr[q][d]
            BY <4>1, <5>2 DEF LoadPost
          <6>2. floor[d] \in Nat /\ began[q] \in Nat
            OBVIOUS
          <6>3. floor'[d] \in Nat
            <7>1. CASE d = c
              BY <4>1, <7>1 DEF LoadPost
            <7>2. CASE d # c
              BY <4>1, <7>2 DEF LoadPost
            <7> QED BY <7>1, <7>2
          <6>4. floor'[d] >= floor[d]
            BY <4>4
          <6>5. call[q] = "running" /\ pc[q][d] = "done" => floor[d] >= began[q]
            OBVIOUS
          <6> QED BY <6>1, <6>2, <6>3, <6>4, <6>5
        <5> QED BY <5>1, <5>2
      <4> QED BY <4>2, <4>4, <4>5
    <3>2. CASE Wait(p, c)
      BY <3>2 DEF Wait
    <3>3. CASE Close(p, c)
      BY <3>3 DEF Close
    <3>4. CASE Forget(p, c)
      BY <3>4 DEF Forget, Settled
    <3> QED BY <2>8, <3>1, <3>2, <3>3, <3>4 DEF Goroutine
  <2>9. CASE UNCHANGED vars
    BY <2>9
  <2> QED BY <2>1, <2>2, <2>3, <2>4, <2>5, <2>6, <2>7, <2>8, <2>9 DEF Next
<1> QED BY <1>1, <1>2, TypeCorrect, PointerCorrect, PTL DEF Spec

(* What a graceful goroutine knows of the requests pending when it closes. *)
THEOREM GraceCorrect == Spec => []GraceInv
<1> USE DEF GraceInv, Pending, ReqStates, Pcs
<1>1. Init => GraceInv
  BY DEF Init
<1>2. TypeOK /\ GraceInv /\ [Next]_vars => GraceInv'
  <2> SUFFICES ASSUME TypeOK, GraceInv, [Next]_vars PROVE GraceInv'
    OBVIOUS
  <2> USE DEF worker, requests, calls, goroutines, vars, TypeOK
  <2>1. CASE Tick
    <3>1. now' = now + 1 /\ UNCHANGED <<requests, calls, goroutines>>
      BY <2>1 DEF Tick
    <3>2. \A q \in Callers : start[q] + MaxRequestDuration \in Nat
      BY DurationAssumption
    <3>3. \A q \in Callers, d \in Clients :
            pc[q][d] = "close" /\ ~force[q] =>
              \/ now' >= start[q] + MaxRequestDuration
              \/ \A s \in Pending(d) : sub[d][s] >= start[q]
      <4>1. SUFFICES ASSUME NEW q \in Callers, NEW d \in Clients,
                            now >= start[q] + MaxRequestDuration
                     PROVE  now' >= start[q] + MaxRequestDuration
        OBVIOUS
      <4> QED BY <3>1, <3>2, <4>1
    <3>4. (\A q \in Callers : start[q] <= now') /\ \A d \in Clients, s \in Slots : sub[d][s] <= now'
      BY <3>1
    <3> QED BY <3>1, <3>3, <3>4
  <2>2. CASE Update
    BY <2>2 DEF Update
  <2>3. ASSUME NEW c \in Clients, Worker(c) PROVE GraceInv'
    <3>1. CASE Dial(c)
      BY <3>1 DEF Dial
    <3>2. CASE OnConnDialed(c)
      BY <3>2 DEF OnConnDialed
    <3>3. CASE GetClientCertificate(c)
      BY <3>3 DEF GetClientCertificate
    <3>4. CASE Serve(c)
      BY <3>4 DEF Serve
    <3>5. CASE Abandon(c)
      BY <3>5 DEF Abandon
    <3> QED BY <2>3, <3>1, <3>2, <3>3, <3>4, <3>5 DEF Worker
  <2>4. ASSUME NEW c \in Clients, Drop(c) PROVE GraceInv'
    BY <2>4 DEF Drop
  <2>5. ASSUME NEW c \in Clients, NEW s \in Slots, Request(c, s) PROVE GraceInv'
    <3>1. CASE Submit(c, s)
      BY <3>1 DEF Submit
    <3>2. CASE Write(c, s)
      BY <3>2 DEF Write
    <3>3. CASE Finish(c, s)
      BY <3>3 DEF Finish
    <3> QED BY <2>5, <3>1, <3>2, <3>3 DEF Request
  <2>6. ASSUME NEW p \in Callers, Begin(p) PROVE GraceInv'
    BY <2>6 DEF Begin
  <2>7. ASSUME NEW p \in Callers, Return(p) PROVE GraceInv'
    BY <2>7 DEF Return
  <2>8. ASSUME NEW p \in Callers, NEW c \in Clients, Goroutine(p, c) PROVE GraceInv'
    <3>1. CASE Load(p, c)
      <4>1. LoadPost(p, c)
        BY <3>1, LoadEffect
      <4>2. UNCHANGED <<now, req, sub, force, start>>
        BY <4>1 DEF LoadPost
      <4>3. ASSUME NEW q \in Callers, NEW d \in Clients
            PROVE  /\ pc'[q][d] = "wait" => deadline'[q][d] >= start[q] + MaxRequestDuration
                   /\ pc'[q][d] = "close" /\ ~force[q] =>
                        \/ now >= start[q] + MaxRequestDuration
                        \/ \A s \in Pending(d) : sub[d][s] >= start[q]
        <5>1. CASE q = p /\ d = c
          BY <4>1, <5>1, DurationAssumption DEF LoadPost
        <5>2. CASE q # p \/ d # c
          <6>1. pc'[q][d] = pc[q][d] /\ deadline'[q][d] = deadline[q][d]
            BY <4>1, <5>2 DEF LoadPost
          <6> QED BY <6>1
        <5> QED BY <5>1, <5>2
      <4> QED BY <4>2, <4>3
    <3>2. CASE Wait(p, c)
      <4>1. CASE PendingRequests(c) = 0
        <5>1. Pending(c) = {}
          BY <4>1, SlotsAssumption, FS_EmptySet, FS_Subset DEF PendingRequests
        <5> QED BY <3>2, <5>1 DEF Wait
      <4>2. CASE now >= deadline[p][c]
        BY <3>2, <4>2, DurationAssumption DEF Wait
      <4> QED BY <3>2, <4>1, <4>2 DEF Wait, StopWaiting
    <3>3. CASE Close(p, c)
      BY <3>3 DEF Close
    <3>4. CASE Forget(p, c)
      BY <3>4 DEF Forget, Settled
    <3> QED BY <2>8, <3>1, <3>2, <3>3, <3>4 DEF Goroutine
  <2>9. CASE UNCHANGED vars
    BY <2>9
  <2> QED BY <2>1, <2>2, <2>3, <2>4, <2>5, <2>6, <2>7, <2>8, <2>9 DEF Next
<1> QED BY <1>1, <1>2, TypeCorrect, PTL DEF Spec

-----------------------------------------------------------------------------
(* Once a Reconnect is done with a client, no connection of that client    *)
(* that is or becomes established presents a certificate older than the    *)
(* one current when Reconnect was called (shardedClient.go:73-83).         *)
THEOREM Settles == Spec => []SettledStaysSettled
<1>1. TypeOK /\ CertInv => SettledStaysSettled
  BY DEF TypeOK, CertInv, SettledStaysSettled
<1> QED BY <1>1, TypeCorrect, CertCorrect, PTL

(* The connection that presents a certificate is the one client.conn       *)
(* points to (client.go:41-44, 63).                                        *)
THEOREM Reachable == Spec => []OpenIsReachable
<1>1. PointerInv => OpenIsReachable
  BY DEF PointerInv, OpenIsReachable, Presenting
<1> QED BY <1>1, PointerCorrect, PTL

(* A graceful Reconnect closes on no request submitted before it was       *)
(* called whose own deadline has not passed (client.go:55-62).             *)
THEOREM Spares == Spec => []GracefulSpares
<1>1. TypeOK /\ GraceInv => GracefulSpares
  <2> SUFFICES ASSUME TypeOK, GraceInv, NEW p \in Callers, NEW c \in Clients,
                      pc[p][c] = "close", ~force[p],
                      NEW s \in Pending(c), sub[c][s] < start[p]
               PROVE  now >= sub[c][s] + MaxRequestDuration
    BY DEF GracefulSpares
  <2>1. s \in Slots
    BY DEF Pending
  <2>2. now \in Nat /\ start[p] \in Nat /\ sub[c][s] \in Nat
    BY <2>1 DEF TypeOK
  <2>3. ~(sub[c][s] >= start[p])
    BY <2>2
  <2>4. now >= start[p] + MaxRequestDuration
    BY <2>3 DEF GraceInv
  <2> QED BY <2>2, <2>4, DurationAssumption
<1> QED BY <1>1, TypeCorrect, GraceCorrect, PTL

(* When Reconnect returns every client is settled on the certificate that  *)
(* was current when it was called (shardedClient.go:83-95).                *)
THEOREM ReturnMoves == Spec => ReturnMovesAll
<1>1. TypeOK /\ CertInv /\ [Next]_vars =>
        [\A p \in Callers : call[p] = "running" /\ call'[p] = "idle" =>
           \A c \in Clients : floor[c] >= began[p]]_vars
  <2> SUFFICES ASSUME TypeOK, CertInv, Next, NEW q \in Callers,
                      call[q] = "running", call'[q] = "idle", NEW d \in Clients
               PROVE  floor[d] >= began[q]
    OBVIOUS
  <2>1. ASSUME NEW p \in Callers, Return(p) PROVE floor[d] >= began[q]
    <3>1. q = p
      BY <2>1 DEF Return, TypeOK
    <3>2. pc[q][d] = "done"
      BY <2>1, <3>1 DEF Return
    <3> QED BY <3>2 DEF CertInv
  <2>2. ASSUME NEW p \in Callers, Begin(p) PROVE FALSE
    BY <2>2 DEF Begin, TypeOK
  <2>3. CASE UNCHANGED call
    BY <2>3
  <2>4. (\E p \in Callers : Begin(p) \/ Return(p)) \/ UNCHANGED call
    BY DEF Next, Tick, Update, Worker, Dial, OnConnDialed, GetClientCertificate, Serve,
           Abandon, Drop, Request, Submit, Write, Finish, Goroutine, Load, Wait, Close,
           Forget, calls
  <2> QED BY <2>1, <2>2, <2>3, <2>4
<1> QED BY <1>1, TypeCorrect, CertCorrect, PTL DEF Spec, ReturnMovesAll

-----------------------------------------------------------------------------
(* The refinement.  ServedCert changes only when a connection starts to    *)
(* serve or stops being one that does.                                     *)

LEMMA ServedInit == Init => Switch!Init
BY DEF Init, Switch!Init, ServedCert

(* A step that leaves the worker's connections alone changes nothing that  *)
(* is served.                                                              *)
LEMMA ServedUnchanged ==
  ASSUME UNCHANGED <<phase, open, cert>>
  PROVE  ServedCert' = ServedCert
BY DEF ServedCert

LEMMA RefinementStep ==
  TypeOK /\ PointerInv /\ CertInv /\ [Next]_vars => [Switch!Next]_(Switch!vars)
<1> SUFFICES ASSUME TypeOK, PointerInv, CertInv, [Next]_vars
             PROVE  [Switch!Next]_(Switch!vars)
  OBVIOUS
<1> USE DEF worker, requests, calls, goroutines
<1>1. CASE ServedCert' = ServedCert /\ UNCHANGED <<current, floor>>
  BY <1>1 DEF Switch!vars
<1>2. ASSUME NEW c \in Clients, UNCHANGED <<current, floor>>,
             ServedCert' = [ServedCert EXCEPT ![c] = 0]
      PROVE  Switch!Next
  BY <1>2 DEF Switch!Next, Switch!Lose
<1>3. CASE Update
  <2>1. ServedCert' = ServedCert
    BY <1>3, ServedUnchanged DEF Update
  <2> QED BY <1>3, <2>1 DEF Update, Switch!Next, Switch!Update
<1>4. ASSUME NEW c \in Clients, Worker(c) PROVE [Switch!Next]_(Switch!vars)
  <2>1. CASE Serve(c)
    <3>1. ServedCert[c] = 0 /\ ServedCert' = [ServedCert EXCEPT ![c] = cert[c]]
      BY <2>1 DEF Serve, ServedCert, TypeOK
    <3>2. Presenting(c)
      BY <2>1 DEF Serve, Presenting
    <3>3. cert[c] > 0 /\ floor[c] <= cert[c] /\ cert[c] <= current
      BY <3>2 DEF CertInv
    <3>4. cert[c] \in floor[c]..current
      BY <3>3 DEF TypeOK
    <3>5. UNCHANGED <<current, floor>>
      BY <2>1 DEF Serve
    <3>6. Switch!Establish(c)
      BY <3>1, <3>3, <3>4, <3>5 DEF Switch!Establish
    <3> QED BY <3>6 DEF Switch!Next
  <2>2. CASE ~Serve(c)
    <3>1. (phase[c] # "serving" /\ phase'[c] # "serving") \/ Abandon(c)
      BY <1>4, <2>2 DEF Worker, Dial, OnConnDialed, GetClientCertificate, TypeOK
    <3>2. CASE Abandon(c)
      BY <1>1, <3>2 DEF Abandon, ServedCert, TypeOK
    <3>3. CASE phase[c] # "serving" /\ phase'[c] # "serving"
      <4>1. \A d \in Clients \ {c} : phase'[d] = phase[d] /\ open'[d] = open[d] /\ cert'[d] = cert[d]
        BY <1>4, <2>2 DEF Worker, Dial, OnConnDialed, GetClientCertificate, Abandon, TypeOK
      <4>2. UNCHANGED <<current, floor>>
        BY <1>4, <2>2 DEF Worker, Dial, OnConnDialed, GetClientCertificate, Abandon
      <4> QED BY <1>1, <3>3, <4>1, <4>2 DEF ServedCert
    <3> QED BY <3>1, <3>2, <3>3
  <2> QED BY <2>1, <2>2
<1>5. ASSUME NEW c \in Clients, Drop(c) PROVE Switch!Next
  <2>1. ServedCert' = [ServedCert EXCEPT ![c] = 0] /\ UNCHANGED <<current, floor>>
    BY <1>5 DEF Drop, ServedCert, TypeOK
  <2> QED BY <1>2, <2>1
<1>6. ASSUME NEW p \in Callers, NEW c \in Clients, Settled(p, c),
             UNCHANGED <<current, phase, open, cert>>,
             Presenting(c) => cert[c] >= began[p]
      PROVE  Switch!Next
  <2> DEFINE v == IF floor[c] < began[p] THEN began[p] ELSE floor[c]
  <2>1. ServedCert' = ServedCert
    BY <1>6, ServedUnchanged
  <2>2. v \in floor[c]..current
    BY DEF CertInv, TypeOK
  <2>3. ServedCert[c] = 0 \/ ServedCert[c] >= v
    BY <1>6 DEF ServedCert, CertInv, Presenting
  <2>4. floor' = [floor EXCEPT ![c] = v]
    BY <1>6 DEF Settled
  <2>5. Switch!Settle(c)
    BY <1>6, <2>1, <2>2, <2>3, <2>4 DEF Switch!Settle
  <2> QED BY <2>5 DEF Switch!Next
<1>7. ASSUME NEW p \in Callers, NEW c \in Clients, Goroutine(p, c)
      PROVE  [Switch!Next]_(Switch!vars)
  <2>1. CASE Load(p, c) /\ conn[c] = 0
    <3>1. Settled(p, c) /\ UNCHANGED <<current, phase, open, cert>>
      BY <2>1 DEF Load
    <3>2. ~Presenting(c)
      BY <2>1, NilPresentsNothing
    <3> QED BY <1>6, <3>1, <3>2
  <2>2. CASE (Load(p, c) /\ conn[c] # 0) \/ Wait(p, c)
    BY <1>1, <2>2, ServedUnchanged DEF Load, Wait
  <2>3. CASE Close(p, c)
    <3>1. CASE ptr[p][c] = last[c]
      <4>1. ServedCert' = [ServedCert EXCEPT ![c] = 0] /\ UNCHANGED <<current, floor>>
        BY <2>3, <3>1 DEF Close, ServedCert, TypeOK
      <4> QED BY <1>2, <4>1
    <3>2. CASE ptr[p][c] # last[c]
      <4>1. open' = open /\ UNCHANGED <<current, floor, phase, cert>>
        BY <2>3, <3>2 DEF Close, TypeOK
      <4> QED BY <1>1, <4>1, ServedUnchanged
    <3> QED BY <3>1, <3>2
  <2>4. CASE Forget(p, c)
    <3>1. Settled(p, c) /\ UNCHANGED <<current, phase, open, cert>>
      BY <2>4 DEF Forget
    <3>2. Presenting(c) => cert[c] >= began[p]
      <4>1. pc[p][c] = "forget"
        BY <2>4 DEF Forget
      <4>2. Presenting(c) => ptr[p][c] # last[c]
        BY <4>1 DEF PointerInv, Presenting
      <4> QED BY <4>1, <4>2 DEF CertInv
    <3> QED BY <1>6, <3>1, <3>2
  <2> QED BY <1>7, <2>1, <2>2, <2>3, <2>4 DEF Goroutine
<1>8. CASE Tick \/ UNCHANGED vars
  BY <1>1, <1>8, ServedUnchanged DEF Tick, vars
<1>9. ASSUME NEW c \in Clients, NEW s \in Slots, Request(c, s)
      PROVE  [Switch!Next]_(Switch!vars)
  BY <1>1, <1>9, ServedUnchanged DEF Request, Submit, Write, Finish
<1>10. ASSUME NEW p \in Callers, Begin(p) \/ Return(p)
       PROVE  [Switch!Next]_(Switch!vars)
  BY <1>1, <1>10, ServedUnchanged DEF Begin, Return
<1> QED BY <1>3, <1>4, <1>5, <1>7, <1>8, <1>9, <1>10 DEF Next

(* Reconnect implements CertSwitch: what any execution of the workers, the *)
(* Updates and the calls of Reconnect serves is what shardedClient.go:73-83*)
(* promises.                                                               *)
THEOREM Implements == Spec => SwitchSpec
<1>1. Init => Switch!Init
  BY ServedInit
<1>2. Spec => [](TypeOK /\ PointerInv /\ CertInv)
  BY TypeCorrect, PointerCorrect, CertCorrect, PTL
<1> QED BY <1>1, <1>2, RefinementStep, PTL DEF Spec, SwitchSpec, Switch!Spec
=============================================================================
