----------------------------- MODULE Reconnect ------------------------------
(***************************************************************************)
(* ShardedClient.Reconnect against everything that runs beside it:         *)
(* CertProvider.Update, the fastrpc worker of every client dialing on      *)
(* demand and handshaking, the requests in flight, connections lost for    *)
(* other reasons, and other calls of Reconnect                             *)
(* (pkg/client/shardedClient.go, client.go, certprovider.go).              *)
(*                                                                         *)
(* A certificate is the number of the Update that made it current, and a   *)
(* connection the number of the dial that opened it on its client, so a    *)
(* pointer to a connection is that number and 0 is nil.  fastrpc runs one  *)
(* connection at a time per client: only the last dialed can be open.      *)
(* Each client has the slots of its MaxPendingRequests queue; a request    *)
(* that finds none free fails at once and changes nothing.                 *)
(***************************************************************************)
EXTENDS Naturals, FiniteSets

CONSTANTS
  Clients,          \* the clients of all groups
  Callers,          \* concurrent calls of Reconnect
  Slots,            \* MaxPendingRequests: the pending requests of a client
  MaxRequestDuration,
  MaxVersion,       \* bound on Update
  MaxDials,         \* bound on the connections a client dials
  MaxNow            \* bound on the clock

ASSUME DurationAssumption == MaxRequestDuration \in Nat \ {0}
ASSUME SlotsAssumption == IsFiniteSet(Slots)
ASSUME BoundsAssumption == MaxVersion \in Nat /\ MaxDials \in Nat /\ MaxNow \in Nat

VARIABLES
  now,              \* the clock
  current,          \* CertProvider.current
  phase,            \* [Clients -> Phases] what the fastrpc worker is at
  last,             \* [Clients -> Nat] the number of the last dial
  open,             \* [Clients -> BOOLEAN] the last dialed connection is open
  cert,             \* [Clients -> Nat] the certificate read in its handshake
  conn,             \* [Clients -> Nat] client.conn
  req,              \* [Clients -> [Slots -> ReqStates]] pending requests
  sub,              \* [Clients -> [Slots -> Nat]] when each was submitted
  call,             \* [Callers -> {"idle", "running"}]
  force,            \* [Callers -> BOOLEAN] the argument of the call
  began,            \* [Callers -> Nat] history: current when it was called
  start,            \* [Callers -> Nat] history: now when it was called
  pc,               \* [Callers -> [Clients -> Pcs]] the goroutine per client
  ptr,              \* [Callers -> [Clients -> Nat]] the connection it loaded
  deadline,         \* [Callers -> [Clients -> Nat]] until when it waits
  floor             \* [Clients -> Nat] history: the newest `began` settled

worker == <<phase, last, open, cert, conn>>
requests == <<req, sub>>
calls == <<call, force, began, start>>
goroutines == <<pc, ptr, deadline>>
vars == <<now, current, worker, requests, calls, goroutines, floor>>

Phases == {"idle", "dialed", "hooked", "presented", "serving"}
ReqStates == {"free", "queued", "inflight"}
Pcs == {"load", "wait", "close", "forget", "done"}

TypeOK ==
  /\ now \in Nat /\ current \in Nat
  /\ phase \in [Clients -> Phases] /\ last \in [Clients -> Nat]
  /\ open \in [Clients -> BOOLEAN] /\ cert \in [Clients -> Nat]
  /\ conn \in [Clients -> Nat]
  /\ req \in [Clients -> [Slots -> ReqStates]]
  /\ sub \in [Clients -> [Slots -> Nat]]
  /\ call \in [Callers -> {"idle", "running"}]
  /\ force \in [Callers -> BOOLEAN]
  /\ began \in [Callers -> Nat] /\ start \in [Callers -> Nat]
  /\ pc \in [Callers -> [Clients -> Pcs]]
  /\ ptr \in [Callers -> [Clients -> Nat]]
  /\ deadline \in [Callers -> [Clients -> Nat]]
  /\ floor \in [Clients -> Nat]

Init ==
  /\ now = 0 /\ current = 1
  /\ phase = [c \in Clients |-> "idle"] /\ last = [c \in Clients |-> 0]
  /\ open = [c \in Clients |-> FALSE] /\ cert = [c \in Clients |-> 0]
  /\ conn = [c \in Clients |-> 0]
  /\ req = [c \in Clients |-> [s \in Slots |-> "free"]]
  /\ sub = [c \in Clients |-> [s \in Slots |-> 0]]
  /\ call = [p \in Callers |-> "idle"] /\ force = [p \in Callers |-> FALSE]
  /\ began = [p \in Callers |-> 0] /\ start = [p \in Callers |-> 0]
  /\ pc = [p \in Callers |-> [c \in Clients |-> "done"]]
  /\ ptr = [p \in Callers |-> [c \in Clients |-> 0]]
  /\ deadline = [p \in Callers |-> [c \in Clients |-> 0]]
  /\ floor = [c \in Clients |-> 0]

-----------------------------------------------------------------------------
(* The clock and the certificate.                                          *)

(* The bound does not stop a clock that a graceful wait depends on.        *)
Tick == /\ \/ now < MaxNow
           \/ \E p \in Callers, c \in Clients :
                pc[p][c] = "wait" /\ now < deadline[p][c]
        /\ now' = now + 1
        /\ UNCHANGED <<current, worker, requests, calls, goroutines, floor>>

(* CertProvider.Update of a pair that loads; one that is refused changes   *)
(* nothing.                                                                *)
Update == /\ current < MaxVersion
          /\ current' = current + 1
          /\ UNCHANGED <<now, worker, requests, calls, goroutines, floor>>

-----------------------------------------------------------------------------
(* Requests: what DoDeadline does with them.  A slot's request is answered *)
(* or given up once its deadline has passed, or fails with its connection. *)

Pending(c) == {s \in Slots : req[c][s] # "free"}

PendingRequests(c) == Cardinality(Pending(c))

(* Mutant: the deadline is kept where the time of submission belongs.      *)
Submit_KeepsPast(c, s) ==
  /\ req[c][s] = "free"
  /\ req' = [req EXCEPT ![c][s] = "queued"]
  /\ sub' = [sub EXCEPT ![c][s] = now - MaxRequestDuration]
  /\ UNCHANGED <<now, current, worker, calls, goroutines, floor>>

(* doUnary reaches DoDeadline with deadline = now + maxRequestDuration.    *)
Submit(c, s) ==
  /\ req[c][s] = "free"
  /\ req' = [req EXCEPT ![c][s] = "queued"]
  /\ sub' = [sub EXCEPT ![c][s] = now]
  /\ UNCHANGED <<now, current, worker, calls, goroutines, floor>>

Write(c, s) ==
  /\ req[c][s] = "queued" /\ phase[c] = "serving"
  /\ req' = [req EXCEPT ![c][s] = "inflight"]
  /\ UNCHANGED <<now, current, worker, sub, calls, goroutines, floor>>

Finish(c, s) ==
  /\ \/ req[c][s] = "inflight" /\ phase[c] = "serving" /\ open[c]
     \/ req[c][s] # "free" /\ now >= sub[c][s] + MaxRequestDuration
  /\ req' = [req EXCEPT ![c][s] = "free"]
  /\ sub' = [sub EXCEPT ![c][s] = 0]
  /\ UNCHANGED <<now, current, worker, calls, goroutines, floor>>

-----------------------------------------------------------------------------
(* The fastrpc worker of client c.                                         *)

(* It dials on demand; a dial that fails leaves it where it was.           *)
Dial(c) ==
  /\ phase[c] = "idle" /\ Pending(c) # {} /\ last[c] < MaxDials
  /\ phase' = [phase EXCEPT ![c] = "dialed"]
  /\ last' = [last EXCEPT ![c] = last[c] + 1]
  /\ open' = [open EXCEPT ![c] = TRUE]
  /\ cert' = [cert EXCEPT ![c] = 0]
  /\ UNCHANGED <<now, current, conn, requests, calls, goroutines, floor>>

(* onConnDialed, called from the Dial hook, before the TLS handshake.      *)
OnConnDialed(c) ==
  /\ phase[c] = "dialed"
  /\ phase' = [phase EXCEPT ![c] = "hooked"]
  /\ conn' = [conn EXCEPT ![c] = last[c]]
  /\ UNCHANGED <<now, current, last, open, cert, requests, calls, goroutines, floor>>

(* Mutant: the pair is fixed when the client is built.                     *)
GetClientCertificate_FirstPair(c) ==
  /\ phase[c] = "hooked"
  /\ phase' = [phase EXCEPT ![c] = "presented"]
  /\ cert' = [cert EXCEPT ![c] = 1]
  /\ UNCHANGED <<now, current, last, open, conn, requests, calls, goroutines, floor>>

(* The TLS handshake asks GetClientCertificate for the current pair.       *)
GetClientCertificate(c) ==
  /\ phase[c] = "hooked"
  /\ phase' = [phase EXCEPT ![c] = "presented"]
  /\ cert' = [cert EXCEPT ![c] = current]
  /\ UNCHANGED <<now, current, last, open, conn, requests, calls, goroutines, floor>>

(* The handshake completes, unless the connection was closed under it.     *)
Serve(c) ==
  /\ phase[c] = "presented" /\ open[c]
  /\ phase' = [phase EXCEPT ![c] = "serving"]
  /\ UNCHANGED <<now, current, last, open, cert, conn, requests, calls, goroutines, floor>>

(* Closed by the cloud, the network, a read timeout or the DNS dialer.     *)
Drop(c) ==
  /\ phase[c] # "idle" /\ open[c]
  /\ open' = [open EXCEPT ![c] = FALSE]
  /\ UNCHANGED <<now, current, phase, last, cert, conn, requests, calls, goroutines, floor>>

(* The worker finds its connection closed: what was written to it fails,   *)
(* what is queued waits for the next one.                                  *)
Abandon(c) ==
  /\ phase[c] \notin {"idle", "dialed"} /\ ~open[c]
  /\ phase' = [phase EXCEPT ![c] = "idle"]
  /\ req' = [req EXCEPT ![c] = [s \in Slots |->
               IF req[c][s] = "inflight" THEN "free" ELSE req[c][s]]]
  /\ sub' = [sub EXCEPT ![c] = [s \in Slots |->
               IF req[c][s] = "inflight" THEN 0 ELSE sub[c][s]]]
  /\ UNCHANGED <<now, current, last, open, cert, conn, calls, goroutines, floor>>

-----------------------------------------------------------------------------
(* Reconnect(force): one goroutine per client, then wg.Wait.               *)

Begin(p) ==
  /\ call[p] = "idle"
  /\ call' = [call EXCEPT ![p] = "running"]
  /\ \E f \in BOOLEAN : force' = [force EXCEPT ![p] = f]
  /\ began' = [began EXCEPT ![p] = current]
  /\ start' = [start EXCEPT ![p] = now]
  /\ pc' = [pc EXCEPT ![p] = [c \in Clients |-> "load"]]
  /\ UNCHANGED <<now, current, worker, requests, ptr, deadline, floor>>

(* The goroutine has nothing left to do on client c.                       *)
Settled(p, c) ==
  /\ pc' = [pc EXCEPT ![p][c] = "done"]
  /\ floor' = [floor EXCEPT ![c] = IF @ < began[p] THEN began[p] ELSE @]

(* Mutant: a connection that is still handshaking is taken for none.       *)
Load_SkipsHandshake(p, c) ==
  /\ pc[p][c] = "load"
  /\ \/ /\ conn[c] = 0 \/ phase[c] # "serving"
        /\ Settled(p, c)
        /\ UNCHANGED <<ptr, deadline>>
     \/ /\ conn[c] # 0 /\ phase[c] = "serving"
        /\ ptr' = [ptr EXCEPT ![p][c] = conn[c]]
        /\ pc' = [pc EXCEPT ![p][c] = IF force[p] THEN "close" ELSE "wait"]
        /\ deadline' = [deadline EXCEPT ![p][c] = now + MaxRequestDuration]
        /\ UNCHANGED floor
  /\ UNCHANGED <<now, current, worker, requests, calls>>

(* client.reconnect: conn.Load(), the early return on nil, the deadline.   *)
Load(p, c) ==
  /\ pc[p][c] = "load"
  /\ \/ /\ conn[c] = 0
        /\ Settled(p, c)
        /\ UNCHANGED <<ptr, deadline>>
     \/ /\ conn[c] # 0
        /\ ptr' = [ptr EXCEPT ![p][c] = conn[c]]
        /\ pc' = [pc EXCEPT ![p][c] = IF force[p] THEN "close" ELSE "wait"]
        /\ deadline' = [deadline EXCEPT ![p][c] = now + MaxRequestDuration]
        /\ UNCHANGED floor
  /\ UNCHANGED <<now, current, worker, requests, calls>>

(* Mutant: a request written to the connection is not waited for.          *)
StopWaiting_Unsent(p, c) == \/ \A s \in Slots : req[c][s] # "queued"
                            \/ now >= deadline[p][c]

(* Mutant: the wait has no deadline.                                       *)
StopWaiting_Idle(p, c) == PendingRequests(c) = 0

(* One round of the graceful wait that does not sleep again.               *)
StopWaiting(p, c) == PendingRequests(c) = 0 \/ now >= deadline[p][c]

Wait(p, c) ==
  /\ pc[p][c] = "wait" /\ StopWaiting(p, c)
  /\ pc' = [pc EXCEPT ![p][c] = "close"]
  /\ UNCHANGED <<now, current, worker, requests, calls, ptr, deadline, floor>>

(* conn.Close() of the connection loaded; an older one is closed already.  *)
Close(p, c) ==
  /\ pc[p][c] = "close"
  /\ pc' = [pc EXCEPT ![p][c] = "forget"]
  /\ open' = [open EXCEPT ![c] = open[c] /\ ptr[p][c] # last[c]]
  /\ UNCHANGED <<now, current, phase, last, cert, conn, requests, calls, ptr, deadline, floor>>

(* Mutant: conn.Store(nil), whatever was dialed meanwhile.                 *)
Forget_StoresNil(p, c) ==
  /\ pc[p][c] = "forget"
  /\ conn' = [conn EXCEPT ![c] = 0]
  /\ Settled(p, c)
  /\ UNCHANGED <<now, current, phase, last, open, cert, requests, calls, ptr, deadline>>

(* conn.CompareAndSwap(conn, nil), and the goroutine ends.                 *)
Forget(p, c) ==
  /\ pc[p][c] = "forget"
  /\ conn' = [conn EXCEPT ![c] = IF conn[c] = ptr[p][c] THEN 0 ELSE conn[c]]
  /\ Settled(p, c)
  /\ UNCHANGED <<now, current, phase, last, open, cert, requests, calls, ptr, deadline>>

(* Mutant: the call returns with its first goroutine.                      *)
Return_First(p) ==
  /\ call[p] = "running" /\ \E c \in Clients : pc[p][c] = "done"
  /\ call' = [call EXCEPT ![p] = "idle"]
  /\ force' = [force EXCEPT ![p] = FALSE]
  /\ began' = [began EXCEPT ![p] = 0] /\ start' = [start EXCEPT ![p] = 0]
  /\ ptr' = [ptr EXCEPT ![p] = [c \in Clients |-> 0]]
  /\ deadline' = [deadline EXCEPT ![p] = [c \in Clients |-> 0]]
  /\ UNCHANGED <<now, current, worker, requests, pc, floor>>

(* wg.Wait() is over; what the call kept goes with it.                     *)
Return(p) ==
  /\ call[p] = "running" /\ \A c \in Clients : pc[p][c] = "done"
  /\ call' = [call EXCEPT ![p] = "idle"]
  /\ force' = [force EXCEPT ![p] = FALSE]
  /\ began' = [began EXCEPT ![p] = 0] /\ start' = [start EXCEPT ![p] = 0]
  /\ ptr' = [ptr EXCEPT ![p] = [c \in Clients |-> 0]]
  /\ deadline' = [deadline EXCEPT ![p] = [c \in Clients |-> 0]]
  /\ UNCHANGED <<now, current, worker, requests, pc, floor>>

-----------------------------------------------------------------------------
Worker(c) == Dial(c) \/ OnConnDialed(c) \/ GetClientCertificate(c) \/ Serve(c) \/ Abandon(c)
Request(c, s) == Submit(c, s) \/ Write(c, s) \/ Finish(c, s)
Goroutine(p, c) == Load(p, c) \/ Wait(p, c) \/ Close(p, c) \/ Forget(p, c)

Next == \/ Tick \/ Update
        \/ \E c \in Clients : Worker(c) \/ Drop(c)
        \/ \E c \in Clients, s \in Slots : Request(c, s)
        \/ \E p \in Callers : Begin(p) \/ Return(p)
        \/ \E p \in Callers, c \in Clients : Goroutine(p, c)

Spec == Init /\ [][Next]_vars

(* The clock advances and the scheduler runs every goroutine of Reconnect: *)
(* nothing is assumed of the network, the cloud or the requests.           *)
Fairness == /\ WF_vars(Tick)
            /\ \A p \in Callers : WF_vars(Return(p))
            /\ \A p \in Callers, c \in Clients : WF_vars(Goroutine(p, c))

FairSpec == Spec /\ Fairness

-----------------------------------------------------------------------------
(* The connection of client c has read its certificate and can carry, or   *)
(* come to carry, requests.                                                *)
Presenting(c) == phase[c] \in {"presented", "serving"} /\ open[c]

(* Once a Reconnect is done with a client, no connection of that client,   *)
(* established then or later, presents a certificate older than the one    *)
(* that was current when Reconnect was called: client.reconnect loads      *)
(* conn after Update, and onConnDialed stores it before the handshake      *)
(* reads the certificate (shardedClient.go:73-83, client.go:41-64).        *)
SettledStaysSettled == \A c \in Clients : Presenting(c) => cert[c] >= floor[c]

(* Reconnect can find the connection it has to close: one that presents a  *)
(* certificate is the one client.conn points to, whatever calls of         *)
(* Reconnect forgot their own meanwhile (client.go:63, CompareAndSwap).    *)
OpenIsReachable == \A c \in Clients : Presenting(c) => conn[c] = last[c]

(* A graceful Reconnect about to close finds pending no request submitted  *)
(* before it was called, unless that request's own deadline has passed:    *)
(* it waits as long as a request may take (client.go:55-60).               *)
GracefulSpares ==
  \A p \in Callers, c \in Clients : pc[p][c] = "close" /\ ~force[p] =>
    \A s \in Pending(c) :
      sub[c][s] < start[p] => now >= sub[c][s] + MaxRequestDuration

(* When Reconnect returns, every client of every group is settled on the   *)
(* certificate current when it was called (shardedClient.go:83, wg.Wait).  *)
ReturnMovesAll ==
  [][\A p \in Callers : call[p] = "running" /\ call'[p] = "idle" =>
       \A c \in Clients : floor[c] >= began[p]]_vars

(* Reconnect returns, however many requests keep arriving: the wait of a   *)
(* goroutine ends at its deadline (client.go:56-60).                       *)
ReconnectReturns == \A p \in Callers : call[p] = "running" ~> call[p] = "idle"

(* What CertSwitch promises: established connections keep a certificate    *)
(* until they are closed, and Reconnect moves every client on.             *)
ServedCert == [c \in Clients |->
                 IF phase[c] = "serving" /\ open[c] THEN cert[c] ELSE 0]
Switch == INSTANCE CertSwitch WITH served <- ServedCert
SwitchSpec == Switch!Spec

-----------------------------------------------------------------------------
(* The inductive invariants the proofs rest on.                            *)

(* Pointers never run ahead of the dials; a goroutine about to forget its  *)
(* connection has closed it; the open one is where Reconnect looks for it. *)
PointerInv ==
  /\ \A c \in Clients :
       /\ conn[c] <= last[c]
       /\ phase[c] # "idle" => last[c] > 0
       /\ phase[c] \notin {"idle", "dialed"} /\ open[c] => conn[c] = last[c]
  /\ \A p \in Callers, c \in Clients :
       /\ ptr[p][c] <= last[c]
       /\ pc[p][c] = "forget" /\ ptr[p][c] = last[c] => ~open[c]

(* What a goroutine need not close was dialed after its call began.        *)
CertInv ==
  /\ current > 0
  /\ \A c \in Clients :
       /\ floor[c] <= current
       /\ Presenting(c) => /\ cert[c] > 0
                           /\ floor[c] <= cert[c] /\ cert[c] <= current
  /\ \A p \in Callers : began[p] <= current
  /\ \A p \in Callers, c \in Clients :
       /\ call[p] = "running" /\ pc[p][c] = "done" => floor[c] >= began[p]
       /\ pc[p][c] \in {"wait", "close", "forget"} /\ Presenting(c) =>
            ptr[p][c] = last[c] \/ cert[c] >= began[p]

(* A goroutine that stopped waiting saw its client idle, or its deadline.  *)
GraceInv ==
  /\ \A p \in Callers : start[p] <= now
  /\ \A c \in Clients, s \in Slots : sub[c][s] <= now
  /\ \A p \in Callers, c \in Clients :
       /\ pc[p][c] = "wait" => deadline[p][c] >= start[p] + MaxRequestDuration
       /\ pc[p][c] = "close" /\ ~force[p] =>
            \/ now >= start[p] + MaxRequestDuration
            \/ \A s \in Pending(c) : sub[c][s] >= start[p]
=============================================================================
