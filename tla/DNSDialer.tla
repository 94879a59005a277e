----------------------------- MODULE DNSDialer ------------------------------
(***************************************************************************)
(* The dialer the clients of one address share: it spreads their dials     *)
(* over the addresses its host name resolves to, and its refresh loop      *)
(* follows the name and closes idle connections to rebalance them          *)
(* (pkg/client/dnsDialer.go).  The clients dial, lose connections and      *)
(* take requests meanwhile; the refresh holds the mutex while it chooses   *)
(* what to close and has let go of it while it closes.                     *)
(*                                                                         *)
(* An address is a number, in the order sort.Strings puts them; Name is    *)
(* the name itself, dialed while it has never resolved.  A client has one  *)
(* connection at a time, so the table of connections is `at` on those that *)
(* are open.  d.next counts modulo NextBound, a multiple of the lengths    *)
(* the rotation can have.                                                  *)
(***************************************************************************)
EXTENDS Naturals, FiniteSets, Sequences

CONSTANTS
  Clients,          \* the clients of one clientsGroup
  Addrs,            \* IPv4 addresses the name may resolve to
  NextBound

Name == 0

ASSUME AddrsAssumption == IsFiniteSet(Addrs) /\ Addrs \subseteq Nat \ {0}
ASSUME ClientsAssumption == IsFiniteSet(Clients)
ASSUME NextAssumption ==
  /\ NextBound \in Nat \ {0}
  /\ \A n \in 1..Cardinality(Addrs) : NextBound % n = 0

VARIABLES
  dns,              \* what a lookup answers; {}: an error, or IPv6 only
  addrs,            \* d.addrs
  next,             \* d.next
  phase,            \* [Clients -> {"idle", "dialing", "open"}]
  at,               \* [Clients -> Addrs \cup {Name}] dialed or open to
  busy,             \* [Clients -> BOOLEAN] PendingRequests() > 0
  refresh,          \* where refreshOnce is
  answer,           \* what its lookup answered
  todo,             \* connections rebalanceLocked has not looked at yet
  counts,           \* [Addrs -> Nat] its counts
  target,           \* its target
  toClose           \* the connections it chose to close

clients == <<phase, at, busy>>
rebalance == <<answer, todo, counts, target, toClose>>
vars == <<dns, addrs, next, clients, refresh, rebalance>>

TypeOK ==
  /\ dns \subseteq Addrs
  /\ addrs \in Seq(Addrs \cup {Name}) /\ next \in 0..(NextBound - 1)
  /\ phase \in [Clients -> {"idle", "dialing", "open"}]
  /\ at \in [Clients -> Addrs \cup {Name}]
  /\ busy \in [Clients -> BOOLEAN]
  /\ refresh \in {"sleep", "apply", "scan", "close"}
  /\ answer \subseteq Addrs
  /\ todo \subseteq Clients /\ toClose \subseteq Clients
  /\ counts \in [Addrs -> Nat] /\ target \in Nat

(* d.mu is held for the whole of rebalanceLocked.                          *)
Locked == refresh = "scan"

(* resolve: deduplicated, IPv4 only, sorted.  The place of an address is   *)
(* how many of them come before it.                                        *)
Before(a, S) == Cardinality({b \in S : b < a})
Sorted(S) ==
  [i \in 1..Cardinality(S) |-> CHOOSE a \in S : Before(a, S) = i - 1]

Open == {c \in Clients : phase[c] = "open"}
OpenAt(a) == {c \in Open : at[c] = a}

(* init: the name is resolved once, and dialed itself if it did not.       *)
Init ==
  /\ dns \in SUBSET Addrs
  /\ addrs = (IF dns = {} THEN <<Name>> ELSE Sorted(dns))
  /\ next = 0
  /\ phase = [c \in Clients |-> "idle"] /\ at = [c \in Clients |-> Name]
  /\ busy = [c \in Clients |-> FALSE]
  /\ refresh = "sleep" /\ answer = {} /\ todo = {} /\ toClose = {}
  /\ counts = [a \in Addrs |-> 0] /\ target = 1

-----------------------------------------------------------------------------
(* The name's records change, or cannot be looked up for a while.          *)
Resolve(S) == /\ dns' = S
              /\ UNCHANGED <<addrs, next, clients, refresh, rebalance>>

(* The client takes its first request, or is done with the last.           *)
SetBusy(c) == /\ busy' = [busy EXCEPT ![c] = ~busy[c]]
              /\ UNCHANGED <<dns, addrs, next, phase, at, refresh, rebalance>>

(* dial: nextAddr takes the address, in turn, before the TCP connect.      *)
NextAddr(c) ==
  /\ phase[c] = "idle" /\ busy[c] /\ ~Locked
  /\ phase' = [phase EXCEPT ![c] = "dialing"]
  /\ IF addrs = <<>>
     THEN at' = [at EXCEPT ![c] = Name] /\ UNCHANGED next
     ELSE /\ at' = [at EXCEPT ![c] = addrs[(next % Len(addrs)) + 1]]
          /\ next' = (next + 1) % NextBound
  /\ UNCHANGED <<dns, addrs, busy, refresh, rebalance>>

DialFails(c) ==
  /\ phase[c] = "dialing"
  /\ phase' = [phase EXCEPT ![c] = "idle"]
  /\ at' = [at EXCEPT ![c] = Name]
  /\ UNCHANGED <<dns, addrs, next, busy, refresh, rebalance>>

(* The connection is registered under the address it was dialed to,        *)
(* whatever d.addrs is by now.                                             *)
Register(c) ==
  /\ phase[c] = "dialing" /\ ~Locked
  /\ phase' = [phase EXCEPT ![c] = "open"]
  /\ UNCHANGED <<dns, addrs, next, at, busy, refresh, rebalance>>

(* trackedConn.Close, once: by the worker or Reconnect, or by the refresh. *)
(* A connection closed before the refresh gets to it is closed already.    *)
Closed(c) ==
  /\ phase[c] = "open" /\ ~Locked
  /\ phase' = [phase EXCEPT ![c] = "idle"]
  /\ at' = [at EXCEPT ![c] = Name]
  /\ toClose' = toClose \ {c}
  /\ UNCHANGED <<dns, addrs, next, busy, refresh, answer, todo, counts, target>>

Lose(c) == Closed(c)

-----------------------------------------------------------------------------
(* refreshOnce.                                                            *)

(* Mutant: an empty answer is applied like any other.                      *)
Lookup_KeepsEmpty == /\ refresh = "sleep"
                     /\ answer' = dns /\ refresh' = "apply"
                     /\ UNCHANGED <<dns, addrs, next, clients, todo, counts, target, toClose>>

(* The lookup; an answer without addresses changes nothing.                *)
Lookup == /\ refresh = "sleep" /\ dns # {}
          /\ answer' = dns /\ refresh' = "apply"
          /\ UNCHANGED <<dns, addrs, next, clients, todo, counts, target, toClose>>

(* Under the mutex: the addresses are replaced and the connections counted.*)
Apply ==
  /\ refresh = "apply"
  /\ addrs' = Sorted(answer)
  /\ counts' = [a \in Addrs |-> IF a \in answer THEN Cardinality(OpenAt(a)) ELSE 0]
  /\ LET allowed == {c \in Open : at[c] \in answer}
     IN  target' = IF Cardinality(allowed) < Cardinality(answer) \/ answer = {}
                   THEN 1 ELSE Cardinality(allowed) \div Cardinality(answer)
  /\ todo' = IF answer = {} THEN {} ELSE Open
  /\ refresh' = "scan"
  /\ UNCHANGED <<dns, next, clients, answer, toClose>>

(* Mutant: a connection to close is not taken off the count.               *)
Examine_KeepsCount(c) ==
  /\ Locked /\ c \in todo
  /\ todo' = todo \ {c}
  /\ IF (at[c] \notin answer \/ counts[at[c]] > target) /\ ~busy[c]
     THEN toClose' = toClose \cup {c}
     ELSE UNCHANGED toClose
  /\ UNCHANGED <<dns, addrs, next, clients, refresh, answer, counts, target>>

(* Mutant: connections to addresses that are gone are left alone.          *)
Examine_KeepsGone(c) ==
  /\ Locked /\ c \in todo
  /\ todo' = todo \ {c}
  /\ IF at[c] \in answer /\ counts[at[c]] > target /\ ~busy[c]
     THEN /\ toClose' = toClose \cup {c}
          /\ counts' = [counts EXCEPT ![at[c]] = @ - 1]
     ELSE UNCHANGED <<toClose, counts>>
  /\ UNCHANGED <<dns, addrs, next, clients, refresh, answer, target>>

(* Mutant: a connection to an address that is gone is taken off as well.   *)
Examine_CountsGone(c) ==
  /\ Locked /\ c \in todo
  /\ todo' = todo \ {c}
  /\ IF (at[c] \notin answer \/ counts[at[c]] > target) /\ ~busy[c]
     THEN /\ toClose' = toClose \cup {c}
          /\ counts' = [a \in Addrs |-> IF a = at[c] THEN counts[a] - 1 ELSE counts[a]]
     ELSE UNCHANGED <<toClose, counts>>
  /\ UNCHANGED <<dns, addrs, next, clients, refresh, answer, target>>

(* The loop over d.conns, in whatever order the map yields them: an idle   *)
(* connection to an address that is gone, or has too many, is to go.       *)
Examine(c) ==
  /\ Locked /\ c \in todo
  /\ todo' = todo \ {c}
  /\ IF (at[c] \notin answer \/ counts[at[c]] > target) /\ ~busy[c]
     THEN /\ toClose' = toClose \cup {c}
          /\ counts' = [a \in Addrs |-> IF a = at[c] /\ a \in answer
                                        THEN counts[a] - 1 ELSE counts[a]]
     ELSE UNCHANGED <<toClose, counts>>
  /\ UNCHANGED <<dns, addrs, next, clients, refresh, answer, target>>

Unlock == /\ Locked /\ todo = {}
          /\ refresh' = "close"
          /\ UNCHANGED <<dns, addrs, next, clients, rebalance>>

(* The mutex released: a request may have come since, and fails.           *)
CloseChosen(c) == refresh = "close" /\ c \in toClose /\ Closed(c)

Refreshed == /\ refresh = "close" /\ toClose = {}
             /\ refresh' = "sleep"
             /\ UNCHANGED <<dns, addrs, next, clients, rebalance>>

-----------------------------------------------------------------------------
Refresh == \/ Lookup \/ Apply \/ Unlock \/ Refreshed
           \/ \E c \in Clients : Examine(c) \/ CloseChosen(c)

Next == \/ Refresh
        \/ \E S \in SUBSET Addrs : Resolve(S)
        \/ \E c \in Clients : \/ SetBusy(c) \/ NextAddr(c) \/ DialFails(c)
                              \/ Register(c) \/ Lose(c)

Spec == Init /\ [][Next]_vars

(* The ticker keeps ticking, and a dial ends, one way or the other.        *)
Fairness == /\ WF_vars(Refresh)
            /\ \A c \in Clients : WF_vars(Register(c) \/ DialFails(c))

FairSpec == Spec /\ Fairness

-----------------------------------------------------------------------------
(* A lookup that fails or yields nothing to dial never empties the         *)
(* rotation (dnsDialer.go:69-72, 121-124), which would leave every dial to *)
(* the name itself (104-106) until the next lookup that succeeds.          *)
SomewhereToDial == addrs # <<>>

(* A rebalance that closes connections to an address the name still has    *)
(* leaves it its share of them, in whatever order it looks at them         *)
(* (dnsDialer.go:204-221).                                                 *)
KeepsShare ==
  Locked => \A a \in answer :
    toClose \cap OpenAt(a) # {} => Cardinality(OpenAt(a) \ toClose) >= target

(* Once the name stops changing and the requests stop, every connection is *)
(* to an address the name has, none with more than its share - even one    *)
(* dialed to an address picked before a refresh and registered after it    *)
(* (dnsDialer.go:79-97, 120-134).                                          *)
Share(S) == IF Cardinality(Open) < Cardinality(S) THEN 1
            ELSE Cardinality(Open) \div Cardinality(S)
Settled(S) == /\ \A c \in Open : at[c] \in S
              /\ \A a \in S : Cardinality(OpenAt(a)) <= Share(S)
SettlesWhenQuiet ==
  \A S \in SUBSET Addrs \ {{}} :
    <>[](dns = S /\ \A c \in Clients : ~busy[c]) => <>[]Settled(S)
=============================================================================
