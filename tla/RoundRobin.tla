----------------------------- MODULE RoundRobin -----------------------------
(***************************************************************************)
(* A ShardedClient and whose turn it is (pkg/client/shardedClient.go:      *)
(* newClient, getGroup, getClient): NewWithMTLS builds the groups of a     *)
(* configuration, a counter of the client picks one of them and a counter  *)
(* of that group one of its clients, each by an atomic add, with any       *)
(* number of callers between the two.  The counters are uint64: here they  *)
(* wrap at Wrap, which need not be a multiple of what they are taken       *)
(* modulo.                                                                 *)
(***************************************************************************)
EXTENDS Configuration, Functions

CONSTANTS
  Callers,          \* goroutines that call Target, Report or Touch
  Configs,          \* the configurations applications pass
  Wrap,             \* 2^64 in the code
  MaxCalls          \* bound

ASSUME ConfigsAssumption == Configs \subseteq Configurations
ASSUME CallersAssumption == IsFiniteSet(Callers)
ASSUME WrapAssumption == Wrap \in Nat \ {0} /\ MaxCalls \in Nat

VARIABLES
  config,           \* the Configuration and MTLSConfig.ServerName passed
  sc,               \* the ShardedClient: its server name and its groups
  roundRobin,       \* ShardedClient.roundRobin
  groupRobin,       \* clientsGroup.roundRobin of each group
  choosing,         \* callers between getGroup and getClient, and their group
  called,           \* history: calls that went through getGroup
  served            \* history: turns of each client of each group

counters == <<roundRobin, groupRobin>>
vars == <<config, sc, counters, choosing, called, served>>

NoClient == [ServerName |-> NoHost, groups |-> <<>>]
NoGroup == 0
Groups == DOMAIN sc.groups
Clients(g) == 0..(sc.groups[g].clients - 1)

TypeOK ==
  /\ config \in Configs
  /\ sc.ServerName \in Names
  /\ sc.groups \in Seq([addr : Addresses, clients : Nat, maxDialDuration : Nat])
  /\ roundRobin \in 0..(Wrap - 1) /\ groupRobin \in [Groups -> 0..(Wrap - 1)]
  /\ choosing \in [Callers -> Groups \cup {NoGroup}] /\ called \in 0..MaxCalls
  /\ DOMAIN served = Groups
  /\ \A g \in Groups : served[g] \in [Clients(g) -> 0..MaxCalls]

Init ==
  /\ config \in Configs
  /\ sc = NoClient
  /\ roundRobin = 0 /\ groupRobin = <<>>
  /\ choosing = [p \in Callers |-> NoGroup]
  /\ called = 0 /\ served = <<>>

(* A configuration whose server name cannot be settled is refused with an  *)
(* error, which leaves no client.                                          *)
NewWithMTLS ==
  /\ sc = NoClient
  /\ \E name \in ResolveServerName(config) : sc' = NewClient(config, name)
  /\ groupRobin' = [g \in DOMAIN sc'.groups |-> 0]
  /\ served' = [g \in DOMAIN sc'.groups |->
                 [i \in 0..(sc'.groups[g].clients - 1) |-> 0]]
  /\ UNCHANGED <<config, roundRobin, choosing, called>>

(* Mutant: the counter does not wrap.                                      *)
AddUint64_Wider(n) == n + 1

AddUint64(n) == (n + 1) % Wrap

GetGroup(p) ==
  LET n == AddUint64(roundRobin) IN
  /\ sc # NoClient
  /\ choosing[p] = NoGroup /\ called < MaxCalls
  /\ roundRobin' = n
  /\ choosing' = [choosing EXCEPT ![p] = 1 + (n % Len(sc.groups))]
  /\ called' = called + 1
  /\ UNCHANGED <<config, sc, groupRobin, served>>

(* Mutant: one counter for both choices.                                   *)
GetClient_OneCounter(p) ==
  LET g == choosing[p]
      n == AddUint64(roundRobin)
  IN
  /\ g # NoGroup
  /\ roundRobin' = n
  /\ served' = [served EXCEPT ![g][n % sc.groups[g].clients] = @ + 1]
  /\ choosing' = [choosing EXCEPT ![p] = NoGroup]
  /\ UNCHANGED <<config, sc, groupRobin, called>>

GetClient(p) ==
  LET g == choosing[p]
      n == AddUint64(groupRobin[g])
  IN
  /\ g # NoGroup
  /\ groupRobin' = [groupRobin EXCEPT ![g] = n]
  /\ served' = [served EXCEPT ![g][n % sc.groups[g].clients] = @ + 1]
  /\ choosing' = [choosing EXCEPT ![p] = NoGroup]
  /\ UNCHANGED <<config, sc, roundRobin, called>>

Next == NewWithMTLS \/ \E p \in Callers : GetGroup(p) \/ GetClient(p)

Spec == Init /\ [][Next]_vars
-----------------------------------------------------------------------------
(* shardedClient.go:108-115, 246-251: both choices take a counter modulo a *)
(* length and panic on a zero one: whatever the application configures,    *)
(* blank addresses and negative numbers included, a client that was built  *)
(* has a group, every group a client, and every dial a timeout.            *)
SomebodyToServe ==
  sc # NoClient =>
    /\ sc.groups # <<>>
    /\ \A g \in Groups : sc.groups[g].clients > 0 /\ sc.groups[g].maxDialDuration > 0

(* mtls.go:221-236: one name serves the connections to every address, so   *)
(* unless the application settles it, each address has to be of the host   *)
(* its server's certificate is verified for; a name is always settled.     *)
VerifiedForItsHost ==
  sc # NoClient =>
    /\ sc.ServerName # NoHost
    /\ config.ServerName = NoHost =>
         \A g \in Groups : sc.groups[g].addr.host \in {sc.ServerName, NoHost}

(* shardedClient.go:108-115: the clients of a group are used in turn,      *)
(* whatever other callers do between the two adds.  Where the counter      *)
(* wraps the turn may jump, so that the difference may grow by one.        *)
Turns(g) == SumFunction(served[g])

InTurnWithinGroup ==
  \A g \in Groups : \A i, j \in Clients(g) :
    served[g][i] <= served[g][j] + 1 + Turns(g) \div Wrap

(* shardedClient.go:58-59, 245-251: so are the groups, counting the calls  *)
(* that have chosen one and no client yet.                                 *)
Calls(g) == Turns(g) + Cardinality({p \in Callers : choosing[p] = g})

InTurnAcrossGroups ==
  \A g, h \in Groups : Calls(g) <= Calls(h) + 1 + called \div Wrap

=============================================================================
