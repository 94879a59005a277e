--------------------------- MODULE Configuration ----------------------------
(***************************************************************************)
(* What NewWithMTLS makes of a Configuration (pkg/client/shardedClient.go: *)
(* normalizeConfiguration, newClient; mtls.go: resolveServerName): the     *)
(* defaults, the name the server certificate is verified for, and one      *)
(* group of clients per address.                                           *)
(*                                                                         *)
(* Addrs is the sequence its commas separate.  An address is what is left  *)
(* of it without spaces: a host, which may be missing, with or without a   *)
(* port.                                                                   *)
(***************************************************************************)
EXTENDS Integers, Sequences, FiniteSets, SequencesExt

CONSTANTS
  Hosts,               \* the hosts addresses and ServerName name
  DefaultHost,         \* of defaultCloudAddr, which has a port
  DefaultConnections,  \* defaultMaximumSimultaneousConnections
  DefaultPending,      \* defaultMaxPendingRequests
  DefaultDuration,     \* defaultMaxRequestDuration
  DefaultRefresh       \* defaultDNSRefreshInterval

NoHost == "no host"
ASSUME HostsAssumption == NoHost \notin Hosts /\ DefaultHost \in Hosts
ASSUME DefaultsAssumption ==
  {DefaultConnections, DefaultPending, DefaultDuration, DefaultRefresh}
    \subseteq Nat \ {0}

Names == Hosts \cup {NoHost}
Addresses == [host : Names, port : BOOLEAN]
Blank == [host |-> NoHost, port |-> FALSE]

(* Of an integer the code asks only whether it is positive, zero or less.  *)
Configurations ==
  [Addrs : Seq(Addresses), ServerName : Names,
   MaximumSimultaneousConnections : Int, MaxPendingRequests : Int,
   MaxRequestDuration : Int, MaxDialDuration : Int, DNSRefreshInterval : Int]

-----------------------------------------------------------------------------
(* The loop of normalizeAddrs and of newClient: a blank address is passed  *)
(* over.                                                                   *)
NonBlank(addrs) ==
  LET kept[n \in 0..Len(addrs)] ==
        IF n = 0 THEN <<>>
        ELSE IF addrs[n] = Blank THEN kept[n - 1]
        ELSE Append(kept[n - 1], addrs[n])
  IN kept[Len(addrs)]

(* Mutant: blank addresses are kept, as strings.Split returns them.        *)
NormalizeAddrs_KeepsBlank(addrs) == addrs

NormalizeAddrs(addrs) == NonBlank(addrs)

PositiveOr(n, default) == IF n > 0 THEN n ELSE default

NormalizeConfiguration(cfg) ==
  LET addrs == NormalizeAddrs(cfg.Addrs)
      request == PositiveOr(cfg.MaxRequestDuration, DefaultDuration)
  IN
  [cfg EXCEPT
    !.Addrs = IF addrs = <<>> THEN <<[host |-> DefaultHost, port |-> TRUE]>> ELSE addrs,
    !.MaximumSimultaneousConnections = PositiveOr(@, DefaultConnections),
    !.MaxPendingRequests = PositiveOr(@, DefaultPending),
    !.MaxRequestDuration = request,
    !.MaxDialDuration = PositiveOr(@, request),
    !.DNSRefreshInterval = IF @ = 0 THEN DefaultRefresh ELSE @]

(* The hosts the addresses name; an address without a host is passed over. *)
HostsOf(addrs) == {a.host : a \in ToSet(addrs)} \ {NoHost}

(* Mutant: the first host stands for all of them.                          *)
ResolveServerName_First(cfg) ==
  LET named == SelectSeq(NormalizeConfiguration(cfg).Addrs, LAMBDA a : a.host # NoHost)
  IN
  IF cfg.ServerName # NoHost THEN {cfg.ServerName}
  ELSE IF named = <<>> THEN {} ELSE {named[1].host}

(* The name, or nothing when it cannot be inferred.                        *)
ResolveServerName(cfg) ==
  LET hosts == HostsOf(NormalizeConfiguration(cfg).Addrs) IN
  IF cfg.ServerName # NoHost THEN {cfg.ServerName}
  ELSE IF Cardinality(hosts) = 1 THEN hosts ELSE {}

(* A group of clients per address, all with the same TLS configuration;    *)
(* blank addresses are passed over here too.                               *)
Group(addr, cfg) ==
  [addr |-> addr, clients |-> cfg.MaximumSimultaneousConnections,
   maxDialDuration |-> cfg.MaxDialDuration]

NewClient(cfg, serverName) ==
  LET normalized == NormalizeConfiguration(cfg)
      addrs == NonBlank(normalized.Addrs)
  IN
  [ServerName |-> serverName,
   groups |-> [i \in DOMAIN addrs |-> Group(addrs[i], normalized)]]

=============================================================================
