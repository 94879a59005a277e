---------------------------- MODULE MCRoundRobin ----------------------------
(* Three callers, counters of two bits, so that both levels wrap, and jump *)
(* when they do: three is no divisor of four.  The configurations build    *)
(* one, two and three groups of one, two and three clients, from addresses *)
(* that are blank, of one host and of several, and numbers that are        *)
(* positive, zero and negative.                                            *)
EXTENDS RoundRobin

CONSTANTS here, there

Addr(h) == [host |-> h, port |-> TRUE]

Plain ==
  [Addrs |-> <<>>, ServerName |-> NoHost,
   MaximumSimultaneousConnections |-> 0, MaxPendingRequests |-> 0,
   MaxRequestDuration |-> 0, MaxDialDuration |-> 0, DNSRefreshInterval |-> 0]

MCConfigs ==
  { Plain,
    [Plain EXCEPT !.Addrs = <<Blank, Blank>>, !.ServerName = there,
                  !.MaximumSimultaneousConnections = -1],
    [Plain EXCEPT !.Addrs = <<Addr(here), Blank, Addr(here), Addr(NoHost)>>,
                  !.MaximumSimultaneousConnections = 2],
    [Plain EXCEPT !.Addrs = <<Addr(here), [Addr(here) EXCEPT !.port = FALSE]>>,
                  !.DNSRefreshInterval = -1],
    [Plain EXCEPT !.Addrs = <<Addr(here), Addr(there)>>],
    [Plain EXCEPT !.Addrs = <<Addr(NoHost)>>],
    [Plain EXCEPT !.Addrs = <<Addr(here), Addr(there), Addr(there)>>,
                  !.ServerName = here, !.MaximumSimultaneousConnections = 1,
                  !.MaxRequestDuration = -1, !.MaxDialDuration = -1] }

=============================================================================
