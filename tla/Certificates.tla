---------------------------- MODULE Certificates ----------------------------
(***************************************************************************)
(* Client certificates, from the file they are read from to the two checks *)
(* they pass: the client's (pkg/client/mtls.go: certCheck.load) and the    *)
(* server's (pkg/serverauth/auth.go: authenticateClientCertificate), and   *)
(* who configures them: NewWithMTLS, the commands and the test PKI.        *)
(*                                                                         *)
(* Both checks call mtls.CheckTLS of another repository, which asks for a  *)
(* chain to a root and for whatever else makes a certificate sound.  A CA  *)
(* is known by its certificate; a self-signed one issues itself.           *)
(***************************************************************************)
EXTENDS Naturals, FiniteSets

CONSTANTS
  CAs,              \* the CA certificates there are
  Issuer,           \* [CAs -> CAs] who signed them
  MyGaruCAChain,    \* the CAs embedded in the SDK
  Partners          \* the uuids certificates carry

ASSUME CAsAssumption == IsFiniteSet(CAs) /\ Issuer \in [CAs -> CAs]
ASSUME ChainAssumption == MyGaruCAChain \subseteq CAs

Nobody == "nobody"  \* uuid.Nil
ASSUME PartnersAssumption == {Nobody, "bad"} \cap Partners = {}

(* sound: all CheckTLS asks but the chain; good: its OCSP status; "bad": a *)
(* uuid that is missing or none.                                           *)
Leaves ==
  [issuer : CAs, sound : BOOLEAN, good : BOOLEAN,
   uuid : Partners \cup {Nobody, "bad"}]

(* A leaf and the intermediates bundled behind it, and whether the key is  *)
(* the leaf's.                                                             *)
Bundles == [leaf : Leaves, intermediates : SUBSET CAs, itsKey : BOOLEAN]

SelfSigned(ca) == Issuer[ca] = ca

(* mtls.CheckTLS (external).                                               *)
ChainsUp(ca, roots, intermediates) ==
  LET up[n \in 0..Cardinality(CAs)] == IF n = 0 THEN ca ELSE Issuer[up[n - 1]] IN
  \E n \in DOMAIN up :
    up[n] \in roots /\ \A k \in 0..(n - 1) : up[k] \in intermediates

CheckTLS(leaf, roots, intermediates) ==
  leaf.sound /\ ChainsUp(leaf.issuer, roots, intermediates)

-----------------------------------------------------------------------------
(* The client.                                                             *)

NilPool == [nil |-> TRUE, cas |-> {}]
Pool(cas) == [nil |-> FALSE, cas |-> cas]
OrDefault(pool, default) == IF pool.nil THEN default ELSE pool.cas

MyGaruRoots == {ca \in MyGaruCAChain : SelfSigned(ca)}

NewCertCheck(cfg) ==
  [roots |-> OrDefault(cfg.ClientCertRoots, MyGaruRoots),
   intermediates |-> OrDefault(cfg.ClientCertIntermediates, MyGaruCAChain \ MyGaruRoots)]

(* Bundled intermediates are added to what this one certificate is checked *)
(* against, never to the pool the next one is.                             *)
Loads(check, bundle) ==
  /\ bundle.itsKey
  /\ CheckTLS(bundle.leaf, check.roots, check.intermediates \cup bundle.intermediates)

(* A flag of a command: a CA file, or none.                                *)
LoadPool(cas) == IF cas = {} THEN NilPool ELSE Pool(cas)

(* cmd/touch-check: only the roots can be named.                           *)
TouchCheckConfig(clientCA) ==
  [ClientCertRoots |-> LoadPool(clientCA), ClientCertIntermediates |-> NilPool]

-----------------------------------------------------------------------------
(* The server.                                                             *)

(* Mutant: CheckTLS is not called.                                         *)
AuthenticateClientCertificate_SkipsTLS(bundle, auth) ==
  /\ auth.RequireOCSP => bundle.leaf.good
  /\ bundle.leaf.uuid # "bad"

(* What follows the leaf on the wire is not looked at.                     *)
AuthenticateClientCertificate(bundle, auth) ==
  /\ CheckTLS(bundle.leaf, auth.Roots, auth.Intermediates)
  /\ auth.RequireOCSP => bundle.leaf.good
  /\ bundle.leaf.uuid # "bad"

(* cmd/test-cloud: the CA clients are verified with is required, and there *)
(* is no flag for intermediates.                                           *)
LoadTLSConfig(clientCA, requireOCSP) ==
  [Roots |-> clientCA, Intermediates |-> {}, RequireOCSP |-> requireOCSP]

(* The test PKI: leaves issued directly by a client CA that is a root.     *)
NewClientCertificate(clientCA, uuid) ==
  [leaf |-> [issuer |-> clientCA, sound |-> TRUE, good |-> TRUE, uuid |-> uuid],
   intermediates |-> {}, itsKey |-> TRUE]

NewCertificates(clientCA, uuid) ==
  [client |-> NewClientCertificate(clientCA, uuid),
   ClientRoots |-> {clientCA},
   auth |-> [Roots |-> {clientCA}, Intermediates |-> {}, RequireOCSP |-> FALSE]]

=============================================================================
