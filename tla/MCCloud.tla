------------------------------ MODULE MCCloud ------------------------------
(* Two connections, two request contexts and nine requests.  The server is *)
(* configured as cmd/test-cloud does, OCSP required.  Peers present a      *)
(* renewed certificate of a partner granted Touch and one of another that  *)
(* is not, and certificates refused for each reason: of a CA that is no    *)
(* root of the server's though it chains up to one, unsound, not good,     *)
(* without a uuid, of the nil uuid, and not theirs.                        *)
EXTENDS Cloud, TLC

CONSTANTS granted, other, root, signing

Symmetry == Permutations(Conns) \cup Permutations(Ctxs)

MCIssuer == [ca \in CAs |-> root]

MCConfig ==
  [TLSConfig |-> TRUE, TouchPartners |-> {granted}, ReportBuffer |-> 1,
   TargetStatus |-> "UNKNOWN"]

MCAuth == LoadTLSConfig({root}, TRUE)

PKI == NewCertificates(root, granted)

MCCerts ==
  {PKI.client, NewClientCertificate(root, other),
   NewClientCertificate(root, Nobody), NewClientCertificate(root, "bad"),
   [PKI.client EXCEPT !.leaf.issuer = signing, !.intermediates = {signing}],
   [PKI.client EXCEPT !.leaf.sound = FALSE],
   [PKI.client EXCEPT !.leaf.good = FALSE],
   [PKI.client EXCEPT !.itsKey = FALSE]}

Message(name, payer) == [name |-> name, decodes |-> TRUE, payer |-> payer]

MCRequests ==
  {Message("target", "named"), Message("target", "missing"),
   Message("report", "named"), Message("report", "malformed"),
   Message("touch", "missing"), Message("other", "missing")}
  \cup {[Message(name, "named") EXCEPT !.decodes = FALSE] :
         name \in {"target", "report", "touch"}}

=============================================================================
