----------------------------- MODULE MCRenewal ------------------------------
(* Renewal on small instances; the cfgs give the constants.  The pairs the *)
(* CA issues in turn are checked against the CAs the SDK carries: bundled  *)
(* with the intermediate or without, unsound, and issued by another        *)
(* intermediate that is not bundled, and that is.                          *)
EXTENDS Renewal, Certificates

CONSTANTS root, signing, other, partner

MCIssuer == [ca \in CAs |-> root]

Pair(issuer, sound, intermediates) ==
  [leaf |-> [issuer |-> issuer, sound |-> sound, good |-> TRUE, uuid |-> partner],
   intermediates |-> intermediates, itsKey |-> TRUE]

Pairs ==
  <<Pair(signing, TRUE, {signing}), Pair(signing, FALSE, {signing}),
    Pair(other, TRUE, {other}), Pair(other, TRUE, {}), Pair(signing, TRUE, {})>>

(* No pool is named, as touch-check does without -clientCA.                 *)
Defaults == NewCertCheck(TouchCheckConfig({}))

MCRefused == {s \in 1..MaxSerial : ~Loads(Defaults, Pairs[s])}

=============================================================================
