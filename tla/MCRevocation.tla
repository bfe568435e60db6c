---------------------------- MODULE MCRevocation ----------------------------
(***************************************************************************)
(* Instances of Revocation.  leaf names a CDP (and, for the verdict, a     *)
(* responder); inter names only a responder.                               *)
(***************************************************************************)
EXTENDS Revocation, TLC

CONSTANTS leaf, inter, u1, u2, u3, old, new, delta, forged, shard, caOnly, endless

NoIDP == [present |-> FALSE]
IDP(f) == [present |-> TRUE, wellFormed |-> TRUE, fields |-> f]

\* signed by its issuer, lists, about, issuingDistributionPoint, thisUpdate,
\* nextUpdate, above bigCRLSize
CRL(g, l, c, i, t, n, b) ==
  [issuer |-> "CA", genuine |-> g, lists |-> l, about |-> c, idp |-> i, delta |-> FALSE,
   this |-> t, next |-> n, big |-> b]

OCSP(c, s, t, n, st) == [cert |-> c, signed |-> s, this |-> t, next |-> n, status |-> st]

VerdictChain == <<leaf, inter>>
StoreChain == <<leaf>>
Issuers2 == leaf :> "CA" @@ inter :> "Root"

\* One analysis at a time: CRLs that show the leaf unrevoked, list it, leave it
\* to the base CRL, to the CRL of another point or of other certificates, have no
\* nextUpdate or are forged, and responses of every kind.
VerdictInfo ==
  old :> CRL(TRUE, {}, {leaf}, IDP([point |-> {u1}, user |-> TRUE]), 1, 1, FALSE) @@
  new :> CRL(TRUE, {leaf}, {leaf}, NoIDP, 2, 3, FALSE) @@
  delta :> [CRL(TRUE, {}, {}, NoIDP, 1, 3, FALSE) EXCEPT !.delta = TRUE] @@
  shard :> CRL(TRUE, {}, {}, IDP([point |-> {u3}]), 1, 3, FALSE) @@
  caOnly :> CRL(TRUE, {}, {}, IDP([ca |-> TRUE]), 1, 3, FALSE) @@
  endless :> CRL(TRUE, {}, {leaf}, NoIDP, 1, 0, FALSE) @@
  forged :> CRL(FALSE, {}, {leaf}, NoIDP, 1, 3, FALSE)
VerdictServes == u1 :> {old, new, forged} @@ u2 :> {delta, new, shard, caOnly, endless}
VerdictCDP == leaf :> <<u1, u2>> @@ inter :> <<>>
VerdictCDPURLs == leaf :> {u1, u2} @@ inter :> {}
VerdictResponses ==
  {OCSP(leaf, FALSE, 1, 3, "good"), OCSP(inter, TRUE, 1, 2, "good"),
   OCSP(inter, TRUE, 2, 3, "revoked"), OCSP(inter, TRUE, 1, 0, "unknown")}

\* Two analyses that share the store; a newer and bigger CRL appears at the URL.
StoreInfo ==
  old :> CRL(TRUE, {}, {leaf}, NoIDP, 1, 3, FALSE) @@
  new :> CRL(TRUE, {}, {leaf}, NoIDP, 2, 3, TRUE)
StoreServes == u1 :> {old, new}
StoreCDP == leaf :> <<u1>>
StoreCDPURLs == leaf :> {u1}
StoreIssuers == leaf :> "CA"
StoreResponses == {OCSP(leaf, TRUE, 1, 2, "good"), OCSP(leaf, TRUE, 2, 3, "revoked")}
=============================================================================
