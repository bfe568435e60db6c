---------------------------- MODULE StoreContent ----------------------------
(***************************************************************************)
(* What the certificate store promises, whatever schema an earlier version *)
(* of the program left behind: opening it changes nothing of what was      *)
(* saved, and once it is open everything saved is found by its hash.       *)
(***************************************************************************)
CONSTANTS Certs, Crls, Ocsps, Urls

VARIABLES open,      \* store.Open has returned a store
          certs,     \* the certificates kept
          trusted,   \* those marked trusted
          crls,      \* the CRLs kept
          ocsps,     \* the OCSP responses kept
          urls,      \* <<url, CRL>>: what FindFreshCRL finds at a URL
          bySHA256,  \* what FindDERBySHA256 finds, each by its own hash
          bySHA1,    \* the certificates their SHA-1 thumbprint leads to
          acked      \* the certificates SaveCert has reported saved

vars == <<open, certs, trusted, crls, ocsps, urls, bySHA256, bySHA1, acked>>

Init ==
  /\ open = FALSE
  /\ certs \subseteq Certs
  /\ trusted \subseteq certs
  /\ crls \subseteq Crls
  /\ ocsps \subseteq Ocsps
  /\ urls \subseteq Urls \X crls
  /\ bySHA256 = {}
  /\ bySHA1 = {}
  /\ acked = {}

Open ==
  /\ ~open
  /\ open' = TRUE
  /\ bySHA256' = certs \cup crls \cup ocsps
  /\ bySHA1' = certs
  /\ UNCHANGED <<certs, trusted, crls, ocsps, urls, acked>>

Close ==
  /\ open
  /\ open' = FALSE
  /\ bySHA256' = {}
  /\ bySHA1' = {}
  /\ UNCHANGED <<certs, trusted, crls, ocsps, urls, acked>>

SaveCert(c) ==
  /\ open
  /\ certs' = certs \cup {c}
  /\ bySHA256' = bySHA256 \cup {c}
  /\ bySHA1' = bySHA1 \cup {c}
  /\ acked' = acked \cup {c}
  /\ UNCHANGED <<open, trusted, crls, ocsps, urls>>

SetTrusted(c, t) ==
  /\ open
  /\ c \in certs
  /\ trusted' = IF t THEN trusted \cup {c} ELSE trusted \ {c}
  /\ UNCHANGED <<open, certs, crls, ocsps, urls, bySHA256, bySHA1, acked>>

Next ==
  \/ Open \/ Close
  \/ \E c \in Certs : SaveCert(c) \/ \E t \in BOOLEAN : SetTrusted(c, t)

Spec == Init /\ [][Next]_vars
=============================================================================
