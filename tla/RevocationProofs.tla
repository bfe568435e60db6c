-------------------------- MODULE RevocationProofs --------------------------
(***************************************************************************)
(* For any chain, CRLs, OCSP responses and number of analyses: "ok" is     *)
(* reported only on evidence that shows every checked certificate          *)
(* unrevoked, only verified CRLs and responses get into the store, and the *)
(* newest CRL saved for an issuer stays there until it expires.            *)
(*                                                                         *)
(* The invariant is one predicate on an analysis by itself (Fine: where it *)
(* is, what it holds, what its findings rest on), one on an analysis and   *)
(* what it shares with others (SharedOf), and one on the tables.           *)
(***************************************************************************)
EXTENDS Revocation, WellFoundedInduction, TLAPS

Evidence == [cert : Certs, crl : CRLs, at : Nat] \cup [cert : Certs, ocsp : Responses, at : Nat]

AnRec ==
  [pc : PCs, at : Nat \ {0}, pass : {"cached", "fetch", "store", "upload"},
   urls : Seq(URLs), cachedOK : SUBSET URLs, url : URLs \cup {None}, big : BOOLEAN,
   crl : CRLs \cup {None}, resp : Responses \cup {None}, fetched : BOOLEAN,
   rev : [Certs -> {"none", "revoked", "not_revoked"}],
   out : {"none", "ok", "warn", "error", "invalid", "failed"}, seen : SUBSET Evidence]

Saving == {"save1", "save2", "save3", "save4", "save5"}
\* The analysis has a CRL in hand, and may hold the gate.
Gated == {"read", "process", "close"} \cup Saving
InHand == {"open"} \cup Gated
OCSPSaving == {"ocspSave", "ocspInsert"}

\* The certificate it is at has a source of revocation information.
OnCert(x) ==
  /\ x.pass = "upload" => x.pc \in InHand
  /\ x.pc \notin {"idle", "cert", "verdict"} /\ x.pass # "upload" =>
       x.at \in 1..Len(Chain) /\ HasSource(Chain[x.at])

\* The CRL in hand and the URL it is for.
HoldsCRL(x) ==
  x.pc \in InHand =>
    /\ x.pass \in {"cached", "fetch"} => x.urls # <<>> /\ x.url \in URLs
    /\ x.pass # "cached" \/ x.pc \notin {"open", "read"} => x.crl \in CRLs
    /\ x.pc \in Saving => Info[x.crl].genuine
    /\ x.pc = "save4" => x.pass = "fetch"

\* Nothing is looked up for a certificate that is decided.
Undecided(x) ==
  x.pc \in {"open", "read", "process", "ocspResult"} /\ x.pass # "upload"
    => x.rev[Chain[x.at]] = "none"

HoldsResponse(x) ==
  /\ x.pc \in {"ocspResult"} \cup OCSPSaving => x.resp \in Responses
  /\ x.pc = "ocspResult" => x.resp.cert = Chain[x.at]
  /\ x.pc \in OCSPSaving => x.resp.signed

\* What the findings of an analysis under way rest on.
Founded(x) ==
  /\ \A e \in x.seen : e.cert \in Checked /\ (ShowsRevoked(e) => x.rev[e.cert] = "revoked")
  /\ \A c \in Certs : x.rev[c] = "not_revoked" => \E e \in x.seen : e.cert = c /\ ShowsGood(e)

Sound(x) ==
  x.out = "ok" =>
    /\ \A c \in Checked : \E e \in x.seen : e.cert = c /\ ShowsGood(e)
    /\ \A e \in x.seen : ~ShowsRevoked(e)

Outcome(x) == IF x.pc = "idle" THEN Sound(x) ELSE x.out = "none" /\ Founded(x)

Fine(x) ==
  /\ x \in AnRec
  /\ OnCert(x) /\ HoldsCRL(x) /\ Undecided(x) /\ HoldsResponse(x) /\ Outcome(x)

-----------------------------------------------------------------------------

\* A CRL that was inserted is still there, unless it expired or a newer one of
\* its issuer was saved.
Inserted(x) ==
  x.pc \in {"save4", "save5"} /\ FreshRow(x.crl) =>
    \/ x.crl \in crls
    \/ /\ latest[Info[x.crl].issuer] # None
       /\ Info[x.crl].this < Info[latest[Info[x.crl].issuer]].this

SharedOf(a) ==
  /\ gate = a => an[a].pc \in Gated
  /\ an[a].pc \in Saving \cup OCSPSaving => a \in vetted
  /\ anchored /\ an[a].pc # "idle" => a \in vetted
  /\ Inserted(an[a])

TableInv ==
  /\ crls \subseteq CRLs
  /\ \E b \in Nat : \A c \in crls : Info[c].this <= b
  /\ crlURLs \in [URLs -> CRLs \cup {None}]
  /\ ocsp \subseteq Responses
  /\ now \in 1..MaxTime
  /\ anchored \in BOOLEAN /\ vetted \subseteq Analyses
  /\ gate \in Analyses \cup {None}

LatestInv ==
  /\ latest \in [Issuers -> CRLs \cup {None}]
  /\ \A i \in Issuers : latest[i] # None =>
       /\ Info[latest[i]].issuer = i
       /\ FreshRow(latest[i]) => latest[i] \in crls

AnInv ==
  /\ an \in [Analyses -> AnRec]
  /\ \A a \in Analyses : Fine(an[a]) /\ SharedOf(a)

IndInv == TableInv /\ LatestInv /\ AnInv

-----------------------------------------------------------------------------
(***************************************************************************)
(* Evidence                                                                *)
(***************************************************************************)

LEMMA CRLEvidence ==
  ASSUME NEW c \in CRLs, NEW d \in Certs, NEW t \in Nat, NEW e,
         e = [cert |-> d, crl |-> c, at |-> t]
  PROVE  /\ e \in Evidence /\ e.cert = d
         /\ ShowsGood(e) <=> /\ Info[c].genuine
                             /\ Info[c].this <= t /\ (Info[c].next = 0 \/ t <= Info[c].next)
                             /\ d \in Info[c].about \ Info[c].lists
         /\ ShowsRevoked(e) => /\ Info[c].genuine
                               /\ Info[c].this <= t /\ (Info[c].next = 0 \/ t <= Info[c].next)
                               /\ d \in Info[c].lists
<1>1. "crl" \in DOMAIN e /\ e.crl = c /\ e.cert = d /\ e.at = t
  OBVIOUS
<1> QED
  BY <1>1 DEF Evidence, ShowsGood, ShowsRevoked

LEMMA OCSPEvidence ==
  ASSUME NEW r \in Responses, NEW d \in Certs, NEW t \in Nat, NEW e,
         e = [cert |-> d, ocsp |-> r, at |-> t]
  PROVE  /\ e \in Evidence /\ e.cert = d
         /\ ShowsGood(e) <=> /\ r.signed /\ r.status = "good"
                             /\ r.this <= t /\ (r.next = 0 \/ t <= r.next)
         /\ ShowsRevoked(e) => /\ r.signed /\ r.status = "revoked"
                               /\ r.this <= t /\ (r.next = 0 \/ t <= r.next)
<1>1. "crl" \notin DOMAIN e /\ e.ocsp = r /\ e.cert = d /\ e.at = t
  OBVIOUS
<1> QED
  BY <1>1 DEF Evidence, ShowsGood, ShowsRevoked

\* What idpScope.covers accepts is in the scope that the CA gave its CRL.
LEMMA CoversInScope ==
  ASSUME NEW c \in CRLs, NEW d \in Certs, Covers(c, d)
  PROVE  InScope(c, d)
BY DEF Covers, covers, Scope, InScope

\* An authoritative CRL shows a certificate unrevoked only if it would list it.
LEMMA ShownSound ==
  ASSUME NEW c \in CRLs, NEW d \in Certs, Info[c].genuine
  PROVE  /\ Shown(c, d) \in {"none", "revoked", "not_revoked"}
         /\ d \in Info[c].lists => Shown(c, d) = "revoked"
         /\ Shown(c, d) = "not_revoked" => d \in Info[c].about \ Info[c].lists
BY CoversInScope, ScopeAssumption DEF Shown

-----------------------------------------------------------------------------
(***************************************************************************)
(* An analysis by itself                                                   *)
(***************************************************************************)

LEMMA IdleFields ==
  /\ Idle \in AnRec /\ Idle.pc = "idle" /\ Idle.pass = "cached" /\ Idle.out = "none"
  /\ \A c \in Certs : Idle.rev[c] = "none"
  /\ Idle.seen = {}
<1>1. Idle \in AnRec
  BY DEF Idle, AnRec, PCs
<1> QED
  BY <1>1 DEF Idle

LEMMA IdleFine ==
  /\ Fine(Idle) /\ Idle.pc = "idle"
  /\ \A o \in {"none", "failed"} : Fine([Idle EXCEPT !.out = o]) /\ [Idle EXCEPT !.out = o].pc = "idle"
BY IdleFields
   DEF Fine, OnCert, HoldsCRL, InHand, Gated, Saving, OCSPSaving, Undecided, HoldsResponse,
       Outcome, Sound, AnRec

LEMMA BeginFine ==
  ASSUME NEW y, y = [Idle EXCEPT !.pc = "cert"]
  PROVE  Fine(y) /\ y.pc = "cert"
<1>1. /\ y \in AnRec /\ y.pc = "cert" /\ y.pass = "cached" /\ y.out = "none"
      /\ y.rev = Idle.rev /\ y.seen = {}
  BY IdleFields DEF AnRec, PCs
<1> QED
  BY <1>1, IdleFields
     DEF Fine, OnCert, HoldsCRL, InHand, Gated, Saving, OCSPSaving, Undecided, HoldsResponse,
         Outcome, Founded

LEMMA UploadFine ==
  ASSUME NEW c \in CRLs, NEW y,
         y = [Idle EXCEPT !.pc = "open", !.pass = "upload", !.crl = c, !.big = Info[c].big]
  PROVE  Fine(y) /\ y.pc = "open"
<1>1. Info[c].big \in BOOLEAN
  BY InfoAssumption
<1>2. /\ y \in AnRec /\ y.pc = "open" /\ y.pass = "upload" /\ y.out = "none" /\ y.crl = c
      /\ y.rev = Idle.rev /\ y.seen = {}
  BY <1>1, IdleFields DEF AnRec, PCs
<1> QED
  BY <1>2, IdleFields
     DEF Fine, OnCert, HoldsCRL, InHand, Gated, Saving, OCSPSaving, Undecided, HoldsResponse,
         Outcome, Founded

\* A step of an analysis under way that changes none of its findings.
LEMMA SameFindings ==
  ASSUME NEW x, NEW y, Fine(x), x.pc # "idle", y \in AnRec, y.pc # "idle",
         y.out = x.out, y.rev = x.rev, y.seen = x.seen,
         OnCert(y), HoldsCRL(y), Undecided(y), HoldsResponse(y)
  PROVE  Fine(y)
BY DEF Fine, Outcome, Founded

\* The same for one that only moves on.
LEMMA GotoFields ==
  ASSUME NEW x \in AnRec, NEW l \in PCs, NEW y, y = [x EXCEPT !.pc = l]
  PROVE  /\ y \in AnRec /\ y.pc = l
         /\ y.at = x.at /\ y.pass = x.pass /\ y.urls = x.urls /\ y.url = x.url
         /\ y.crl = x.crl /\ y.resp = x.resp /\ y.rev = x.rev /\ y.out = x.out
         /\ y.seen = x.seen
BY DEF AnRec

\* A repeated definition of where the steps of a CRL and of a response lead.
LEMMA GotoFine ==
  ASSUME NEW x, Fine(x), NEW y,
         \/ y = [x EXCEPT !.pc = "verdict"] /\ x.pc = "cert"
         \/ y = [x EXCEPT !.pc = "store"] /\ x.pc = "fetch"
         \/ y = [x EXCEPT !.pc = "ocsp"] /\ x.pc = "store"
         \/ y = [x EXCEPT !.pc = "read"] /\ x.pc = "open"
         \/ y = [x EXCEPT !.pc = "close"] /\ x.pc \in Saving
         \/ y = [x EXCEPT !.pc = "save2"] /\ x.pc = "save1"
         \/ y = [x EXCEPT !.pc = "save3"] /\ x.pc = "save2"
         \/ y = [x EXCEPT !.pc = "save4"] /\ x.pc = "save3" /\ x.pass = "fetch"
         \/ y = [x EXCEPT !.pc = "save5"] /\ x.pc \in {"save3", "save4"}
         \/ y = [x EXCEPT !.pc = "ocspInsert"] /\ x.pc = "ocspSave"
  PROVE  Fine(y) /\ y = [x EXCEPT !.pc = y.pc] /\ y.crl = x.crl
<1>1. PICK l \in PCs : y = [x EXCEPT !.pc = l]
  BY DEF PCs
<1>2. /\ y \in AnRec /\ y.pc = l
      /\ y.at = x.at /\ y.pass = x.pass /\ y.urls = x.urls /\ y.url = x.url
      /\ y.crl = x.crl /\ y.resp = x.resp /\ y.rev = x.rev /\ y.out = x.out
      /\ y.seen = x.seen
  BY <1>1, GotoFields DEF Fine
<1>3. \/ l = "verdict" /\ x.pc = "cert"
      \/ l = "store" /\ x.pc = "fetch"
      \/ l = "ocsp" /\ x.pc = "store"
      \/ l = "read" /\ x.pc = "open"
      \/ l = "close" /\ x.pc \in Saving
      \/ l = "save2" /\ x.pc = "save1"
      \/ l = "save3" /\ x.pc = "save2"
      \/ l = "save4" /\ x.pc = "save3" /\ x.pass = "fetch"
      \/ l = "save5" /\ x.pc \in {"save3", "save4"}
      \/ l = "ocspInsert" /\ x.pc = "ocspSave"
  <2>1. \A k : [x EXCEPT !.pc = k].pc = k
    BY DEF Fine, AnRec
  <2> QED
    BY <1>1, <1>2, <2>1, ZenonT(60)
<1>4. OnCert(y) /\ HoldsCRL(y) /\ Undecided(y) /\ HoldsResponse(y)
  <2>1. OnCert(y)
    BY <1>2, <1>3 DEF Fine, OnCert, InHand, Gated, Saving
  <2>2. HoldsCRL(y)
    BY <1>2, <1>3 DEF Fine, HoldsCRL, InHand, Gated, Saving
  <2>3. Undecided(y)
    BY <1>2, <1>3 DEF Fine, Undecided
  <2>4. HoldsResponse(y)
    BY <1>2, <1>3 DEF Fine, HoldsResponse, OCSPSaving
  <2> QED
    BY <2>1, <2>2, <2>3, <2>4
<1> QED
  BY <1>1, <1>2, <1>3, <1>4, SameFindings DEF Saving

LEMMA AdvanceFields ==
  ASSUME NEW x \in AnRec, NEW y,
         y = [x EXCEPT !.pc = "cert", !.at = @ + 1, !.pass = "cached", !.urls = <<>>,
                       !.cachedOK = {}, !.resp = None, !.fetched = FALSE]
  PROVE  /\ y \in AnRec /\ y.pc = "cert" /\ y.pass = "cached"
         /\ y.rev = x.rev /\ y.out = x.out /\ y.seen = x.seen
<1>1. x.at + 1 \in Nat \ {0} /\ <<>> \in Seq(URLs) /\ {} \in SUBSET URLs
  BY DEF AnRec
<1> QED
  BY <1>1 DEF AnRec, PCs

\* The loop goes on with the next certificate.
LEMMA AdvanceFine ==
  ASSUME NEW x, Fine(x), x.pc # "idle", x.pass # "upload", NEW y,
         y = [x EXCEPT !.pc = "cert", !.at = @ + 1, !.pass = "cached", !.urls = <<>>,
                       !.cachedOK = {}, !.resp = None, !.fetched = FALSE]
  PROVE  Fine(y) /\ y.pc = "cert"
<1>1. /\ y \in AnRec /\ y.pc = "cert" /\ y.pass = "cached"
      /\ y.rev = x.rev /\ y.out = x.out /\ y.seen = x.seen
  BY AdvanceFields DEF Fine
<1> QED
  BY <1>1, SameFindings
     DEF OnCert, HoldsCRL, InHand, Gated, Saving, OCSPSaving, Undecided, HoldsResponse

\* The first pass over the certificate's URLs begins.
LEMMA CachedFine ==
  ASSUME NEW x, Fine(x), x.pc = "cert", x.at \in 1..Len(Chain), HasSource(Chain[x.at]), NEW y,
         y = [x EXCEPT !.pc = "cached", !.urls = CDP[Chain[x.at]], !.cachedOK = {}]
  PROVE  Fine(y) /\ y.pc = "cached"
<1>1. x \in AnRec /\ CDP[Chain[x.at]] \in Seq(URLs)
  BY ChainAssumption, CDPAssumption DEF Fine, Certs
<1>2. x.pass # "upload"
  BY DEF Fine, OnCert, InHand, Gated, Saving
<1>3. /\ y \in AnRec /\ y.pc = "cached" /\ y.pass = x.pass /\ y.at = x.at
      /\ y.rev = x.rev /\ y.out = x.out /\ y.seen = x.seen
  BY <1>1 DEF AnRec, PCs
<1> QED
  BY <1>2, <1>3, SameFindings
     DEF OnCert, HoldsCRL, InHand, Gated, Saving, OCSPSaving, Undecided, HoldsResponse

\* A URL is passed over, or the second pass begins.
LEMMA URLsFine ==
  ASSUME NEW x, Fine(x), x.pc \in {"cached", "fetch"}, NEW us \in Seq(URLs), NEW y,
         \/ y = [x EXCEPT !.urls = us]
         \/ y = [x EXCEPT !.pc = "fetch", !.urls = us]
  PROVE  Fine(y) /\ y.pc \in {"cached", "fetch"}
<1>1. x \in AnRec
  BY DEF Fine
<1>2. /\ y \in AnRec /\ y.pc \in {"cached", "fetch"} /\ y.pass = x.pass /\ y.at = x.at
      /\ y.rev = x.rev /\ y.out = x.out /\ y.seen = x.seen
  <2>1. CASE y = [x EXCEPT !.urls = us]
    BY <1>1, <2>1 DEF AnRec
  <2>2. CASE y = [x EXCEPT !.pc = "fetch", !.urls = us]
    BY <1>1, <2>2 DEF AnRec, PCs
  <2> QED
    BY <2>1, <2>2
<1>3. OnCert(y)
  BY <1>2 DEF Fine, OnCert, InHand, Gated, Saving
<1> QED
  BY <1>2, <1>3, SameFindings
     DEF HoldsCRL, InHand, Gated, Saving, OCSPSaving, Undecided, HoldsResponse

\* A CRL is to be opened, in any of the three passes.
LEMMA OpenFine ==
  ASSUME NEW x, Fine(x), x.pc \in {"cached", "fetch", "store"},
         x.rev[Chain[x.at]] = "none", NEW c \in CRLs, NEW y,
         \/ /\ x.pc = "cached" /\ x.urls # <<>>
            /\ y = [x EXCEPT !.pc = "open", !.pass = "cached", !.url = Head(x.urls),
                             !.big = Info[c].big]
         \/ /\ x.pc = "fetch" /\ x.urls # <<>>
            /\ y = [x EXCEPT !.pc = "open", !.pass = "fetch", !.url = Head(x.urls),
                             !.crl = c, !.big = Info[c].big]
         \/ /\ x.pc = "store"
            /\ y = [x EXCEPT !.pc = "open", !.pass = "store", !.crl = c, !.big = Info[c].big]
  PROVE  Fine(y) /\ y.pc = "open"
<1>1. x \in AnRec /\ Info[c].big \in BOOLEAN /\ (x.urls # <<>> => Head(x.urls) \in URLs)
  BY InfoAssumption DEF Fine, AnRec
<1>2. x.pass # "upload"
  BY DEF Fine, OnCert, InHand, Gated, Saving
<1>3. /\ y \in AnRec /\ y.pc = "open" /\ y.pass \in {"cached", "fetch", "store"} /\ y.at = x.at
      /\ y.rev = x.rev /\ y.out = x.out /\ y.seen = x.seen /\ y.urls = x.urls
  <2>1. CASE /\ x.pc = "cached" /\ x.urls # <<>>
             /\ y = [x EXCEPT !.pc = "open", !.pass = "cached", !.url = Head(x.urls),
                              !.big = Info[c].big]
    BY <1>1, <2>1 DEF AnRec, PCs
  <2>2. CASE /\ x.pc = "fetch" /\ x.urls # <<>>
             /\ y = [x EXCEPT !.pc = "open", !.pass = "fetch", !.url = Head(x.urls),
                              !.crl = c, !.big = Info[c].big]
    BY <1>1, <2>2 DEF AnRec, PCs
  <2>3. CASE /\ x.pc = "store"
             /\ y = [x EXCEPT !.pc = "open", !.pass = "store", !.crl = c, !.big = Info[c].big]
    BY <1>1, <2>3 DEF AnRec, PCs
  <2> QED
    BY <2>1, <2>2, <2>3
<1>4. HoldsCRL(y)
  <2>1. /\ y.pass \in {"cached", "fetch"} => y.urls # <<>> /\ y.url \in URLs
        /\ y.pass # "cached" => y.crl \in CRLs
    BY <1>1, <1>3, ZenonT(60) DEF AnRec
  <2> QED
    BY <1>3, <2>1 DEF HoldsCRL, InHand, Gated, Saving
<1>5. OnCert(y) /\ Undecided(y)
  BY <1>2, <1>3 DEF Fine, OnCert, Undecided, InHand
<1> QED
  BY <1>3, <1>4, <1>5, SameFindings DEF OCSPSaving, HoldsResponse

\* The bytes of the CRL are parsed.
LEMMA ReadFine ==
  ASSUME NEW x, Fine(x), x.pc = "read", NEW c \in CRLs, NEW y,
         y = [x EXCEPT !.pc = "process", !.crl = c]
  PROVE  Fine(y) /\ y.pc = "process"
<1>1. x \in AnRec
  BY DEF Fine
<1>2. /\ y \in AnRec /\ y.pc = "process" /\ y.pass = x.pass /\ y.at = x.at /\ y.crl = c
      /\ y.rev = x.rev /\ y.out = x.out /\ y.seen = x.seen /\ y.urls = x.urls /\ y.url = x.url
  BY <1>1 DEF AnRec, PCs
<1>3. OnCert(y) /\ Undecided(y) /\ HoldsCRL(y)
  BY <1>2 DEF Fine, OnCert, Undecided, HoldsCRL, InHand, Gated, Saving
<1> QED
  BY <1>2, <1>3, SameFindings DEF OCSPSaving, HoldsResponse

\* A CRL is done with: the pass goes on, or the upload ends.
LEMMA ThroughFine ==
  ASSUME NEW x, Fine(x), x.pc \in InHand, x.pass # "upload", NEW y,
         \/ /\ x.pass \in {"cached", "fetch"}
            /\ y = [x EXCEPT !.crl = None, !.url = None, !.big = FALSE,
                             !.pc = x.pass, !.urls = Tail(x.urls)]
         \/ /\ x.pass = "store"
            /\ y = [x EXCEPT !.crl = None, !.url = None, !.big = FALSE, !.pc = "ocsp"]
  PROVE  Fine(y) /\ y.pc \in {"cached", "fetch", "ocsp"}
<1>1. x \in AnRec /\ x.pc # "idle"
  BY DEF Fine, InHand, Gated, Saving
<1>2. x.pass \in {"cached", "fetch"} => Tail(x.urls) \in Seq(URLs)
  BY DEF Fine, HoldsCRL, AnRec
<1>3. /\ y \in AnRec /\ y.pc \in {"cached", "fetch", "ocsp"} /\ y.pass = x.pass /\ y.at = x.at
      /\ y.rev = x.rev /\ y.out = x.out /\ y.seen = x.seen
  <2>1. CASE /\ x.pass \in {"cached", "fetch"}
             /\ y = [x EXCEPT !.crl = None, !.url = None, !.big = FALSE,
                              !.pc = x.pass, !.urls = Tail(x.urls)]
    BY <1>1, <1>2, <2>1 DEF AnRec, PCs
  <2>2. CASE /\ x.pass = "store"
             /\ y = [x EXCEPT !.crl = None, !.url = None, !.big = FALSE, !.pc = "ocsp"]
    BY <1>1, <2>2 DEF AnRec, PCs
  <2> QED
    BY <2>1, <2>2
<1>4. OnCert(y)
  BY <1>3 DEF Fine, OnCert, InHand, Gated, Saving
<1> QED
  BY <1>1, <1>3, <1>4, SameFindings
     DEF HoldsCRL, InHand, Gated, Saving, OCSPSaving, Undecided, HoldsResponse

\* A response was found.
LEMMA ResolveFine ==
  ASSUME NEW x, Fine(x), x.pc = "ocsp", x.rev[Chain[x.at]] = "none",
         NEW r \in Responses, r.cert = Chain[x.at], NEW y, y \in AnRec, y.pc = "ocspResult",
         y.at = x.at, y.pass = x.pass, y.resp = r, y.rev = x.rev, y.out = x.out, y.seen = x.seen
  PROVE  Fine(y)
<1>1. OnCert(y) /\ Undecided(y) /\ HoldsResponse(y)
  BY DEF Fine, OnCert, Undecided, HoldsResponse, OCSPSaving, InHand, Gated, Saving
<1> QED
  BY <1>1, SameFindings DEF HoldsCRL, InHand, Gated, Saving

\* From x to y an analysis finds f of certificate d, by evidence e.
Finds(x, y, d, f, e) == y.rev = [x.rev EXCEPT ![d] = f] /\ y.seen = x.seen \cup {e}

\* A finding for the certificate the analysis is at, with the evidence for it:
\* the certificate was undecided, so no earlier evidence is contradicted.
LEMMA FindingFounded ==
  ASSUME NEW x, Fine(x), x.pc # "idle",
         NEW d \in Certs, HasSource(d), x.rev[d] = "none",
         NEW e \in Evidence, e.cert = d,
         NEW f \in {"none", "revoked", "not_revoked"},
         f = "not_revoked" => ShowsGood(e),
         ShowsRevoked(e) => f = "revoked",
         NEW y, y \in AnRec, y.pc # "idle", y.out = x.out,
         Finds(x, y, d, f, e)
  PROVE  Outcome(y)
<1>1. d \in Checked /\ x.rev \in [Certs -> {"none", "revoked", "not_revoked"}]
  BY DEF Fine, AnRec, Checked
<1>2. Founded(x) /\ x.out = "none" /\ x.seen \subseteq Evidence
  BY DEF Fine, Outcome, AnRec
<1>3. /\ y.rev[d] = f /\ \A c \in Certs : c # d => y.rev[c] = x.rev[c]
      /\ y.seen = x.seen \cup {e}
  BY <1>1 DEF Finds
<1>4. ASSUME NEW g \in y.seen
      PROVE  g.cert \in Checked /\ (ShowsRevoked(g) => y.rev[g.cert] = "revoked")
  <2>1. CASE g \in x.seen
    <3>1. g.cert \in Checked /\ g.cert \in Certs /\ (ShowsRevoked(g) => x.rev[g.cert] = "revoked")
      BY <1>2, <2>1 DEF Founded, Checked
    <3> QED
      BY <3>1, <1>3
  <2>2. CASE g = e
    BY <1>1, <1>3, <2>2
  <2> QED
    BY <1>3, <2>1, <2>2
<1>5. ASSUME NEW c \in Certs, y.rev[c] = "not_revoked"
      PROVE  \E g \in y.seen : g.cert = c /\ ShowsGood(g)
  <2>1. CASE c = d
    BY <1>3, <1>5, <2>1
  <2>2. CASE c # d
    BY <1>2, <1>3, <1>5, <2>2 DEF Founded
  <2> QED
    BY <2>1, <2>2
<1> QED
  BY <1>2, <1>4, <1>5 DEF Outcome, Founded

LEMMA ProcessFine ==
  ASSUME NEW x, Fine(x), x.pc = "process", now \in Nat, NEW failed \in BOOLEAN,
         NEW save \in BOOLEAN, save => Info[x.crl].genuine,
         NEW y, y \in AnRec,
         y.pc = IF save THEN "save1" ELSE "close",
         y.at = x.at, y.pass = x.pass, y.urls = x.urls, y.url = x.url, y.crl = x.crl,
         y.out = x.out,
         y.rev = IF x.pass # "upload" /\ Authoritative(x.crl) /\ ~failed
                 THEN [x.rev EXCEPT ![Chain[x.at]] = Shown(x.crl, Chain[x.at])] ELSE x.rev,
         y.seen = IF x.pass = "upload" \/ failed THEN x.seen
                  ELSE x.seen \cup {[cert |-> Chain[x.at], crl |-> x.crl, at |-> now]}
  PROVE  Fine(y)
<1>1. x \in AnRec /\ x.crl \in CRLs
  BY DEF Fine, HoldsCRL, InHand, Gated
<1>2. OnCert(y) /\ HoldsCRL(y)
  BY <1>1 DEF Fine, OnCert, HoldsCRL, InHand, Gated, Saving
<1>3. Undecided(y) /\ HoldsResponse(y)
  BY DEF Undecided, HoldsResponse, OCSPSaving
<1>4. Outcome(y)
  <2>1. CASE x.pass = "upload" \/ failed
    BY <2>1 DEF Fine, Outcome, Founded
  <2>2. CASE x.pass # "upload" /\ ~failed
    <3> DEFINE d == Chain[x.at]
               e == [cert |-> d, crl |-> x.crl, at |-> now]
               f == IF Authoritative(x.crl) THEN Shown(x.crl, d) ELSE "none"
    <3>1. x.at \in 1..Len(Chain) /\ HasSource(d) /\ x.rev[d] = "none" /\ d \in Certs
      BY <2>2, ChainAssumption DEF Fine, OnCert, Undecided, Certs
    <3>2. /\ e \in Evidence /\ e.cert = d
          /\ ShowsGood(e) <=> /\ Info[x.crl].genuine
                              /\ Info[x.crl].this <= now
                              /\ Info[x.crl].next = 0 \/ now <= Info[x.crl].next
                              /\ d \in Info[x.crl].about \ Info[x.crl].lists
          /\ ShowsRevoked(e) => /\ Info[x.crl].genuine
                                /\ Info[x.crl].this <= now
                                /\ Info[x.crl].next = 0 \/ now <= Info[x.crl].next
                                /\ d \in Info[x.crl].lists
      BY <1>1, <3>1, CRLEvidence
    <3> HIDE DEF e
    <3>3. /\ f \in {"none", "revoked", "not_revoked"}
          /\ f = "not_revoked" => ShowsGood(e)
          /\ ShowsRevoked(e) => f = "revoked"
      BY <1>1, <3>1, <3>2, ShownSound DEF Authoritative, InDates
    <3>4. y.rev = [x.rev EXCEPT ![d] = f]
      <4>1. CASE Authoritative(x.crl)
        BY <2>2, <4>1
      <4>2. CASE ~Authoritative(x.crl)
        BY <2>2, <3>1, <4>2, <1>1 DEF AnRec
      <4> QED
        BY <4>1, <4>2
    <3>5. y.seen = x.seen \cup {e}
      BY <2>2 DEF e
    <3>6. y.pc # "idle"
      OBVIOUS
    <3>7. x.pc # "idle"
      OBVIOUS
    <3>8. Finds(x, y, d, f, e)
      BY <3>4, <3>5 DEF Finds
    <3> HIDE DEF f, d
    <3> QED
      BY <3>1, <3>2, <3>3, <3>6, <3>7, <3>8, FindingFounded
  <2> QED
    BY <2>1, <2>2
<1> QED
  BY <1>2, <1>3, <1>4 DEF Fine

LEMMA OCSPResultFine ==
  ASSUME NEW x, Fine(x), x.pc = "ocspResult", now \in Nat,
         NEW keep \in BOOLEAN, keep => Verified(x.resp),
         NEW y, y \in AnRec,
         y.pc = IF keep THEN "ocspSave" ELSE "cert",
         y.pass # "upload", y.out = x.out,
         keep => y.at = x.at /\ y.resp = x.resp,
         y.rev = [x.rev EXCEPT ![Chain[x.at]] = OCSPShown(x.resp)],
         y.seen = x.seen \cup {[cert |-> Chain[x.at], ocsp |-> x.resp, at |-> now]}
  PROVE  Fine(y)
<1> DEFINE d == Chain[x.at]
           r == x.resp
           e == [cert |-> d, ocsp |-> r, at |-> now]
           f == OCSPShown(r)
<1>1. x \in AnRec /\ x.resp \in Responses /\ x.pass # "upload"
  BY DEF Fine, HoldsResponse, OnCert, InHand, Gated, Saving
<1>2. x.at \in 1..Len(Chain) /\ HasSource(d) /\ x.rev[d] = "none" /\ d \in Certs
  BY <1>1, ChainAssumption DEF Fine, OnCert, Undecided, Certs
<1>3. OnCert(y) /\ HoldsCRL(y) /\ Undecided(y)
  BY <1>2 DEF OnCert, HoldsCRL, Undecided, InHand, Gated, Saving
<1>4. HoldsResponse(y)
  BY <1>1 DEF HoldsResponse, OCSPSaving, Verified
<1>5. /\ e \in Evidence /\ e.cert = d
      /\ ShowsGood(e) <=> /\ r.signed /\ r.status = "good"
                          /\ r.this <= now /\ (r.next = 0 \/ now <= r.next)
      /\ ShowsRevoked(e) => /\ r.signed /\ r.status = "revoked"
                            /\ r.this <= now /\ (r.next = 0 \/ now <= r.next)
  <2>1. r \in Responses /\ d \in Certs
    BY <1>1, <1>2
  <2> HIDE DEF r, d
  <2> QED
    BY <2>1, OCSPEvidence
<1> HIDE DEF e
<1>6. /\ f \in {"none", "revoked", "not_revoked"}
      /\ f = "not_revoked" => ShowsGood(e)
      /\ ShowsRevoked(e) => f = "revoked"
  <2> HIDE DEF r, d
  <2> QED
    BY <1>5 DEF OCSPShown, Verified
<1>7. Finds(x, y, d, f, e) /\ y.pc # "idle"
  BY DEF e, Finds
<1> HIDE DEF f, d
<1>8. Outcome(y)
  BY <1>2, <1>5, <1>6, <1>7, FindingFounded
<1> QED
  BY <1>3, <1>4, <1>8 DEF Fine

\* The findings of an analysis that reports them.
LEMMA VerdictFine ==
  ASSUME NEW x, Fine(x), x.pc = "verdict", NEW o \in {"invalid", Status(x.rev)}, NEW y,
         y = [Idle EXCEPT !.out = o, !.seen = x.seen]
  PROVE  Fine(y) /\ y.pc = "idle"
<1>1. o \in {"ok", "warn", "error", "invalid"} /\ x.seen \subseteq Evidence
  BY DEF Status, Fine, AnRec
<1>2. /\ y \in AnRec /\ y.pc = "idle" /\ y.pass = "cached" /\ y.out = o /\ y.seen = x.seen
  BY <1>1, IdleFields DEF AnRec
<1>3. Sound(y)
  <2> SUFFICES ASSUME o = "ok"
               PROVE  /\ \A c \in Checked : \E e \in x.seen : e.cert = c /\ ShowsGood(e)
                      /\ \A e \in x.seen : ~ShowsRevoked(e)
    BY <1>2 DEF Sound
  <2>1. \A c \in Checked : x.rev[c] = "not_revoked"
    BY DEF Status
  <2>2. Founded(x)
    BY DEF Fine, Outcome
  <2> QED
    BY <2>1, <2>2 DEF Founded, Checked
<1> QED
  BY <1>2, <1>3
     DEF Fine, OnCert, HoldsCRL, InHand, Gated, Saving, OCSPSaving, Undecided, HoldsResponse,
         Outcome

-----------------------------------------------------------------------------
(***************************************************************************)
(* Steps of one analysis among the others                                  *)
(***************************************************************************)

LEMMA AnStep ==
  ASSUME AnInv, NEW a \in Analyses, NEW y, Fine(y), an' = [an EXCEPT ![a] = y],
         \A b \in Analyses \ {a} : gate' = b => gate = b,
         \A b \in Analyses \ {a} : b \in vetted => b \in vetted',
         UNCHANGED anchored,
         \A b \in Analyses \ {a} : Inserted(an[b])',
         SharedOf(a)'
  PROVE  AnInv' /\ an'[a] = y
<1>1. an' \in [Analyses -> AnRec] /\ an'[a] = y /\ \A b \in Analyses \ {a} : an'[b] = an[b]
  BY DEF AnInv, Fine
<1>2. ASSUME NEW b \in Analyses \ {a} PROVE Fine(an[b])' /\ SharedOf(b)'
  BY <1>1, <1>2 DEF AnInv, SharedOf, Fine
<1>3. Fine(an[a])'
  BY <1>1 DEF Fine
<1> QED
  BY <1>1, <1>2, <1>3 DEF AnInv

\* A step that leaves the tables alone.
LEMMA MoveStep ==
  ASSUME IndInv, NEW a \in Analyses, NEW y, Fine(y), an' = [an EXCEPT ![a] = y],
         UNCHANGED <<tables, now, anchored>>,
         vetted' \subseteq Analyses, \A b \in Analyses \ {a} : b \in vetted => b \in vetted',
         gate' \in {gate, a, None}, gate' = a => y.pc \in Gated,
         y.pc \in Saving \cup OCSPSaving => a \in vetted',
         anchored /\ y.pc # "idle" => a \in vetted',
         y.pc \in {"save4", "save5"} => an[a].pc \in {"save4", "save5"} /\ y.crl = an[a].crl
  PROVE  IndInv'
<1>1. TableInv' /\ LatestInv'
  BY NoneAssumption DEF IndInv, TableInv, LatestInv, FreshRow, tables
<1>2. /\ an'[a] = y /\ \A b \in Analyses \ {a} : an'[b] = an[b]
  BY DEF IndInv, AnInv
<1>3. \A b \in Analyses \ {a} : Inserted(an[b])'
  BY <1>2 DEF IndInv, AnInv, SharedOf, Inserted, FreshRow, tables
<1>4. SharedOf(a)'
  <2>1. Inserted(an[a])'
    BY <1>2 DEF IndInv, AnInv, SharedOf, Inserted, FreshRow, tables
  <2> QED
    BY <1>2, <2>1 DEF SharedOf
<1>5. \A b \in Analyses \ {a} : gate' = b => gate = b
  BY NoneAssumption
<1>6. AnInv'
  BY <1>3, <1>4, <1>5, AnStep DEF IndInv
<1> QED
  BY <1>1, <1>6 DEF IndInv

\* What IndInv says of one analysis.
LEMMA OneAnalysis ==
  ASSUME IndInv, NEW a \in Analyses
  PROVE  /\ an \in [Analyses -> AnRec] /\ an[a] \in AnRec /\ Fine(an[a]) /\ SharedOf(a)
         /\ (an[a].pc \notin Gated => gate # a)
         /\ now \in Nat
BY BoundsAssumption DEF IndInv, AnInv, SharedOf, TableInv

\* A step of an analysis under way that leaves the tables alone.
LEMMA LocalStep ==
  ASSUME IndInv, NEW a \in Analyses, NEW y, Fine(y), an' = [an EXCEPT ![a] = y],
         an[a].pc # "idle",
         UNCHANGED <<tables, now, anchored, vetted>>,
         gate' \in {gate, a, None}, gate' = a => y.pc \in Gated,
         y.pc \in Saving \cup OCSPSaving => a \in vetted,
         y.pc \in {"save4", "save5"} => an[a].pc \in {"save4", "save5"} /\ y.crl = an[a].crl
  PROVE  IndInv'
<1>1. anchored => a \in vetted
  BY OneAnalysis DEF SharedOf
<1>2. vetted' \subseteq Analyses
  BY DEF IndInv, TableInv
<1> QED
  BY <1>1, <1>2, MoveStep

LEMMA BeginStep ==
  ASSUME IndInv, NEW a \in Analyses, Begin(a) \/ \E c \in CRLs : BeginUpload(a, c)
  PROVE  IndInv'
<1>1. /\ an[a].pc = "idle" /\ gate # a /\ UNCHANGED <<tables, now, anchored, gate>>
      /\ vetted' = IF anchored THEN vetted \cup {a} ELSE vetted \ {a}
  BY OneAnalysis DEF Begin, BeginUpload, At, Gated, Saving
<1>2. PICK y : Fine(y) /\ an' = [an EXCEPT ![a] = y] /\ y.pc \in {"cert", "open"}
  BY BeginFine, UploadFine DEF Begin, BeginUpload
<1>3. vetted' \subseteq Analyses
  BY <1>1 DEF IndInv, TableInv
<1> QED
  BY <1>1, <1>2, <1>3, MoveStep DEF Saving, OCSPSaving

\* The steps of the loop that begin, advance or end it.
LEMMA LoopStep ==
  ASSUME IndInv, NEW a \in Analyses,
         NextCert(a) \/ Abort(a) \/ OpenFails(a) \/ SkipOCSP(a) \/ NoOCSP(a) \/ SaveOCSPFails(a)
         \/ Verdict(a)
  PROVE  IndInv'
<1>1. /\ UNCHANGED <<tables, now, anchored, vetted, gate>>
      /\ an[a].pc \notin Gated /\ an[a].pc \in PCs \ {"idle"}
  BY DEF NextCert, Abort, OpenFails, SkipOCSP, NoOCSP, SaveOCSPFails, Verdict, At, world,
         Gated, Saving, PCs
<1>2. Fine(an[a]) /\ gate # a /\ an[a] \in AnRec
  BY <1>1, OneAnalysis
<1>3. an[a].pc # "open" => an[a].pass # "upload"
  BY <1>1, <1>2 DEF Fine, OnCert, InHand
<1>4. PICK y : Fine(y) /\ an' = [an EXCEPT ![a] = y] /\ y.pc \in {"cert", "cached", "idle", "verdict"}
  <2>1. an[a].pc # "open" => Fine(Advanced(a)) /\ Advanced(a).pc = "cert"
    BY <1>1, <1>2, <1>3, AdvanceFine DEF Advanced
  <2>2. CASE NextCert(a)
    <3>0. an[a].at > Len(Chain) <=> ~(an[a].at <= Len(Chain))
      BY <1>2, ChainAssumption DEF AnRec
    <3>1. CASE an[a].at > Len(Chain)
      <4>1. an' = [an EXCEPT ![a] = [an[a] EXCEPT !.pc = "verdict"]]
        BY <2>2, <3>0, <3>1 DEF NextCert
      <4>2. Fine([an[a] EXCEPT !.pc = "verdict"]) /\ [an[a] EXCEPT !.pc = "verdict"].pc = "verdict"
        BY <1>2, <2>2, GotoFine, GotoFields DEF NextCert, At, PCs
      <4> QED
        BY <4>1, <4>2
    <3>2. CASE an[a].at <= Len(Chain) /\ HasSource(Cert(a))
      <4>1. an[a].at \in 1..Len(Chain) /\ an[a].pc = "cert"
        BY <1>2, <2>2, <3>2, ChainAssumption DEF AnRec, NextCert, At
      <4>2. an' = [an EXCEPT ![a] = [an[a] EXCEPT !.pc = "cached", !.urls = CDP[Cert(a)], !.cachedOK = {}]]
        BY <2>2, <3>0, <3>2 DEF NextCert
      <4> QED
        BY <1>2, <3>2, <4>1, <4>2, CachedFine DEF Cert
    <3>3. CASE an[a].at <= Len(Chain) /\ ~HasSource(Cert(a))
      <4>1. an' = [an EXCEPT ![a] = Advanced(a)]
        BY <2>2, <3>0, <3>3 DEF NextCert
      <4> QED
        BY <2>1, <2>2, <4>1 DEF NextCert, At
    <3> QED
      BY <3>0, <3>1, <3>2, <3>3
  <2>3. CASE Abort(a) \/ OpenFails(a)
    BY <2>3, IdleFine DEF Abort, OpenFails
  <2>4. CASE SkipOCSP(a) \/ NoOCSP(a) \/ SaveOCSPFails(a)
    BY <2>1, <2>4 DEF SkipOCSP, NoOCSP, SaveOCSPFails, At
  <2>5. CASE Verdict(a)
    BY <1>2, <2>5, VerdictFine, ZenonT(60) DEF Verdict, At
  <2> QED
    BY <2>2, <2>3, <2>4, <2>5
<1> QED
  BY <1>1, <1>2, <1>4, LocalStep DEF Saving, OCSPSaving

\* The steps that look for a CRL or a response.
LEMMA LookupStep ==
  ASSUME IndInv, NEW a \in Analyses,
         \/ CachedSize(a) \/ CachedDone(a) \/ NoFetch(a) \/ FetchDone(a) \/ NotInStore(a)
         \/ \E c \in CRLs : Fetch(a, c) \/ StoreLookup(a, c)
         \/ \E r \in Responses, fetched \in BOOLEAN : ResolveOCSP(a, r, fetched)
  PROVE  IndInv'
<1>1. /\ UNCHANGED <<tables, now, anchored, vetted, gate>>
      /\ an[a].pc \in {"cached", "fetch", "store", "ocsp"}
  BY DEF CachedSize, CachedDone, NoFetch, FetchDone, NotInStore, Fetch, StoreLookup, ResolveOCSP,
         At, world
<1>2. Fine(an[a]) /\ gate # a /\ an[a] \in AnRec
  BY <1>1, OneAnalysis DEF Gated, Saving
<1>3. an[a].at \in 1..Len(Chain) /\ Cert(a) = Chain[an[a].at] /\ Cert(a) \in Certs
  BY <1>1, <1>2, ChainAssumption DEF Fine, OnCert, InHand, Gated, Saving, Cert, Certs
<1>4. an[a].rev[Cert(a)] # "none" \/ an[a].rev[Chain[an[a].at]] = "none"
  BY <1>3
<1>5. an[a].urls \in Seq(URLs)
  BY <1>2 DEF AnRec
<1>6. PICK y : /\ Fine(y) /\ an' = [an EXCEPT ![a] = y]
               /\ y.pc \in {"cached", "fetch", "open", "store", "ocsp", "ocspResult"}
  <2>1. CASE CachedSize(a)
    <3>1. an[a].pc = "cached" /\ an[a].urls # <<>> /\ an[a].rev[Cert(a)] = "none"
      BY <2>1 DEF CachedSize, At, Decided
    <3> DEFINE c == FreshCRL(Head(an[a].urls))
    <3>2. CASE c = None
      <4>1. Tail(an[a].urls) \in Seq(URLs)
        BY <1>5, <3>1
      <4> DEFINE y == [an[a] EXCEPT !.urls = Tail(an[a].urls)]
      <4>2. an' = [an EXCEPT ![a] = y]
        BY <2>1, <3>2 DEF CachedSize
      <4>3. Fine(y) /\ y.pc \in {"cached", "fetch"}
        BY <1>2, <3>1, <4>1, URLsFine
      <4> QED
        BY <4>2, <4>3
    <3>3. CASE c # None
      <4>1. c \in CRLs
        BY <3>3 DEF FreshCRL, IndInv, TableInv
      <4> DEFINE y == [an[a] EXCEPT !.pc = "open", !.pass = "cached",
                                    !.url = Head(an[a].urls), !.big = Info[c].big]
      <4>2. an' = [an EXCEPT ![a] = y]
        BY <2>1, <3>3 DEF CachedSize
      <4> HIDE DEF c
      <4>3. Fine(y) /\ y.pc = "open"
        BY <1>2, <1>4, <3>1, <4>1, OpenFine, ZenonT(60)
      <4> QED
        BY <4>2, <4>3
    <3> QED
      BY <3>2, <3>3
  <2>2. CASE CachedDone(a)
    <3>1. CDP[Cert(a)] \in Seq(URLs)
      BY <1>3, CDPAssumption
    <3> DEFINE y == [an[a] EXCEPT !.pc = "fetch", !.urls = CDP[Cert(a)]]
    <3>2. an' = [an EXCEPT ![a] = y]
      BY <2>2, <1>2 DEF CachedDone, IndInv, AnInv
    <3>3. Fine(y) /\ y.pc \in {"cached", "fetch"}
      BY <1>2, <2>2, <3>1, URLsFine DEF CachedDone, At
    <3> QED
      BY <3>2, <3>3
  <2>3. CASE NoFetch(a)
    <3>1. Tail(an[a].urls) \in Seq(URLs)
      BY <2>3, <1>5 DEF NoFetch
    <3> DEFINE y == [an[a] EXCEPT !.urls = Tail(an[a].urls)]
    <3>2. an' = [an EXCEPT ![a] = y]
      BY <2>3 DEF NoFetch
    <3>3. Fine(y) /\ y.pc \in {"cached", "fetch"}
      BY <1>2, <2>3, <3>1, URLsFine DEF NoFetch, At
    <3> QED
      BY <3>2, <3>3
  <2>4. CASE FetchDone(a)
    <3>1. an' = [an EXCEPT ![a] = [an[a] EXCEPT !.pc = "store"]]
      BY <2>4 DEF FetchDone, Goto
    <3>2. Fine([an[a] EXCEPT !.pc = "store"]) /\ [an[a] EXCEPT !.pc = "store"].pc = "store"
      BY <1>2, <2>4, GotoFine, GotoFields DEF FetchDone, At, PCs
    <3> QED
      BY <3>1, <3>2
  <2>5. CASE NotInStore(a)
    <3>1. an' = [an EXCEPT ![a] = [an[a] EXCEPT !.pc = "ocsp"]]
      BY <2>5 DEF NotInStore, Goto
    <3>2. Fine([an[a] EXCEPT !.pc = "ocsp"]) /\ [an[a] EXCEPT !.pc = "ocsp"].pc = "ocsp"
      BY <1>2, <2>5, GotoFine, GotoFields DEF NotInStore, At, PCs
    <3> QED
      BY <3>1, <3>2
  <2>6. ASSUME NEW c \in CRLs, Fetch(a, c)
        PROVE  \E y : /\ Fine(y) /\ an' = [an EXCEPT ![a] = y]
                      /\ y.pc \in {"cached", "fetch", "open", "store", "ocsp", "ocspResult"}
    <3>1. an[a].pc = "fetch" /\ an[a].urls # <<>> /\ an[a].rev[Cert(a)] = "none"
      BY <2>6 DEF Fetch, At, Decided
    <3> DEFINE y == [an[a] EXCEPT !.pc = "open", !.pass = "fetch", !.url = Head(an[a].urls),
                                  !.crl = c, !.big = Info[c].big]
    <3>2. an' = [an EXCEPT ![a] = y]
      BY <2>6, <1>2 DEF Fetch, IndInv, AnInv
    <3>3. Fine(y) /\ y.pc = "open"
      BY <1>2, <1>4, <3>1, OpenFine, ZenonT(60)
    <3> QED
      BY <3>2, <3>3
  <2>7. ASSUME NEW c \in CRLs, StoreLookup(a, c)
        PROVE  \E y : /\ Fine(y) /\ an' = [an EXCEPT ![a] = y]
                      /\ y.pc \in {"cached", "fetch", "open", "store", "ocsp", "ocspResult"}
    <3>1. an[a].pc = "store" /\ an[a].rev[Cert(a)] = "none"
      BY <2>7 DEF StoreLookup, At, Decided
    <3> DEFINE y == [an[a] EXCEPT !.pc = "open", !.pass = "store", !.crl = c, !.big = Info[c].big]
    <3>2. an' = [an EXCEPT ![a] = y]
      BY <2>7, <1>2 DEF StoreLookup, IndInv, AnInv
    <3>3. Fine(y) /\ y.pc = "open"
      BY <1>2, <1>4, <3>1, OpenFine, ZenonT(60)
    <3> QED
      BY <3>2, <3>3
  <2>8. ASSUME NEW r \in Responses, NEW fetched \in BOOLEAN, ResolveOCSP(a, r, fetched)
        PROVE  \E y : /\ Fine(y) /\ an' = [an EXCEPT ![a] = y]
                      /\ y.pc \in {"cached", "fetch", "open", "store", "ocsp", "ocspResult"}
    <3>1. an[a].pc = "ocsp" /\ an[a].rev[Cert(a)] = "none" /\ r.cert = Cert(a)
      BY <2>8 DEF ResolveOCSP, At, Decided
    <3> DEFINE y == [an[a] EXCEPT !.pc = "ocspResult", !.resp = r, !.fetched = fetched]
    <3>2. an' = [an EXCEPT ![a] = y]
      BY <2>8, <1>2 DEF ResolveOCSP, IndInv, AnInv
    <3>3. r.cert = Chain[an[a].at] /\ an[a].rev[Chain[an[a].at]] = "none"
      BY <1>3, <3>1
    <3>4. /\ y \in AnRec /\ y.pc = "ocspResult" /\ y.at = an[a].at /\ y.pass = an[a].pass
          /\ y.resp = r /\ y.rev = an[a].rev /\ y.out = an[a].out /\ y.seen = an[a].seen
      BY <1>2, ZenonT(60) DEF AnRec, PCs
    <3> HIDE DEF y
    <3>5. Fine(y)
      BY <1>2, <3>1, <3>3, <3>4, ResolveFine
    <3> QED
      BY <3>2, <3>4, <3>5
  <2> QED
    BY <2>1, <2>2, <2>3, <2>4, <2>5, <2>6, <2>7, <2>8
<1> QED
  BY <1>1, <1>2, <1>6, LocalStep DEF Saving, OCSPSaving

\* The steps with a CRL in hand that leave the store alone.
LEMMA HandStep ==
  ASSUME IndInv, NEW a \in Analyses,
         Open(a) \/ Read(a) \/ ReadFails(a) \/ Close(a) \/ SaveFails(a)
  PROVE  IndInv'
<1>1. /\ UNCHANGED <<tables, now, anchored, vetted>> /\ an[a].pc \in InHand
      /\ an[a].pc # "idle"
  BY DEF Open, Read, ReadFails, Close, SaveFails, At, world, InHand, Gated, Saving
<1>2. /\ Fine(an[a]) /\ an[a] \in AnRec /\ an \in [Analyses -> AnRec]
      /\ an[a].pc \notin Gated => gate # a
  BY OneAnalysis
<1>3. CASE Open(a)
  <2> DEFINE y == [an[a] EXCEPT !.pc = "read"]
  <2>1. an' = [an EXCEPT ![a] = y] /\ gate' \in {gate, a}
    BY <1>3 DEF Open, Goto
  <2>2. Fine(y) /\ y.pc = "read"
    BY <1>2, <1>3, GotoFine, GotoFields DEF Open, At, PCs
  <2> HIDE DEF y
  <2> QED
    BY <1>1, <2>1, <2>2, LocalStep DEF Gated, Saving, OCSPSaving
<1>4. CASE Read(a)
  <2> DEFINE c == IF an[a].pass = "cached" THEN FreshCRL(an[a].url) ELSE an[a].crl
             y == [an[a] EXCEPT !.pc = "process", !.crl = c]
  <2>1. an' = [an EXCEPT ![a] = y] /\ gate' = gate /\ c # None /\ an[a].pc = "read"
    BY <1>2, <1>4 DEF Read, At
  <2>2. c \in CRLs
    BY <1>2, <2>1 DEF Fine, HoldsCRL, InHand, Gated, FreshCRL, IndInv, TableInv
  <2> HIDE DEF c
  <2>3. Fine(y) /\ y.pc = "process"
    BY <1>2, <2>1, <2>2, ReadFine
  <2> HIDE DEF y
  <2> QED
    BY <1>1, <2>1, <2>3, LocalStep DEF Gated, Saving, OCSPSaving
<1>5. CASE ReadFails(a) \/ Close(a)
  <2>1. an' = Through(a) /\ gate' = Released(a)
    BY <1>5 DEF ReadFails, Close
  <2>2. PICK y : Fine(y) /\ an' = [an EXCEPT ![a] = y] /\ y.pc \in {"idle", "cached", "fetch", "ocsp"}
    <3> DEFINE x == [an[a] EXCEPT !.crl = None, !.url = None, !.big = FALSE]
    <3>1. x.pass = an[a].pass /\ x.urls = an[a].urls
      BY <1>2 DEF AnRec
    <3>2. CASE an[a].pass \in {"cached", "fetch"}
      <4> DEFINE y == [x EXCEPT !.pc = an[a].pass, !.urls = Tail(an[a].urls)]
      <4>1. an' = [an EXCEPT ![a] = y]
        BY <2>1, <3>1, <3>2 DEF Through
      <4>2. Fine(y) /\ y.pc \in {"cached", "fetch", "ocsp"}
        BY <1>1, <1>2, <3>2, ThroughFine
      <4> QED
        BY <4>1, <4>2
    <3>3. CASE an[a].pass = "store"
      <4> DEFINE y == [x EXCEPT !.pc = "ocsp"]
      <4>1. an' = [an EXCEPT ![a] = y]
        BY <2>1, <3>1, <3>3 DEF Through
      <4>2. Fine(y) /\ y.pc \in {"cached", "fetch", "ocsp"}
        BY <1>1, <1>2, <3>3, ThroughFine
      <4> QED
        BY <4>1, <4>2
    <3>4. CASE an[a].pass = "upload"
      <4>1. an' = [an EXCEPT ![a] = Idle]
        BY <2>1, <3>1, <3>4 DEF Through
      <4> QED
        BY <4>1, IdleFine
    <3> QED
      BY <1>2, <3>2, <3>3, <3>4 DEF AnRec
  <2>3. gate' \in {gate, None} /\ gate' # a
    BY <2>1, NoneAssumption DEF Released
  <2> QED
    BY <1>1, <2>2, <2>3, LocalStep DEF Saving, OCSPSaving
<1>6. CASE SaveFails(a)
  <2> DEFINE y == [an[a] EXCEPT !.pc = "close"]
  <2>1. an' = [an EXCEPT ![a] = y] /\ gate' = gate
    BY <1>6 DEF SaveFails, Goto
  <2>2. Fine(y) /\ y.pc = "close"
    BY <1>2, <1>6, GotoFine, GotoFields DEF SaveFails, Saving, PCs
  <2> HIDE DEF y
  <2> QED
    BY <1>1, <2>1, <2>2, LocalStep DEF Gated, Saving, OCSPSaving
<1> QED
  BY <1>3, <1>4, <1>5, <1>6

LEMMA ProcessStep ==
  ASSUME IndInv, NEW a \in Analyses, NEW failed \in BOOLEAN, Process(a, failed)
  PROVE  IndInv'
<1> DEFINE x == an[a]
           c == x.crl
           save == Savable(a, failed)
           d == Chain[x.at]
<1>1. /\ Fine(x) /\ x \in AnRec /\ an \in [Analyses -> AnRec] /\ now \in Nat
      /\ x.pc = "process" /\ UNCHANGED <<tables, now, anchored, vetted, gate>>
  BY OneAnalysis DEF Process, At, world
<1>2. c \in CRLs /\ x.pass \in {"cached", "fetch", "store", "upload"}
  BY <1>1 DEF Fine, HoldsCRL, InHand, Gated, AnRec
<1>3. save => a \in vetted /\ Info[c].genuine
  BY <1>1, OneAnalysis DEF Savable, Authoritative, SharedOf
<1>4. x.pass # "upload" => d \in Certs
  BY <1>1, ChainAssumption DEF Fine, OnCert, Certs
<1> DEFINE rev == IF x.pass # "upload" /\ Authoritative(c) /\ ~failed
                  THEN [x.rev EXCEPT ![d] = Shown(c, d)] ELSE x.rev
           ok == IF x.pass = "cached" /\ Authoritative(c) /\ ~failed
                 THEN x.cachedOK \cup {x.url} ELSE x.cachedOK
           seen == IF x.pass = "upload" \/ failed THEN x.seen
                   ELSE x.seen \cup {[cert |-> d, crl |-> c, at |-> now]}
           pc == IF save THEN "save1" ELSE "close"
           y == [x EXCEPT !.pc = pc, !.rev = rev, !.cachedOK = ok, !.seen = seen]
<1>5. an' = [an EXCEPT ![a] = y]
  BY <1>1 DEF Process, Cert
<1>6. rev \in [Certs -> {"none", "revoked", "not_revoked"}]
  <2>1. x.rev \in [Certs -> {"none", "revoked", "not_revoked"}]
    BY <1>1 DEF AnRec
  <2>2. x.pass # "upload" /\ Authoritative(c) => Shown(c, d) \in {"none", "revoked", "not_revoked"}
    BY <1>2, <1>4, ShownSound DEF Authoritative
  <2> QED
    BY <2>1, <2>2
<1>7. ok \in SUBSET URLs
  BY <1>1 DEF Fine, HoldsCRL, InHand, Gated, AnRec
<1>8. seen \in SUBSET Evidence
  <2>1. x.seen \in SUBSET Evidence
    BY <1>1 DEF AnRec
  <2>2. x.pass # "upload" => [cert |-> d, crl |-> c, at |-> now] \in Evidence
    BY <1>1, <1>2, <1>4, CRLEvidence
  <2> QED
    BY <2>1, <2>2
<1>9. pc \in PCs
  BY DEF PCs
<1> HIDE DEF rev, ok, seen, pc
<1>10. /\ y \in AnRec /\ y.pc = pc /\ y.at = x.at /\ y.pass = x.pass /\ y.urls = x.urls
       /\ y.url = x.url /\ y.crl = x.crl /\ y.out = x.out /\ y.rev = rev /\ y.seen = seen
  BY <1>1, <1>6, <1>7, <1>8, <1>9 DEF AnRec
<1> HIDE DEF y
<1>11. save \in BOOLEAN
  BY DEF Savable
<1>12. Fine(y)
  <2> HIDE DEF save, x
  <2> QED
    BY <1>1, <1>3, <1>10, <1>11, ProcessFine DEF rev, seen, pc, d, c
<1>13. /\ y.pc \in {"save1", "close"} /\ (y.pc = "save1" => a \in vetted)
  BY <1>3, <1>10 DEF pc
<1> QED
  BY <1>1, <1>5, <1>12, <1>13, LocalStep DEF Gated, Saving, OCSPSaving

LEMMA OCSPResultStep ==
  ASSUME IndInv, NEW a \in Analyses, OCSPResult(a)
  PROVE  IndInv'
<1> DEFINE x == an[a]
           r == x.resp
           d == Chain[x.at]
           keep == x.fetched /\ Verified(r) /\ r.next # 0 /\ anchored
           z == IF keep THEN [x EXCEPT !.pc = "ocspSave"] ELSE Advanced(a)
           rev == [x.rev EXCEPT ![d] = OCSPShown(r)]
           seen == x.seen \cup {[cert |-> d, ocsp |-> r, at |-> now]}
           y == [z EXCEPT !.rev = rev, !.seen = seen]
<1>1. /\ Fine(x) /\ x \in AnRec /\ an \in [Analyses -> AnRec] /\ now \in Nat
      /\ x.pc = "ocspResult" /\ UNCHANGED <<tables, now, anchored, vetted, gate>>
      /\ gate # a
  BY OneAnalysis DEF OCSPResult, At, world, Gated, Saving
<1>2. r \in Responses /\ d \in Certs /\ x.pass # "upload"
  BY <1>1, ChainAssumption
     DEF Fine, HoldsResponse, OnCert, Certs, InHand, Gated, Saving
<1>3. an' = [an EXCEPT ![a] = y]
  BY DEF OCSPResult, Cert
<1>4. /\ z \in AnRec /\ z.pc = (IF keep THEN "ocspSave" ELSE "cert") /\ z.pass # "upload"
      /\ z.out = x.out /\ (keep => z.at = x.at /\ z.resp = x.resp)
  <2>1. CASE keep
    BY <1>1, <1>2, <2>1, GotoFields DEF PCs
  <2>2. CASE ~keep
    <3>1. /\ Advanced(a) \in AnRec /\ Advanced(a).pc = "cert" /\ Advanced(a).pass = "cached"
          /\ Advanced(a).out = x.out
      BY <1>1, AdvanceFields, ZenonT(60) DEF Advanced
    <3> QED
      BY <2>2, <3>1
  <2> QED
    BY <2>1, <2>2
<1>5. rev \in [Certs -> {"none", "revoked", "not_revoked"}]
  BY <1>1, <1>2 DEF AnRec, OCSPShown
<1>6. seen \in SUBSET Evidence
  <2>1. x.seen \in SUBSET Evidence
    BY <1>1 DEF AnRec
  <2>2. [cert |-> d, ocsp |-> r, at |-> now] \in Evidence
    <3>1. r \in Responses /\ d \in Certs
      BY <1>2
    <3>2. now \in Nat
      BY <1>1
    <3> HIDE DEF r, d
    <3> QED
      BY <3>1, <3>2, OCSPEvidence
  <2> QED
    BY <2>1, <2>2
<1> HIDE DEF z
<1>7. /\ y \in AnRec /\ y.pc = z.pc /\ y.pass = z.pass /\ y.out = z.out /\ y.at = z.at
      /\ y.resp = z.resp /\ y.rev = rev /\ y.seen = seen
  <2> HIDE DEF rev, seen
  <2> QED
    BY <1>4, <1>5, <1>6 DEF AnRec
<1> HIDE DEF y
<1>8. /\ keep \in BOOLEAN /\ (keep => Verified(r))
      /\ y.pc = (IF keep THEN "ocspSave" ELSE "cert")
      /\ y.pass # "upload" /\ y.out = x.out /\ (keep => y.at = x.at /\ y.resp = r)
  BY <1>4, <1>7
<1>9. Fine(y)
  <2> HIDE DEF keep, x
  <2> QED
    BY <1>1, <1>7, <1>8, OCSPResultFine
<1>10. y.pc \in {"ocspSave", "cert"} /\ (y.pc = "ocspSave" => a \in vetted)
  BY <1>1, <1>8, OneAnalysis DEF SharedOf
<1> QED
  BY <1>1, <1>3, <1>9, <1>10, LocalStep DEF Gated, Saving, OCSPSaving

-----------------------------------------------------------------------------
(***************************************************************************)
(* SaveCRL and SaveOCSP                                                    *)
(***************************************************************************)

\* What a statement of SaveCRL does to the analysis, and what it relies on.
LEMMA SaveEffect ==
  ASSUME IndInv, NEW a \in Analyses,
         DeleteExpired(a) \/ DeleteUnmapped(a) \/ InsertCRL(a) \/ MapURL(a) \/ DeleteOlder(a)
  PROVE  /\ UNCHANGED <<ocsp, now, anchored, vetted, gate>>
         /\ a \in vetted /\ an[a].crl \in CRLs /\ Info[an[a].crl].genuine
         /\ an[a].pc \in Saving
         /\ an[a].pc = "save4" => an[a].url \in URLs
         /\ an'[a] = [an[a] EXCEPT !.pc = an'[a].pc] /\ Fine(an'[a]) /\ an'[a].crl = an[a].crl
         /\ an' = [an EXCEPT ![a] = an'[a]]
         /\ DeleteExpired(a) => an'[a].pc = "save2"
         /\ DeleteUnmapped(a) => an'[a].pc = "save3"
         /\ InsertCRL(a) => an'[a].pc \in {"save4", "save5"}
         /\ MapURL(a) => an[a].pc = "save4" /\ an'[a].pc = "save5"
         /\ DeleteOlder(a) => an[a].pc = "save5" /\ an'[a].pc = "close"
<1>1. /\ UNCHANGED <<ocsp, now, anchored, vetted, gate>> /\ an[a].pc \in Saving
  BY DEF DeleteExpired, DeleteUnmapped, InsertCRL, MapURL, DeleteOlder, At, world, Saving
<1>2. Fine(an[a]) /\ SharedOf(a) /\ an \in [Analyses -> AnRec] /\ an[a] \in AnRec
  BY OneAnalysis
<1>3. a \in vetted /\ an[a].crl \in CRLs /\ Info[an[a].crl].genuine
  BY <1>1, <1>2 DEF SharedOf, Fine, HoldsCRL, InHand, Gated, Saving
<1>4. an[a].pc = "save4" => an[a].url \in URLs
  BY <1>2 DEF Fine, HoldsCRL, InHand, Gated, Saving
<1>5. PICK l \in PCs :
        /\ an' = [an EXCEPT ![a] = [an[a] EXCEPT !.pc = l]]
        /\ \/ DeleteExpired(a) /\ an[a].pc = "save1" /\ l = "save2"
           \/ DeleteUnmapped(a) /\ an[a].pc = "save2" /\ l = "save3"
           \/ InsertCRL(a) /\ an[a].pc = "save3" /\ an[a].pass = "fetch" /\ l = "save4"
           \/ InsertCRL(a) /\ an[a].pc = "save3" /\ l = "save5"
           \/ MapURL(a) /\ an[a].pc = "save4" /\ l = "save5"
           \/ DeleteOlder(a) /\ an[a].pc = "save5" /\ l = "close"
  BY DEF DeleteExpired, DeleteUnmapped, InsertCRL, MapURL, DeleteOlder, At, Goto, PCs
<1> DEFINE y == [an[a] EXCEPT !.pc = l]
<1>6. an'[a] = y
  BY <1>2, <1>5
<1>7. y.pc = l /\ y.crl = an[a].crl
  BY <1>2, GotoFields
<1>8. Fine(y)
  BY <1>2, <1>5, GotoFine DEF Saving
<1>9. /\ DeleteExpired(a) => an[a].pc = "save1"
      /\ DeleteUnmapped(a) => an[a].pc = "save2"
      /\ InsertCRL(a) => an[a].pc = "save3"
      /\ MapURL(a) => an[a].pc = "save4"
      /\ DeleteOlder(a) => an[a].pc = "save5"
  BY DEF DeleteExpired, DeleteUnmapped, InsertCRL, MapURL, DeleteOlder, At
<1> HIDE DEF y
<1>10. an' = [an EXCEPT ![a] = an'[a]] /\ an'[a] = [an[a] EXCEPT !.pc = an'[a].pc]
  BY <1>5, <1>6, <1>7 DEF y
<1> QED
  BY <1>1, <1>3, <1>4, <1>5, <1>6, <1>7, <1>8, <1>9, <1>10

\* A statement of SaveCRL keeps IndInv if it keeps the tables, what is known of
\* the newest CRLs, and what the analyses rely on.
LEMMA SaveKeeps ==
  ASSUME IndInv, NEW a \in Analyses,
         DeleteExpired(a) \/ DeleteUnmapped(a) \/ InsertCRL(a) \/ MapURL(a) \/ DeleteOlder(a),
         TableInv', LatestInv', \A b \in Analyses : Inserted(an[b])'
  PROVE  IndInv'
<1>1. /\ UNCHANGED <<now, anchored, vetted, gate>> /\ a \in vetted
      /\ Fine(an'[a]) /\ an' = [an EXCEPT ![a] = an'[a]]
      /\ an'[a].pc \in {"save2", "save3", "save4", "save5", "close"}
  BY SaveEffect
<1>2. SharedOf(a)'
  BY <1>1 DEF SharedOf, Gated, Saving
<1>3. AnInv'
  BY <1>1, <1>2, AnStep DEF IndInv
<1> QED
  BY <1>3 DEF IndInv

\* What the invariant says of a CRL that an analysis has inserted.
LEMMA InsertedOf ==
  ASSUME IndInv, NEW b \in Analyses, an[b].pc \in {"save4", "save5"}
  PROVE  Inserted(an[b]) /\ an[b].crl \in CRLs
BY DEF IndInv, AnInv, SharedOf, Fine, HoldsCRL, InHand, Gated, Saving

\* Statements that add rows, or remove only expired ones.
LEMMA SaveCRLStep ==
  ASSUME IndInv, NEW a \in Analyses,
         DeleteExpired(a) \/ DeleteUnmapped(a) \/ InsertCRL(a) \/ MapURL(a)
  PROVE  IndInv'
<1>1. /\ UNCHANGED <<ocsp, now, anchored, vetted, gate, latest>>
      /\ a \in vetted /\ an[a].crl \in CRLs /\ Info[an[a].crl].genuine
      /\ an[a].pc = "save4" => an[a].url \in URLs
      /\ an'[a].crl = an[a].crl
      /\ an' = [an EXCEPT ![a] = an'[a]]
  BY SaveEffect DEF DeleteExpired, DeleteUnmapped, InsertCRL, MapURL
<1>2. now \in Nat /\ crls \subseteq CRLs
  BY OneAnalysis DEF IndInv, TableInv
<1>3. /\ crls' \subseteq crls \cup {an[a].crl}
      /\ \A c \in crls : FreshRow(c) => c \in crls'
      /\ InsertCRL(a) => an[a].crl \in crls'
  <2>1. CASE DeleteExpired(a)
    <3>1. \A c \in crls : FreshRow(c) => Info[c].next >= now
      BY <1>2, InfoAssumption DEF FreshRow
    <3>2. crls' = {c \in crls : Info[c].next >= now} /\ ~InsertCRL(a)
      BY <2>1 DEF DeleteExpired, InsertCRL, At
    <3> QED
      BY <3>1, <3>2
  <2>2. CASE DeleteUnmapped(a) \/ InsertCRL(a) \/ MapURL(a)
    BY <2>2 DEF DeleteUnmapped, InsertCRL, MapURL, At
  <2> QED
    BY <2>1, <2>2
<1>4. TableInv'
  <2>1. \E b \in Nat : \A c \in crls' : Info[c].this <= b
    <3>1. PICK b \in Nat : \A c \in crls : Info[c].this <= b
      BY DEF IndInv, TableInv
    <3>2. /\ Info[an[a].crl].this \in Nat
          /\ \A c \in crls : Info[c].this \in Nat
      BY <1>1, <1>2, InfoAssumption
    <3>3. \A c \in crls' : Info[c].this <= b + Info[an[a].crl].this
      BY <1>3, <3>1, <3>2
    <3> QED
      BY <3>2, <3>3
  <2>2. crlURLs' \in [URLs -> CRLs \cup {None}]
    BY <1>1, SaveEffect
       DEF DeleteExpired, DeleteUnmapped, InsertCRL, MapURL, At, IndInv, TableInv
  <2> QED
    BY <1>1, <1>3, <2>1, <2>2 DEF IndInv, TableInv
<1>5. \A c : FreshRow(c)' <=> FreshRow(c)
  BY <1>1 DEF FreshRow
<1>6. LatestInv'
  BY <1>1, <1>3, <1>5 DEF IndInv, LatestInv
<1>7. ASSUME NEW b \in Analyses PROVE Inserted(an[b])'
  <2> SUFFICES ASSUME an'[b].pc \in {"save4", "save5"}, FreshRow(an'[b].crl)
               PROVE  \/ an'[b].crl \in crls'
                      \/ /\ latest[Info[an'[b].crl].issuer] # None
                         /\ Info[an'[b].crl].this < Info[latest[Info[an'[b].crl].issuer]].this
    BY <1>1, <1>5 DEF Inserted
  <2>1. CASE b = a /\ InsertCRL(a)
    BY <2>1, <1>1, <1>3
  <2>2. CASE b # a \/ ~InsertCRL(a)
    <3>1. an[b].pc \in {"save4", "save5"} /\ an'[b].crl = an[b].crl
      <4>1. CASE b # a
        BY <1>1, <4>1 DEF IndInv, AnInv
      <4>2. CASE b = a
        BY <1>1, <2>2, <4>2, SaveEffect
      <4> QED
        BY <4>1, <4>2
    <3>2. Inserted(an[b])
      BY <3>1, InsertedOf
    <3> QED
      BY <3>1, <3>2, <1>3 DEF Inserted
  <2> QED
    BY <2>1, <2>2
<1> QED
  BY <1>4, <1>6, <1>7, SaveKeeps

\* The last statement of SaveCRL drops older rows only: the newest CRL saved
\* stays, and so does one that another analysis is about to report as saved.
LEMMA DeleteOlderStep ==
  ASSUME IndInv, NEW a \in Analyses, DeleteOlder(a)
  PROVE  IndInv'
<1> DEFINE c == an[a].crl
           i == Info[c].issuer
<1>1. /\ UNCHANGED <<crlURLs, ocsp, now, anchored, vetted, gate>>
      /\ c \in CRLs /\ an[a].pc = "save5" /\ an'[a].pc = "close"
      /\ an' = [an EXCEPT ![a] = an'[a]]
      /\ crls' = crls \ Older(c)
      /\ latest' = [latest EXCEPT ![i] = Newest(c, latest[i])]
  BY SaveEffect DEF DeleteOlder
<1>2. /\ crls' \subseteq crls /\ i \in Issuers /\ Info[c].this \in Nat
      /\ latest \in [Issuers -> CRLs \cup {None}]
      /\ \A d \in CRLs : Info[d].this \in Nat
      /\ crls \subseteq CRLs
  BY <1>1, InfoAssumption DEF Issuers, IndInv, LatestInv, TableInv
<1>3. Inserted(an[a])
  BY <1>1, InsertedOf
<1> HIDE DEF c
<1>4. \A d \in crls \ crls' : Info[d].issuer = i /\ Info[d].this < Info[c].this
  BY <1>1 DEF Older
<1>5. /\ latest'[i] \in CRLs /\ Info[latest'[i]].this >= Info[c].this
      /\ latest[i] # None => Info[latest'[i]].this >= Info[latest[i]].this
      /\ \A j \in Issuers \ {i} : latest'[j] = latest[j]
      /\ latest'[i] = c \/ (latest'[i] = latest[i] /\ latest[i] # None)
      /\ latest'[i] = c => latest[i] = None \/ Info[latest[i]].this <= Info[c].this
      /\ latest' \in [Issuers -> CRLs \cup {None}]
  BY <1>1, <1>2, NoneAssumption DEF Newest
<1>6. TableInv'
  <2>1. \E b \in Nat : \A d \in crls' : Info[d].this <= b
    BY <1>2 DEF IndInv, TableInv
  <2> QED
    BY <1>1, <1>2, <2>1 DEF IndInv, TableInv
<1>7. \A d : FreshRow(d)' <=> FreshRow(d)
  BY <1>1 DEF FreshRow
<1>8. LatestInv'
  <2> SUFFICES ASSUME NEW j \in Issuers, latest'[j] # None
               PROVE  /\ Info[latest'[j]].issuer = j
                      /\ FreshRow(latest'[j]) => latest'[j] \in crls'
    BY <1>5, <1>7 DEF LatestInv
  <2>1. CASE j # i
    <3>1. /\ latest'[j] = latest[j] /\ Info[latest[j]].issuer = j
          /\ FreshRow(latest[j]) => latest[j] \in crls
      BY <1>5, <2>1 DEF IndInv, LatestInv
    <3> QED
      BY <3>1, <2>1, <1>4
  <2>2. CASE j = i /\ latest'[i] # c
    <3>1. /\ latest'[i] = latest[i] /\ latest[i] # None
          /\ Info[latest[i]].issuer = i
          /\ FreshRow(latest[i]) => latest[i] \in crls
      BY <1>2, <1>5, <2>2 DEF IndInv, LatestInv
    <3>2. Info[latest[i]].this >= Info[c].this
      BY <1>5, <3>1
    <3>3. Info[latest[i]].this \in Nat
      BY <1>2, <3>1
    <3> QED
      BY <3>1, <3>2, <3>3, <2>2, <1>2, <1>4
  <2>3. CASE j = i /\ latest'[i] = c
    <3>1. FreshRow(c) => c \in crls
      <4> SUFFICES ASSUME FreshRow(c), c \notin crls PROVE FALSE
        OBVIOUS
      <4>1. latest[i] # None /\ Info[c].this < Info[latest[i]].this
        BY <1>1, <1>3 DEF Inserted, c
      <4>2. Info[latest[i]].this <= Info[c].this /\ Info[latest[i]].this \in Nat
        BY <1>2, <1>5, <2>3, <4>1
      <4> QED
        BY <1>2, <4>1, <4>2
    <3>2. c \in crls => c \in crls'
      BY <1>2, <1>4
    <3> QED
      BY <2>3, <3>1, <3>2
  <2> QED
    BY <2>1, <2>2, <2>3
<1>9. ASSUME NEW b \in Analyses PROVE Inserted(an[b])'
  <2> DEFINE d == an[b].crl
             k == Info[d].issuer
  <2>1. CASE b = a
    BY <2>1, <1>1 DEF Inserted
  <2>2. CASE b # a
    <3>1. an'[b] = an[b]
      BY <2>2, <1>1 DEF IndInv, AnInv
    <3> SUFFICES ASSUME an[b].pc \in {"save4", "save5"}, FreshRow(d)
                 PROVE  \/ d \in crls'
                        \/ latest'[k] # None /\ Info[d].this < Info[latest'[k]].this
      BY <3>1, <1>7 DEF Inserted
    <3>2. d \in CRLs /\ k \in Issuers
      BY InsertedOf DEF Issuers
    <3>3. d \in crls \/ (latest[k] # None /\ Info[d].this < Info[latest[k]].this)
      BY InsertedOf DEF Inserted
    <3> HIDE DEF d
    <3>4. CASE d \in crls \ crls'
      <4>1. k = i /\ Info[d].this < Info[c].this
        BY <3>4, <1>4
      <4>2. latest'[i] # None /\ Info[d].this < Info[latest'[i]].this
        <5>1. Info[d].this \in Nat /\ Info[latest'[i]].this \in Nat
          BY <1>2, <1>5, <3>2
        <5> QED
          BY <1>2, <1>5, <4>1, <5>1, NoneAssumption
      <4> QED
        BY <4>1, <4>2
    <3>5. CASE latest[k] # None /\ Info[d].this < Info[latest[k]].this
      <4>1. CASE k # i
        BY <3>2, <3>5, <4>1, <1>5
      <4>2. CASE k = i
        <5>1. /\ Info[d].this \in Nat /\ Info[latest'[i]].this \in Nat /\ Info[latest[i]].this \in Nat
              /\ latest'[i] # None
          BY <1>2, <1>5, <3>2, <3>5, <4>2, NoneAssumption
        <5>2. Info[latest'[i]].this >= Info[latest[i]].this /\ Info[d].this < Info[latest[i]].this
          BY <1>5, <3>5, <4>2
        <5>3. Info[d].this < Info[latest'[i]].this
          BY <5>1, <5>2
        <5> QED
          BY <4>2, <5>1, <5>3
      <4> QED
        BY <4>1, <4>2
    <3> QED
      BY <3>3, <3>4, <3>5
  <2> QED
    BY <2>1, <2>2
<1> QED
  BY <1>6, <1>8, <1>9, SaveKeeps

LEMMA SaveOCSPStep ==
  ASSUME IndInv, NEW a \in Analyses, DeleteOCSP(a) \/ InsertOCSP(a)
  PROVE  IndInv'
<1>1. /\ UNCHANGED <<crls, crlURLs, latest, now, anchored, vetted, gate>>
      /\ an[a].pc \in OCSPSaving
  BY DEF DeleteOCSP, InsertOCSP, At, world, OCSPSaving
<1>2. /\ Fine(an[a]) /\ SharedOf(a) /\ an \in [Analyses -> AnRec] /\ an[a] \in AnRec
      /\ gate # a
  BY <1>1, OneAnalysis DEF OCSPSaving, Gated, Saving
<1>3. a \in vetted /\ an[a].resp \in Responses /\ an[a].resp.signed /\ an[a].pass # "upload"
  BY <1>1, <1>2 DEF SharedOf, Fine, HoldsResponse, OnCert, InHand, Gated, Saving, OCSPSaving
<1>4. ocsp' \subseteq ocsp \cup {an[a].resp}
  BY DEF DeleteOCSP, InsertOCSP
<1>5. TableInv' /\ LatestInv'
  BY <1>1, <1>3, <1>4 DEF IndInv, TableInv, LatestInv, FreshRow
<1>6. PICK y : Fine(y) /\ an' = [an EXCEPT ![a] = y] /\ y.pc \in {"ocspInsert", "cert"}
  <2>1. CASE DeleteOCSP(a)
    <3>1. an' = [an EXCEPT ![a] = [an[a] EXCEPT !.pc = "ocspInsert"]]
      BY <2>1 DEF DeleteOCSP, Goto
    <3>2. Fine([an[a] EXCEPT !.pc = "ocspInsert"]) /\ [an[a] EXCEPT !.pc = "ocspInsert"].pc = "ocspInsert"
      BY <1>2, <2>1, GotoFine, GotoFields DEF DeleteOCSP, At, PCs
    <3> QED
      BY <3>1, <3>2
  <2>2. CASE InsertOCSP(a)
    <3>1. Fine(Advanced(a)) /\ Advanced(a).pc = "cert"
      BY <1>1, <1>2, <1>3, AdvanceFine DEF Advanced, OCSPSaving
    <3> QED
      BY <2>2, <3>1 DEF InsertOCSP
  <2> QED
    BY <2>1, <2>2
<1>7. an'[a] = y /\ \A b \in Analyses \ {a} : an'[b] = an[b]
  BY <1>2, <1>6
<1>8. \A b \in Analyses \ {a} : Inserted(an[b])'
  BY <1>1, <1>7 DEF IndInv, AnInv, SharedOf, Inserted, FreshRow
<1>9. SharedOf(a)'
  BY <1>1, <1>2, <1>3, <1>6, <1>7 DEF SharedOf, Inserted
<1>10. AnInv'
  BY <1>1, <1>6, <1>8, <1>9, AnStep DEF IndInv
<1> QED
  BY <1>5, <1>10 DEF IndInv

-----------------------------------------------------------------------------
(***************************************************************************)
(* The world around the analyses, and the theorems                         *)
(***************************************************************************)

\* Time passes: what is fresh then was fresh before.
LEMMA TickStep ==
  ASSUME IndInv, Tick
  PROVE  IndInv'
<1>1. /\ UNCHANGED <<crls, crlURLs, ocsp, latest, anchored, gate, an, vetted>>
      /\ now \in Nat /\ now' = now + 1 /\ now' \in 1..MaxTime
  BY BoundsAssumption DEF Tick, tables, IndInv, TableInv
<1>2. \A c \in CRLs : FreshRow(c)' => FreshRow(c)
  BY <1>1, InfoAssumption DEF FreshRow
<1>3. TableInv'
  BY <1>1 DEF IndInv, TableInv
<1>4. LatestInv'
  BY <1>1, <1>2 DEF IndInv, LatestInv
<1>5. AnInv'
  <2> SUFFICES ASSUME NEW a \in Analyses PROVE Fine(an[a])' /\ SharedOf(a)'
    BY <1>1 DEF IndInv, AnInv
  <2>1. Fine(an[a])'
    BY <1>1 DEF IndInv, AnInv, Fine
  <2>2. Inserted(an[a])'
    BY <1>1, <1>2, InsertedOf DEF Inserted
  <2> QED
    BY <2>1, <2>2, <1>1 DEF IndInv, AnInv, SharedOf
<1> QED
  BY <1>3, <1>4, <1>5 DEF IndInv

LEMMA WorldStep ==
  ASSUME IndInv, ToggleTrust \/ Crash \/ UNCHANGED vars
  PROVE  IndInv'
<1>1. CASE ToggleTrust
  <2>1. /\ UNCHANGED <<crls, crlURLs, ocsp, latest, now, gate, an>>
        /\ vetted' = (IF anchored THEN vetted ELSE Analyses) /\ anchored' = ~anchored
    BY <1>1 DEF ToggleTrust, tables, IndInv, TableInv
  <2>2. TableInv' /\ LatestInv'
    BY <2>1 DEF IndInv, TableInv, LatestInv, FreshRow
  <2>3. AnInv'
    BY <2>1 DEF IndInv, AnInv, Fine, SharedOf, Inserted, FreshRow
  <2> QED
    BY <2>2, <2>3 DEF IndInv
<1>2. CASE Crash
  <2>1. /\ UNCHANGED <<crls, crlURLs, ocsp, latest, now, anchored, vetted>>
        /\ gate' = None /\ an' = [a \in Analyses |-> Idle]
    BY <1>2 DEF Crash, tables, world
  <2>2. TableInv' /\ LatestInv'
    BY <2>1 DEF IndInv, TableInv, LatestInv, FreshRow
  <2>3. AnInv'
    <3>1. an' \in [Analyses -> AnRec]
      BY <2>1, IdleFields
    <3>2. ASSUME NEW a \in Analyses PROVE Fine(an[a])' /\ SharedOf(a)'
      <4>1. an'[a] = Idle
        BY <2>1
      <4>2. Fine(an[a])'
        BY <4>1, IdleFine DEF Fine
      <4>3. SharedOf(a)'
        BY <2>1, <4>1, IdleFields, NoneAssumption
           DEF SharedOf, Inserted, Saving, OCSPSaving
      <4> QED
        BY <4>2, <4>3
    <3> QED
      BY <3>1, <3>2 DEF AnInv
  <2> QED
    BY <2>2, <2>3 DEF IndInv
<1>3. CASE UNCHANGED vars
  BY <1>3 DEF vars, IndInv, TableInv, LatestInv, AnInv, Fine, SharedOf, Inserted,
              FreshRow
<1> QED
  BY <1>1, <1>2, <1>3

LEMMA InitIndInv == Init => IndInv
<1> SUFFICES ASSUME Init PROVE IndInv
  OBVIOUS
<1>1. TableInv
  <2>1. crls \subseteq CRLs /\ ocsp \subseteq Responses
    BY DEF Init
  <2>2. \A c \in crls : Info[c].this <= 0
    BY DEF Init
  <2>3. crlURLs \in [URLs -> CRLs \cup {None}]
    BY DEF Init
  <2>4. now \in 1..MaxTime
    BY BoundsAssumption DEF Init
  <2>5. anchored \in BOOLEAN /\ vetted \subseteq Analyses
    BY DEF Init
  <2>6. gate \in Analyses \cup {None}
    BY DEF Init
  <2> QED
    BY <2>1, <2>2, <2>3, <2>4, <2>5, <2>6 DEF TableInv
<1>2. LatestInv
  BY DEF Init, LatestInv
<1>3. AnInv
  BY IdleFields, IdleFine, NoneAssumption
     DEF Init, AnInv, SharedOf, Inserted, Saving, OCSPSaving
<1> QED
  BY <1>1, <1>2, <1>3 DEF IndInv

LEMMA NextIndInv == IndInv /\ [Next]_vars => IndInv'
<1> SUFFICES ASSUME IndInv, [Next]_vars PROVE IndInv'
  OBVIOUS
<1>1. ASSUME NEW a \in Analyses, Begin(a) \/ \E c \in CRLs : BeginUpload(a, c) PROVE IndInv'
  BY <1>1, BeginStep
<1>2. ASSUME NEW a \in Analyses, Step(a) PROVE IndInv'
  BY <1>2, LoopStep, LookupStep, HandStep, ProcessStep, OCSPResultStep, SaveCRLStep,
     DeleteOlderStep, SaveOCSPStep DEF Step
<1> QED
  BY <1>1, <1>2, TickStep, WorldStep DEF Next

LEMMA Inductive == Spec => []IndInv
BY InitIndInv, NextIndInv, PTL DEF Spec

\* Among CRLs whose thisUpdate is bounded there is a newest one.
LEMMA NewestExists ==
  ASSUME NEW S, S # {}, \A c \in S : Info[c].this \in Nat,
         NEW b \in Nat, \A c \in S : Info[c].this <= b
  PROVE  \E c \in S : \A d \in S : Info[d].this <= Info[c].this
<1> DEFINE Bounds == {n \in Nat : \A c \in S : Info[c].this <= n}
           R == OpToRel(<, Nat)
<1>1. Bounds \subseteq Nat /\ b \in Bounds
  OBVIOUS
<1>2. PICK n \in Bounds : \A m \in Bounds : ~(<<m, n>> \in R)
  <2> HIDE DEF R, Bounds
  <2>1. IsWellFoundedOn(R, Nat)
    BY NatLessThanWellFounded DEF R
  <2> QED
    BY <1>1, <2>1, WFMin
<1>3. \A m \in Bounds : ~(m < n)
  BY <1>1, <1>2 DEF OpToRel
<1> HIDE DEF R
<1>4. CASE \E c \in S : Info[c].this = n
  BY <1>4
<1>5. CASE \A c \in S : Info[c].this # n
  <2>1. PICK c \in S : TRUE
    OBVIOUS
  <2>2. \A d \in S : Info[d].this < n
    BY <1>1, <1>5
  <2>3. n - 1 \in Bounds
    BY <1>1, <2>1, <2>2
  <2> QED
    BY <1>1, <1>3, <2>3
<1> QED
  BY <1>4, <1>5

\* The tables and the analyses stay well formed; an analysis that is not at a
\* CRL never holds the gate.
THEOREM TypeCorrect == Spec => []TypeOK
<1>1. IndInv => TypeOK
  <2> SUFFICES ASSUME IndInv PROVE TypeOK
    OBVIOUS
  <2>1. ASSUME NEW a \in Analyses
        PROVE  /\ an[a].pc \in PCs
               /\ an[a].crl \in CRLs \cup {None}
               /\ an[a].pc \in {"process", "save3", "save5"} => an[a].crl # None
               /\ an[a].rev \in [Certs -> {"none", "revoked", "not_revoked"}]
               /\ an[a].out \in {"none", "ok", "warn", "error", "invalid", "failed"}
               /\ an[a].pc \in {"idle", "cert", "cached", "fetch", "verdict"} => gate # a
    <3>1. an[a] \in AnRec /\ Fine(an[a]) /\ SharedOf(a)
      BY OneAnalysis
    <3>2. an[a].pc \in {"process", "save3", "save5"} => an[a].crl # None
      BY <3>1, NoneAssumption DEF Fine, HoldsCRL, InHand, Gated, Saving
    <3>3. an[a].pc \in {"idle", "cert", "cached", "fetch", "verdict"} => gate # a
      BY <3>1 DEF SharedOf, Gated, Saving
    <3> QED
      BY <3>1, <3>2, <3>3 DEF AnRec
  <2> QED
    BY <2>1 DEF IndInv, TableInv, LatestInv, TypeOK
<1> QED
  BY <1>1, Inductive, PTL

\* Status says "ok" only when signed, current and applicable evidence shows every
\* checked certificate unrevoked, and none that was looked at shows one revoked.
THEOREM OkIsSound == Spec => []VerdictSound
<1>1. IndInv => VerdictSound
  <2> SUFFICES ASSUME IndInv, NEW a \in Analyses, an[a].out = "ok"
               PROVE  Sound(an[a])
    BY DEF VerdictSound, Sound
  <2>1. Outcome(an[a])
    BY OneAnalysis DEF Fine
  <2> QED
    BY <2>1 DEF Outcome
<1> QED
  BY <1>1, Inductive, PTL

\* processCRL, doAnalyzeCRL and the OCSP check save nothing that is not signed, or
\* whose CA has not been anchored in a trusted root since the analysis began.
THEOREM StoreIsVetted == Spec => StoreVetted
<1> DEFINE Vets == /\ \A c \in crls' \ crls :
                        Info[c].genuine /\ \E a \in vetted : At(a, "save3") /\ an[a].crl = c
                   /\ \A r \in ocsp' \ ocsp :
                        r.signed /\ \E a \in vetted : At(a, "ocspInsert") /\ an[a].resp = r
<1>1. ASSUME IndInv, [Next]_vars PROVE [Vets]_vars
  <2>1. ASSUME NEW a \in Analyses, InsertCRL(a) PROVE Vets
    BY <1>1, <2>1, SaveEffect DEF InsertCRL
  <2>2. ASSUME NEW a \in Analyses, InsertOCSP(a) PROVE Vets
    <3>1. Fine(an[a]) /\ SharedOf(a) /\ an[a].pc = "ocspInsert"
      BY <1>1, <2>2, OneAnalysis DEF InsertOCSP, At
    <3>2. a \in vetted /\ an[a].resp.signed
      BY <3>1 DEF SharedOf, Fine, HoldsResponse, OCSPSaving
    <3> QED
      BY <2>2, <3>2 DEF InsertOCSP
  \* No other statement adds a row.
  <2>3. CASE crls' \subseteq crls /\ ocsp' \subseteq ocsp
    BY <2>3
  <2>4. ASSUME NEW a \in Analyses, Step(a)
        PROVE  \/ InsertCRL(a) \/ InsertOCSP(a)
               \/ crls' \subseteq crls /\ ocsp' \subseteq ocsp
    BY <2>4 DEF Step, tables, NextCert, Abort, CachedSize, CachedDone, Fetch, NoFetch, FetchDone,
                StoreLookup, NotInStore, Open, OpenFails, Read, ReadFails, Process, Close,
                DeleteExpired, DeleteUnmapped, MapURL, DeleteOlder, SaveFails, SkipOCSP, NoOCSP,
                OCSPResult, ResolveOCSP, DeleteOCSP, SaveOCSPFails, Verdict
  <2> QED
    BY <1>1, <2>1, <2>2, <2>3, <2>4
       DEF Next, Begin, BeginUpload, Tick, ToggleTrust, Crash, tables, vars
<1> QED
  BY <1>1, Inductive, PTL DEF Spec, StoreVetted

\* However the statements of concurrent SaveCRL calls interleave, fail or are cut
\* off, FindFreshCRLByIssuer does not fall back behind the newest CRL saved.
THEOREM LatestIsKept == Spec => []LatestKept
<1>1. IndInv => LatestKept
  <2> SUFFICES ASSUME IndInv, NEW i \in Issuers, latest[i] # None, FreshRow(latest[i])
               PROVE  /\ FreshCRLsByIssuer(i) # {}
                      /\ \A c \in FreshCRLsByIssuer(i) : Info[c].this >= Info[latest[i]].this
    BY DEF LatestKept
  <2> DEFINE S == {c \in crls : Info[c].issuer = i /\ FreshRow(c)}
  <2>1. latest[i] \in S
    BY DEF IndInv, LatestInv
  <2>2. PICK b \in Nat : \A c \in S : Info[c].this <= b
    BY DEF IndInv, TableInv
  <2>3. \A c \in S : Info[c].this \in Nat
    BY InfoAssumption DEF IndInv, TableInv
  <2>4. FreshCRLsByIssuer(i) = {c \in S : \A d \in S : Info[d].this <= Info[c].this}
    BY DEF FreshCRLsByIssuer
  <2> HIDE DEF S
  <2>5. \E c \in S : \A d \in S : Info[d].this <= Info[c].this
    BY <2>1, <2>2, <2>3, NewestExists
  <2> QED
    BY <2>1, <2>3, <2>4, <2>5
<1> QED
  BY <1>1, Inductive, PTL
=============================================================================
