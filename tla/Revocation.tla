----------------------------- MODULE Revocation -----------------------------
(***************************************************************************)
(* How certview decides whether the certificates of a chain are revoked:   *)
(* the revocation loop and the verdict of analyzeData, the upload of a CRL *)
(* (doAnalyzeCRL), and the CRL and OCSP tables of internal/store that all  *)
(* analyses share.  One SQL statement, one fetch and one wait for the CRL  *)
(* memory gate are steps of their own; the rest of an analysis is local.   *)
(*                                                                         *)
(* A CRL is known by what the code asks about it (Info): its issuer,       *)
(* whether a CA of the chain that may sign CRLs signed it, which           *)
(* certificates it lists, its issuingDistributionPoint, whether it is a    *)
(* delta CRL, its dates, and whether it is above bigCRLSize.  about is     *)
(* what the code cannot ask: the certificates it would list if they were   *)
(* revoked.  How the gate is shared with the analysis slots is             *)
(* AnalysisGuard's subject.                                                *)
(***************************************************************************)
EXTENDS Naturals, Sequences, FiniteSets

CONSTANTS Analyses,
          Chain,       \* the non-root certificates of the chain, leaf first
          CDPURLs,     \* [certificate -> the URLs of its CDPs, usable or not]
          CDP,         \* [certificate -> its usable (http) CDP URLs]
          CAs,         \* certificates that are a CA's
          HasOCSP,     \* certificates that name an OCSP responder
          CRLs, Info,  \* the CRLs that exist and what they say
          Serves,      \* [URL -> the CRLs its server may answer with]
          Responses,   \* the OCSP responses that exist
          IssuerOf,    \* [certificate -> the name of its issuer]
          None,
          MaxTime, MaxRuns   \* bounds: clock, analyses begun

Certs == {Chain[i] : i \in DOMAIN Chain}
URLs == DOMAIN Serves

ASSUME InfoAssumption ==
  \A c \in CRLs :
    /\ Info[c].issuer \in STRING /\ Info[c].lists \subseteq Certs /\ Info[c].about \subseteq Certs
    /\ {Info[c].genuine, Info[c].delta, Info[c].idp.present, Info[c].big} \subseteq BOOLEAN
    /\ Info[c].this \in Nat /\ Info[c].next \in Nat
ASSUME ResponsesAssumption ==
  Responses \subseteq [cert : Certs, signed : BOOLEAN, this : Nat, next : Nat,
                       status : {"good", "revoked", "unknown"}]
ASSUME ChainAssumption == Chain \in Seq(Certs)
ASSUME CDPAssumption ==
  \A c \in Certs : CDP[c] \in Seq(URLs) /\ \A i \in DOMAIN CDP[c] : CDP[c][i] \in CDPURLs[c]
ASSUME BoundsAssumption == MaxTime \in Nat \ {0} /\ MaxRuns \in Nat
ASSUME NoneAssumption == None \notin CRLs \cup URLs \cup Analyses

\* The scope of a CRL (RFC 5280, 5.2.5): the certificates of its issuer, less the
\* ones its issuingDistributionPoint leaves to other CRLs.
InScope(c, cert) ==
  /\ Info[c].issuer = IssuerOf[cert] /\ ~Info[c].delta
  /\ Info[c].idp.present =>
       LET f == Info[c].idp.fields
           present == DOMAIN f
       IN  /\ Info[c].idp.wellFormed
           /\ "reasons" \notin present
           /\ \A t \in present \cap {"attr", "indirect"} : f[t] # TRUE
           /\ "user" \in present /\ cert \in CAs => f["user"] # TRUE
           /\ "ca" \in present /\ cert \notin CAs => f["ca"] # TRUE
           /\ "point" \in present => \E u \in CDPURLs[cert] : u \in f["point"]

\* What a CA promises by its signature: a CRL lists the revoked ones of its scope.
ASSUME ScopeAssumption ==
  \A c \in CRLs, cert \in Certs :
    Info[c].genuine /\ InScope(c, cert) => cert \in Info[c].about

VARIABLES crls,      \* table crls
          crlURLs,   \* table crl_urls
          ocsp,      \* table ocsp_responses
          now,
          anchored,  \* the CA of the chain verifies to a trusted root
          gate,      \* the bigCRL channel: who holds it
          an,        \* the analyses
          runs,
          latest,    \* newest CRL whose SaveCRL has returned, by issuer (history)
          vetted     \* analyses since whose beginning the CA was anchored (history)

vars == <<crls, crlURLs, ocsp, now, anchored, gate, an, runs, latest, vetted>>
tables == <<crls, crlURLs, ocsp, latest>>
world == <<now, anchored, runs, vetted>>

Issuers == {Info[c].issuer : c \in CRLs}

PCs == {"idle", "cert", "cached", "open", "read", "process", "save1", "save2",
        "save3", "save4", "save5", "close", "fetch", "store", "ocsp", "ocspResult",
        "ocspSave", "ocspInsert", "verdict"}

\* An analysis: where it is, the CRL or response it works on, its findings.
Idle ==
  [pc |-> "idle", at |-> 1, pass |-> "cached", urls |-> <<>>, cachedOK |-> {},
   url |-> None, big |-> FALSE, crl |-> None, resp |-> None, fetched |-> FALSE,
   rev |-> [c \in Certs |-> "none"], out |-> "none", seen |-> {}]

TypeOK ==
  /\ crls \subseteq CRLs
  /\ crlURLs \in [URLs -> CRLs \cup {None}]
  /\ ocsp \subseteq Responses
  /\ now \in 1..MaxTime
  /\ anchored \in BOOLEAN /\ vetted \subseteq Analyses
  /\ gate \in Analyses \cup {None}
  /\ latest \in [Issuers -> CRLs \cup {None}]
  /\ \A a \in Analyses :
       /\ an[a].pc \in PCs
       /\ an[a].crl \in CRLs \cup {None}
       /\ an[a].pc \in {"process", "save3", "save5"} => an[a].crl # None
       /\ an[a].rev \in [Certs -> {"none", "revoked", "not_revoked"}]
       /\ an[a].out \in {"none", "ok", "warn", "error", "invalid", "failed"}
       /\ an[a].pc \in {"idle", "cert", "cached", "fetch", "verdict"} => gate # a

Init ==
  /\ crls = {}
  /\ crlURLs = [u \in URLs |-> None]
  /\ ocsp = {}
  /\ now = 1
  /\ anchored = FALSE /\ vetted = {}
  /\ gate = None
  /\ an = [a \in Analyses |-> Idle]
  /\ runs = 0
  /\ latest = [i \in Issuers |-> None]

-----------------------------------------------------------------------------
(***************************************************************************)
(* Reading the tables and judging what they hold.  An operator named       *)
(* Bug... is a plausible defect of the definition that follows it, used    *)
(* only as its mutant.                                                     *)
(***************************************************************************)

\* next_update > now; a CRL without nextUpdate is stored with a date long past.
FreshRow(c) == Info[c].next > now

\* FreshCRLSize and FindFreshCRL: crl_urls joined with crls.
FreshCRL(u) ==
  IF crlURLs[u] \in crls /\ FreshRow(crlURLs[u]) THEN crlURLs[u] ELSE None

\* FindFreshCRLByIssuer: any newest one.
FreshCRLsByIssuer(i) ==
  LET fresh == {c \in crls : Info[c].issuer = i /\ FreshRow(c)}
  IN  {c \in fresh : \A d \in fresh : Info[d].this <= Info[c].this}

\* FindFreshOCSP.
FreshOCSP(c) ==
  LET fresh == {r \in ocsp : r.cert = c /\ (r.next = 0 \/ r.next > now)}
  IN  {r \in fresh : \A s \in fresh : s.this <= r.this}

\* processCRL: signature and dates.
InDates(c) == Info[c].this <= now /\ (Info[c].next = 0 \/ now <= Info[c].next)

Authoritative(c) == Info[c].genuine /\ InDates(c)

\* parseIDPValue: fields are the fields present, by their tags; the point is its
\* fullName's URIs, none for a name relative to the issuer.
Scope(fields) ==
  LET flag(t) == t \in DOMAIN fields /\ fields[t] = TRUE IN
  [hasDP |-> "point" \in DOMAIN fields,
   uris |-> IF "point" \in DOMAIN fields THEN fields["point"] ELSE {},
   onlyUser |-> flag("user"), onlyCA |-> flag("ca"), onlyAttr |-> flag("attr"),
   someReasons |-> "reasons" \in DOMAIN fields, indirect |-> flag("indirect")]

Bugcovers(i, cert) ==
  ~(i.someReasons \/ i.indirect \/ i.onlyAttr \/ (i.onlyUser /\ cert \in CAs)
    \/ (i.onlyCA /\ cert \notin CAs))

\* idpScope.covers
covers(i, cert) ==
  /\ ~(i.someReasons \/ i.indirect \/ i.onlyAttr)
  /\ i.onlyUser => cert \notin CAs
  /\ i.onlyCA => cert \in CAs
  /\ i.hasDP => i.uris \cap CDPURLs[cert] # {}

\* CRLInfo.Covers: whether the CRL shows a certificate it does not list unrevoked.
Covers(c, cert) ==
  LET i == Info[c] IN
  /\ i.issuer = IssuerOf[cert] /\ ~i.delta
  /\ i.idp.present => i.idp.wellFormed /\ covers(Scope(i.idp.fields), cert)

\* What an authoritative CRL shows of a certificate.
Shown(c, cert) ==
  CASE cert \in Info[c].lists -> "revoked"
    [] cert \notin Info[c].lists /\ Covers(c, cert) -> "not_revoked"
    [] OTHER -> "none"

\* ParseOCSPResponse: signature and validity period.
Verified(r) == r.signed /\ r.this <= now /\ (r.next = 0 \/ now <= r.next)

OCSPShown(r) ==
  CASE Verified(r) /\ r.status = "revoked" -> "revoked"
    [] Verified(r) /\ r.status = "good"    -> "not_revoked"
    [] OTHER                               -> "none"

Cert(a) == Chain[an[a].at]
Decided(a) == an[a].rev[Cert(a)] # "none"
At(a, l) == an[a].pc = l
Goto(a, l) == an' = [an EXCEPT ![a].pc = l]

-----------------------------------------------------------------------------
(***************************************************************************)
(* The revocation loop                                                     *)
(***************************************************************************)

Begin(a) ==
  /\ At(a, "idle")
  /\ runs < MaxRuns
  /\ runs' = runs + 1
  /\ an' = [an EXCEPT ![a] = [Idle EXCEPT !.pc = "cert"]]
  /\ vetted' = IF anchored THEN vetted \cup {a} ELSE vetted \ {a}
  /\ UNCHANGED <<tables, now, anchored, gate>>

\* The loop goes on with the next certificate of the chain.
Advanced(a) ==
  [an[a] EXCEPT !.pc = "cert", !.at = @ + 1, !.pass = "cached", !.urls = <<>>,
                !.cachedOK = {}, !.resp = None, !.fetched = FALSE]

HasSource(c) == CDPURLs[c] # {} \/ c \in HasOCSP

NextCert(a) ==
  /\ At(a, "cert")
  /\ an' = [an EXCEPT ![a] =
       CASE an[a].at > Len(Chain) -> [@ EXCEPT !.pc = "verdict"]
         [] an[a].at <= Len(Chain) /\ HasSource(Cert(a)) ->
              [@ EXCEPT !.pc = "cached", !.urls = CDP[Cert(a)], !.cachedOK = {}]
         [] OTHER -> Advanced(a)]
  /\ UNCHANGED <<tables, world, gate>>

\* ctx.Err() at one of the checks: analyzeData returns the error.
Abort(a) ==
  /\ an[a].pc \in {"cert", "cached", "fetch", "verdict"}
  /\ an' = [an EXCEPT ![a] = [Idle EXCEPT !.out = "failed"]]
  /\ UNCHANGED <<tables, world, gate>>

\* cachedCRL begins: the size of the fresh CRL stored for the URL, if any.
CachedSize(a) ==
  LET c == FreshCRL(Head(an[a].urls)) IN
  /\ At(a, "cached")
  /\ an[a].urls # <<>> /\ ~Decided(a)
  /\ an' = [an EXCEPT ![a] =
       IF c = None THEN [@ EXCEPT !.urls = Tail(an[a].urls)]
       ELSE [@ EXCEPT !.pc = "open", !.pass = "cached", !.url = Head(an[a].urls),
                      !.big = Info[c].big]]
  /\ UNCHANGED <<tables, world, gate>>

CachedDone(a) ==
  /\ At(a, "cached")
  /\ an[a].urls = <<>> \/ Decided(a)
  /\ an' = [an EXCEPT ![a].pc = "fetch", ![a].urls = CDP[Cert(a)]]
  /\ UNCHANGED <<tables, world, gate>>

\* fetchCRL returns the bytes of c.
Fetch(a, c) ==
  LET u == Head(an[a].urls) IN
  /\ At(a, "fetch")
  /\ an[a].urls # <<>> /\ ~Decided(a)
  /\ u \notin an[a].cachedOK
  /\ c \in Serves[u]
  /\ an' = [an EXCEPT ![a].pc = "open", ![a].pass = "fetch", ![a].url = u,
                      ![a].crl = c, ![a].big = Info[c].big]
  /\ UNCHANGED <<tables, world, gate>>

\* The fetch fails, or the cached copy was authoritative already.
NoFetch(a) ==
  /\ At(a, "fetch")
  /\ an[a].urls # <<>> /\ ~Decided(a)
  /\ an' = [an EXCEPT ![a].urls = Tail(@)]
  /\ UNCHANGED <<tables, world, gate>>

FetchDone(a) ==
  /\ At(a, "fetch")
  /\ an[a].urls = <<>> \/ Decided(a)
  /\ Goto(a, "store")
  /\ UNCHANGED <<tables, world, gate>>

StoreLookup(a, c) ==
  /\ At(a, "store") /\ ~Decided(a)
  /\ c \in FreshCRLsByIssuer(IssuerOf[Cert(a)])
  /\ an' = [an EXCEPT ![a].pc = "open", ![a].pass = "store", ![a].crl = c,
                      ![a].big = Info[c].big]
  /\ UNCHANGED <<tables, world, gate>>

NotInStore(a) ==
  /\ At(a, "store")
  /\ Decided(a) \/ FreshCRLsByIssuer(IssuerOf[Cert(a)]) = {}
  /\ Goto(a, "ocsp")
  /\ UNCHANGED <<tables, world, gate>>

\* A CRL is uploaded: analyzeData opens it first.
BeginUpload(a, c) ==
  /\ At(a, "idle")
  /\ runs < MaxRuns
  /\ runs' = runs + 1
  /\ an' = [an EXCEPT ![a] = [Idle EXCEPT !.pc = "open", !.pass = "upload", !.crl = c,
                                          !.big = Info[c].big]]
  /\ vetted' = IF anchored THEN vetted \cup {a} ELSE vetted \ {a}
  /\ UNCHANGED <<tables, now, anchored, gate>>

-----------------------------------------------------------------------------
(***************************************************************************)
(* openCRL, processCRL, closeCRL: one CRL, whatever pass it came from      *)
(***************************************************************************)

\* Where an analysis goes on when it is through with a CRL.
Through(a) ==
  LET x == [an[a] EXCEPT !.crl = None, !.url = None, !.big = FALSE] IN
  [an EXCEPT ![a] =
     CASE x.pass \in {"cached", "fetch"} -> [x EXCEPT !.pc = x.pass, !.urls = Tail(x.urls)]
       [] x.pass = "store"  -> [x EXCEPT !.pc = "ocsp"]
       [] x.pass = "upload" -> Idle]

BugReleased(a) == gate

Released(a) == IF gate = a THEN None ELSE gate

\* acquireCRLMemory: only a CRL above bigCRLSize needs the gate.
Open(a) ==
  /\ At(a, "open")
  /\ an[a].big => gate = None
  /\ gate' = IF an[a].big THEN a ELSE gate
  /\ Goto(a, "read")
  /\ UNCHANGED <<tables, world>>

\* The context ends while the analysis waits for the gate: whatever it still
\* looks at, the next check of ctx.Err() ends it.
OpenFails(a) ==
  /\ At(a, "open") /\ an[a].big
  /\ an' = [an EXCEPT ![a] = [Idle EXCEPT !.out = "failed"]]
  /\ UNCHANGED <<tables, world, gate>>

\* ParseCRL; cachedCRL reads the bytes only now.
Read(a) ==
  LET c == IF an[a].pass = "cached" THEN FreshCRL(an[a].url) ELSE an[a].crl IN
  /\ At(a, "read")
  /\ c # None
  /\ an' = [an EXCEPT ![a].pc = "process", ![a].crl = c]
  /\ UNCHANGED <<tables, world, gate>>

\* The cached row is gone or expired, or the bytes are no CRL.
ReadFails(a) ==
  /\ At(a, "read")
  /\ an[a].pass # "upload"
  /\ an' = Through(a)
  /\ gate' = Released(a)
  /\ UNCHANGED <<tables, world>>

BugSavable(a, failed) ==
  an[a].pass = "fetch" /\ Authoritative(an[a].crl) /\ ~failed

\* processCRL saves what it fetched, doAnalyzeCRL what verified and is current,
\* if the issuer chains to a trusted root.
Savable(a, failed) ==
  LET c == Info[an[a].crl] IN
  /\ anchored
  /\ ~failed
  /\ \/ an[a].pass = "fetch" /\ Authoritative(an[a].crl)
     \/ an[a].pass = "upload" /\ c.genuine /\ (c.next = 0 \/ now <= c.next)

\* failed: crl.Verify or crl.IsRevoked reports an error, or no CA of the pool
\* has the issuer's name; the CRL then decides nothing and is not saved.
Process(a, failed) ==
  LET c == an[a].crl
      auth == Authoritative(c) /\ ~failed
  IN
  /\ At(a, "process")
  /\ an' = [an EXCEPT
       ![a].pc = IF Savable(a, failed) THEN "save1" ELSE "close",
       ![a].rev = IF an[a].pass # "upload" /\ auth
                  THEN [@ EXCEPT ![Cert(a)] = Shown(c, Cert(a))] ELSE @,
       ![a].cachedOK = IF an[a].pass = "cached" /\ auth THEN @ \cup {an[a].url} ELSE @,
       ![a].seen = IF an[a].pass = "upload" \/ failed THEN @
                   ELSE @ \cup {[cert |-> Cert(a), crl |-> c, at |-> now]}]
  /\ UNCHANGED <<tables, world, gate>>

Close(a) ==
  /\ At(a, "close")
  /\ an' = Through(a)
  /\ gate' = Released(a)
  /\ UNCHANGED <<tables, world>>

-----------------------------------------------------------------------------
(***************************************************************************)
(* SaveCRL, one statement at a time; a statement that fails ends it        *)
(***************************************************************************)

DeleteExpired(a) ==
  /\ At(a, "save1")
  /\ crls' = {c \in crls : Info[c].next >= now}
  /\ Goto(a, "save2")
  /\ UNCHANGED <<crlURLs, ocsp, latest, world, gate>>

DeleteUnmapped(a) ==
  /\ At(a, "save2")
  /\ crlURLs' = [u \in URLs |->
       IF crlURLs[u] \in crls /\ Info[crlURLs[u]].next >= now THEN crlURLs[u] ELSE None]
  /\ Goto(a, "save3")
  /\ UNCHANGED <<crls, ocsp, latest, world, gate>>

InsertCRL(a) ==
  /\ At(a, "save3")
  /\ crls' = crls \cup {an[a].crl}
  /\ Goto(a, IF an[a].pass = "fetch" THEN "save4" ELSE "save5")
  /\ UNCHANGED <<crlURLs, ocsp, latest, world, gate>>

MapURL(a) ==
  /\ At(a, "save4")
  /\ crlURLs' = [crlURLs EXCEPT ![an[a].url] = an[a].crl]
  /\ Goto(a, "save5")
  /\ UNCHANGED <<crls, ocsp, latest, world, gate>>

BugOlder(c) == {d \in crls : /\ Info[d].issuer = Info[c].issuer /\ d # c
                             /\ \A u \in URLs : crlURLs[u] # d}

\* The rows the last statement drops.
Older(c) == {d \in crls : /\ Info[d].issuer = Info[c].issuer
                          /\ Info[d].this < Info[c].this
                          /\ \A u \in URLs : crlURLs[u] # d}

Newest(c, d) == IF d = None \/ Info[d].this < Info[c].this THEN c ELSE d

DeleteOlder(a) ==
  LET c == an[a].crl IN
  /\ At(a, "save5")
  /\ crls' = crls \ Older(c)
  /\ latest' = [latest EXCEPT ![Info[c].issuer] = Newest(c, @)]
  /\ Goto(a, "close")
  /\ UNCHANGED <<crlURLs, ocsp, world, gate>>

SaveFails(a) ==
  /\ an[a].pc \in {"save1", "save2", "save3", "save4", "save5"}
  /\ Goto(a, "close")
  /\ UNCHANGED <<tables, world, gate>>

-----------------------------------------------------------------------------
(***************************************************************************)
(* OCSP                                                                    *)
(***************************************************************************)

\* No OCSP check: the CRLs decided, or the certificate names no responder.
SkipOCSP(a) ==
  /\ At(a, "ocsp")
  /\ Decided(a) \/ Cert(a) \notin HasOCSP
  /\ an' = [an EXCEPT ![a] = Advanced(a)]
  /\ UNCHANGED <<tables, world, gate>>

\* resolveOCSP: the cached response or one a responder sends; one that does
\* not parse is passed over.
ResolveOCSP(a, r, fetched) ==
  /\ At(a, "ocsp") /\ ~Decided(a) /\ Cert(a) \in HasOCSP
  /\ r.cert = Cert(a)
  /\ fetched \/ r \in FreshOCSP(Cert(a))
  /\ an' = [an EXCEPT ![a].pc = "ocspResult", ![a].resp = r, ![a].fetched = fetched]
  /\ UNCHANGED <<tables, world, gate>>

NoOCSP(a) ==
  /\ At(a, "ocsp") /\ ~Decided(a) /\ Cert(a) \in HasOCSP
  /\ an' = [an EXCEPT ![a] = Advanced(a)]
  /\ UNCHANGED <<tables, world, gate>>

OCSPResult(a) ==
  LET r == an[a].resp
      keep == an[a].fetched /\ Verified(r) /\ r.next # 0 /\ anchored
      next == IF keep THEN [an[a] EXCEPT !.pc = "ocspSave"] ELSE Advanced(a)
  IN
  /\ At(a, "ocspResult")
  /\ an' = [an EXCEPT ![a] =
       [next EXCEPT
          !.rev = [an[a].rev EXCEPT ![Cert(a)] = OCSPShown(r)],
          !.seen = an[a].seen \cup {[cert |-> Cert(a), ocsp |-> r, at |-> now]}]]
  /\ UNCHANGED <<tables, world, gate>>

\* SaveOCSP, first statement.
DeleteOCSP(a) ==
  /\ At(a, "ocspSave")
  /\ ocsp' = {r \in ocsp : r.cert # Cert(a) /\ (r.next = 0 \/ r.next >= now)}
  /\ Goto(a, "ocspInsert")
  /\ UNCHANGED <<crls, crlURLs, latest, world, gate>>

InsertOCSP(a) ==
  /\ At(a, "ocspInsert")
  /\ ocsp' = ocsp \cup {an[a].resp}
  /\ an' = [an EXCEPT ![a] = Advanced(a)]
  /\ UNCHANGED <<crls, crlURLs, latest, world, gate>>

SaveOCSPFails(a) ==
  /\ an[a].pc \in {"ocspSave", "ocspInsert"}
  /\ an' = [an EXCEPT ![a] = Advanced(a)]
  /\ UNCHANGED <<tables, world, gate>>

-----------------------------------------------------------------------------
(***************************************************************************)
(* The verdict, and the world around the analyses                          *)
(***************************************************************************)

Checked == {c \in Certs : HasSource(c)}

\* Verify.Status of a chain that OpenSSL verified.
Status(rev) ==
  CASE \E c \in Checked : rev[c] = "revoked"     -> "error"
    [] \A c \in Checked : rev[c] = "not_revoked" -> "ok"
    [] OTHER                                     -> "warn"

Verdict(a) ==
  /\ At(a, "verdict")
  /\ \E chainOK \in BOOLEAN :
       an' = [an EXCEPT ![a] =
                [Idle EXCEPT !.out = IF chainOK THEN Status(an[a].rev) ELSE "invalid",
                             !.seen = an[a].seen]]
  /\ UNCHANGED <<tables, world, gate>>

Tick ==
  /\ now < MaxTime
  /\ now' = now + 1
  /\ UNCHANGED <<tables, anchored, gate, an, runs, vetted>>

\* The administrator trusts or untrusts the root above the chain's CA.
ToggleTrust ==
  /\ anchored' = ~anchored
  /\ vetted' = IF anchored THEN vetted ELSE Analyses
  /\ UNCHANGED <<tables, now, gate, an, runs>>

\* The process is restarted, by its watchdog or otherwise.
Crash ==
  /\ an' = [a \in Analyses |-> Idle]
  /\ gate' = None
  /\ UNCHANGED <<tables, world>>

Step(a) ==
  \/ NextCert(a) \/ Abort(a)
  \/ CachedSize(a) \/ CachedDone(a)
  \/ (\E c \in CRLs : Fetch(a, c)) \/ NoFetch(a) \/ FetchDone(a)
  \/ (\E c \in CRLs : StoreLookup(a, c)) \/ NotInStore(a)
  \/ Open(a) \/ OpenFails(a) \/ Read(a) \/ ReadFails(a)
  \/ (\E failed \in BOOLEAN : Process(a, failed)) \/ Close(a)
  \/ DeleteExpired(a) \/ DeleteUnmapped(a) \/ InsertCRL(a) \/ MapURL(a)
  \/ DeleteOlder(a) \/ SaveFails(a)
  \/ SkipOCSP(a) \/ NoOCSP(a) \/ OCSPResult(a)
  \/ (\E r \in Responses, fetched \in BOOLEAN : ResolveOCSP(a, r, fetched))
  \/ DeleteOCSP(a) \/ InsertOCSP(a) \/ SaveOCSPFails(a)
  \/ Verdict(a)

Next ==
  \/ \E a \in Analyses : \/ Begin(a)
                         \/ \E c \in CRLs : BeginUpload(a, c)
                         \/ Step(a)
  \/ Tick \/ ToggleTrust \/ Crash

Spec == Init /\ [][Next]_vars

\* Goroutines run, and the gate's channel wakes its waiters in FIFO order.
FairSpec == Spec /\ \A a \in Analyses : WF_vars(Step(a)) /\ SF_vars(Open(a))

-----------------------------------------------------------------------------
(***************************************************************************)
(* Properties                                                              *)
(***************************************************************************)

\* What a piece of evidence proves of its certificate, judged independently of
\* the code: signed, within its dates when it was used, and in scope.
ShowsGood(e) ==
  IF "crl" \in DOMAIN e
  THEN /\ Info[e.crl].genuine
       /\ Info[e.crl].this <= e.at /\ (Info[e.crl].next = 0 \/ e.at <= Info[e.crl].next)
       /\ e.cert \in Info[e.crl].about \ Info[e.crl].lists
  ELSE /\ e.ocsp.signed /\ e.ocsp.status = "good"
       /\ e.ocsp.this <= e.at /\ (e.ocsp.next = 0 \/ e.at <= e.ocsp.next)

ShowsRevoked(e) ==
  IF "crl" \in DOMAIN e
  THEN /\ Info[e.crl].genuine
       /\ Info[e.crl].this <= e.at /\ (Info[e.crl].next = 0 \/ e.at <= Info[e.crl].next)
       /\ e.cert \in Info[e.crl].lists
  ELSE /\ e.ocsp.signed /\ e.ocsp.status = "revoked"
       /\ e.ocsp.this <= e.at /\ (e.ocsp.next = 0 \/ e.at <= e.ocsp.next)

\* A chain is reported ok only when every certificate that names a revocation
\* source was shown unrevoked, and nothing valid the analysis looked at, in the
\* cache, on the network or in the store, lists one of them.
VerdictSound ==
  \A a \in Analyses : an[a].out = "ok" =>
    /\ \A c \in Checked : \E e \in an[a].seen : e.cert = c /\ ShowsGood(e)
    /\ \A e \in an[a].seen : ~ShowsRevoked(e)

\* "an unverified CRL must not poison the store": whoever uploads or serves it,
\* a CRL or a response gets there only if it is signed and the CA was anchored in
\* a trusted root after the analysis that saves it had begun.  An untrust is
\* ignored by no analysis that begins later, only by a save under way.
StoreVetted ==
  [][/\ \A c \in crls' \ crls :
          Info[c].genuine /\ \E a \in vetted : At(a, "save3") /\ an[a].crl = c
     /\ \A r \in ocsp' \ ocsp :
          r.signed /\ \E a \in vetted : At(a, "ocspInsert") /\ an[a].resp = r]_vars

\* The fallback by issuer never goes back in time: as long as the newest CRL
\* saved for an issuer has not expired, FindFreshCRLByIssuer returns it or a
\* newer one, however many saves of other CRLs were interleaved, failed
\* half-way or were cut off by a crash.
LatestKept ==
  \A i \in Issuers :
    latest[i] # None /\ FreshRow(latest[i]) =>
      /\ FreshCRLsByIssuer(i) # {}
      /\ \A c \in FreshCRLsByIssuer(i) : Info[c].this >= Info[latest[i]].this

\* Every analysis ends, also one that waits for the CRL gate, and none ends
\* with the gate still taken, whichever of the passes it opened a CRL in.
AnalysisEnds ==
  \A a \in Analyses : an[a].pc # "idle" ~> an[a].pc = "idle" /\ gate # a

\* "CRLs above bigCRLSize are parsed and processed one at a time" (guard.go).
BigCRLHasGate ==
  \A a \in Analyses :
    an[a].pc = "process" /\ Info[an[a].crl].big => gate = a
=============================================================================
