---------------------------- MODULE ChainBuilder ----------------------------
(***************************************************************************)
(* How an analysis finds the issuers of a certificate: the loop of         *)
(* analyzeData with resolveIssuer and archiveIssuer, what is archived      *)
(* afterwards, the candidates that are offered to OpenSSL, and the walk of *)
(* chainsToTrust for the CA of an uploaded CRL.                            *)
(*                                                                         *)
(* One query, one download or one save is one action; between them other   *)
(* requests store certificates and the administrator changes trust.        *)
(* Queries succeed; downloads and saves may fail.                          *)
(***************************************************************************)
EXTENDS Naturals, FiniteSets, SequencesExt

CONSTANTS Certs,
          Info,       \* [Certs -> parsed certificate]
          Served,     \* http(s) URL -> responses: sequences of Certs and None
          Inputs,     \* [leaf, bag, link] of a request, or [crlCA]
          Tables,     \* [table, pool, trusted] a request may find
          None,       \* no certificate, no key id, or one that does not parse
          MaxChainDepth, MaxAIAURLs, MaxAIACerts, MaxAltCandidates, ArchiveSample,
          MaxChanges  \* bound on what others do meanwhile

ASSUME CertsAssumption == IsFiniteSet(Certs) /\ None \notin Certs

\* What parsing yields; the issuer of a self-signed certificate is its subject.
ASSUME InfoAssumption ==
  \A c \in Certs :
    /\ Info[c].selfSigned \in BOOLEAN /\ Info[c].valid \in BOOLEAN
    /\ Info[c].selfSigned => Info[c].issuer = Info[c].name
    /\ Info[c].aia \in Seq(ToSet(Info[c].aia))

ASSUME ServedAssumption == \A u \in DOMAIN Served : Served[u] \subseteq Seq(Certs \cup {None})

ASSUME InputsAssumption ==
  Inputs \subseteq [leaf : Certs, bag : Seq(Certs), link : BOOLEAN] \cup [crlCA : Certs]

ASSUME TablesAssumption ==
  \A t \in Tables : /\ t.table \in Seq(Certs) /\ IsInjective(t.table)
                    /\ t.pool \cup t.trusted \subseteq ToSet(t.table)

ASSUME BoundsAssumption ==
  /\ MaxChainDepth \in Nat \ {0}
  /\ {MaxAIAURLs, MaxAIACerts, MaxAltCandidates, ArchiveSample} \subseteq Nat

VARIABLES table,      \* certs, in the order of their ids
          pool,       \* rows with pool = 1
          trusted,    \* rows with trusted = 1
          input,
          pc,
          chain,      \* of [cert, src]
          bag,        \* of [cert, src]
          warnings,   \* kinds of resp.Warnings
          expired, archived, urls,   \* locals of resolveIssuer
          saves,      \* what is left to archive
          cands,      \* roots and intermediates
          alt,        \* the chain entry whose alternates come next
          names, seen, depth,        \* locals of chainsToTrust
          wrote,      \* certificates this analysis has written
          steady,     \* certificates in the pool all the time so far
          changes

vars == <<table, pool, trusted, input, pc, chain, bag, warnings, expired, archived,
          urls, saves, cands, alt, names, seen, depth, wrote, steady, changes>>
store == <<table, pool, trusted, wrote, steady, changes>>
resolver == <<expired, archived, urls>>
walk == <<names, seen, depth>>

IsUpload == "crlCA" \in DOMAIN input
Leaf == input.leaf
ChainCerts == {chain[i].cert : i \in DOMAIN chain}
BagCerts == {bag[i].cert : i \in DOMAIN bag}
SelfSigned(c) == Info[c].selfSigned
Entry(c, s) == [cert |-> c, src |-> s]
First(s, n) == SubSeq(s, 1, IF n < Len(s) THEN n ELSE Len(s))

\* The elements of s that are in S, in their order.
Only(s, S) ==
  LET kept[i \in 0..Len(s)] == IF i = 0 THEN <<>>
                               ELSE IF s[i] \in S THEN Append(kept[i - 1], s[i])
                               ELSE kept[i - 1]
  IN kept[Len(s)]

\* Certificates of a link are not stored.
Transient == IF IsUpload \/ ~input.link THEN {} ELSE {Leaf} \cup ToSet(input.bag)

TypeOK ==
  /\ IsInjective(table) /\ ToSet(table) \subseteq Certs
  /\ pool \cup trusted \subseteq ToSet(table)
  /\ pc \in {"save", "resolve", "aia", "fallback", "archive", "alternates",
             "verify", "walk", "done", "failed"}
  /\ warnings \subseteq {"loop", "depth", "issuer", "aia", "urls"}
  /\ Len(chain) =< MaxChainDepth
  /\ \A i, j \in DOMAIN chain : chain[i].cert = chain[j].cert => i = j
  /\ BagCerts \cup ToSet(archived) \cup ToSet(saves) \cup cands \subseteq Certs
  /\ expired \in Certs \cup {None}
  /\ steady \subseteq pool \cup trusted

-----------------------------------------------------------------------------
(***************************************************************************)
(* FindIssuers.  An operator named Bug... is a plausible defect of the     *)
(* definition that follows it, used only as its mutant.                    *)
(***************************************************************************)

\* poolCond
InPool(c) == c \in pool \cup trusted

Issues(c, name, aki) == Info[c].name = name /\ (aki = None \/ Info[c].ski = aki)

\* The pool matches, in their order: is_self_signed DESC, trusted DESC, id.
PoolIssuers(name, aki) ==
  LET Ranked(ss, tr) == Only(table, {c \in Certs : /\ Issues(c, name, aki) /\ InPool(c)
                                                   /\ SelfSigned(c) = ss
                                                   /\ (c \in trusted) = tr})
  IN First(Ranked(TRUE, TRUE) \o Ranked(TRUE, FALSE) \o
           Ranked(FALSE, TRUE) \o Ranked(FALSE, FALSE), MaxAltCandidates)

\* The oldest archived matches, then the newest that are not among them.
ArchivedIssuers(name, aki) ==
  LET others == Only(table, {c \in Certs : Issues(c, name, aki) /\ ~InPool(c)})
      oldest == First(others, ArchiveSample)
      newest == First(Reverse(others), ArchiveSample)
  IN oldest \o Only(newest, Certs \ ToSet(oldest))

\* poolIssuers
Named(name) == PoolIssuers(name, None)

\* Writes of this analysis: SaveCert, SavePoolCert.
Insert(new) == table' = table \o Only(new, Certs \ ToSet(table))

-----------------------------------------------------------------------------
(***************************************************************************)
(* The loop of analyzeData over resolveIssuer                              *)
(***************************************************************************)

Init ==
  /\ \E t \in Tables : table = t.table /\ pool = t.pool /\ trusted = t.trusted
  /\ input \in Inputs
  /\ IsUpload => InPool(input.crlCA)
  /\ pc = IF IsUpload THEN "walk" ELSE "save"
  /\ chain = IF IsUpload THEN <<>> ELSE <<Entry(Leaf, IF input.link THEN "link" ELSE "upload")>>
  /\ bag = IF IsUpload THEN <<>>
           ELSE [i \in DOMAIN input.bag |-> Entry(input.bag[i], IF input.link THEN "link" ELSE "tls")]
  /\ warnings = {}
  /\ expired = None /\ archived = <<>> /\ urls = <<>>
  /\ saves = <<>> /\ cands = {} /\ alt = 1
  /\ names = IF IsUpload THEN <<Info[input.crlCA].issuer>> ELSE <<>>
  /\ seen = {} /\ depth = 0
  /\ wrote = {} /\ steady = pool \cup trusted /\ changes = 0

\* The leaf is stored unless it comes in a link; a failure is logged.
SaveLeaf ==
  /\ pc = "save"
  /\ pc' = "resolve"
  /\ \/ /\ Leaf \notin Transient
        /\ Insert(<<Leaf>>)
        /\ wrote' = {Leaf}
     \/ UNCHANGED <<table, wrote>>
  /\ UNCHANGED <<pool, trusted, input, chain, bag, warnings, resolver, saves, cands, alt,
                 walk, steady, changes>>

Current == Last(chain).cert

Resolving == pc = "resolve" /\ ~SelfSigned(Current) /\ Len(chain) < MaxChainDepth

\* The request's context has ended.
Abort ==
  /\ Resolving \/ pc = "verify"
  /\ pc' = "failed"
  /\ UNCHANGED <<input, chain, bag, warnings, resolver, saves, cands, alt, walk, store>>

\* What is archived once the chain stands: the chain, and what the site sent.
BugToArchive ==
  LET Certificates(s) == [i \in DOMAIN s |-> s[i].cert]
  IN Certificates(Tail(chain)) \o Certificates(First(bag, MaxChainDepth))

ToArchive ==
  LET Certificates(s) == [i \in DOMAIN s |-> s[i].cert]
      Sent == Only(bag, {b \in ToSet(bag) : b.src = "tls"})
  IN Only(Certificates(Tail(chain)), Certs \ Transient)
       \o Certificates(First(Sent, MaxChainDepth))

LeaveLoop == pc' = "archive" /\ saves' = ToArchive

BugLooped(c) == Current = c

Looped(c) == c \in ChainCerts

\* The issuer resolveIssuer has returned: a loop is reported, or it is appended.
Extend(c, s) ==
  /\ expired' = None /\ archived' = <<>> /\ urls' = <<>>
  /\ \/ /\ Looped(c)
        /\ warnings' = warnings \cup {"loop"}
        /\ LeaveLoop
        /\ UNCHANGED chain
     \/ /\ ~Looped(c)
        /\ chain' = Append(chain, Entry(c, s))
        /\ pc' = "resolve"
        /\ UNCHANGED <<warnings, saves>>

BagMatches ==
  Only(bag, {b \in ToSet(bag) : IF Info[Current].aki # None
                                THEN Info[b.cert].ski = Info[Current].aki
                                ELSE Info[b.cert].name = Info[Current].issuer})

\* 1. Certificates this analysis already holds.
MatchBag ==
  /\ Resolving
  /\ BagMatches # <<>>
  /\ Extend(Head(BagMatches).cert, Head(BagMatches).src)
  /\ UNCHANGED <<input, bag, cands, alt, walk, store>>

OfPool(v) ==
  Only(PoolIssuers(Info[Current].issuer, Info[Current].aki), {c \in Certs : Info[c].valid = v})

\* 2. A currently valid pool certificate.
MatchPool ==
  /\ Resolving
  /\ BagMatches = <<>> /\ OfPool(TRUE) # <<>>
  /\ Extend(Head(OfPool(TRUE)), "cache")
  /\ UNCHANGED <<input, bag, cands, alt, walk, store>>

\* None: the expired and archived ones are remembered, for after AIA.
MissPool ==
  /\ Resolving
  /\ BagMatches = <<>> /\ OfPool(TRUE) = <<>>
  /\ expired' = IF OfPool(FALSE) = <<>> THEN None ELSE Head(OfPool(FALSE))
  /\ archived' = ArchivedIssuers(Info[Current].issuer, Info[Current].aki)
  /\ urls' = First(Only(Info[Current].aia, DOMAIN Served), MaxAIAURLs)
  /\ warnings' = warnings \cup (IF Info[Current].aia = <<>> THEN {"aia"} ELSE {})
  /\ pc' = "aia"
  /\ UNCHANGED <<input, chain, bag, saves, cands, alt, walk, store>>

\* 3. AIA: the download or the parsing of its response fails.
FetchFails ==
  /\ pc = "aia" /\ urls # <<>>
  /\ urls' = Tail(urls)
  /\ warnings' = warnings \cup {"aia"}
  /\ UNCHANGED <<input, pc, chain, bag, expired, archived, saves, cands, alt, walk, store>>

\* Self-signed SKI match, any SKI match, any certificate.
AIAMatch(parsed) ==
  LET Keyed(c) == Info[Current].aki # None /\ Info[c].ski = Info[Current].aki
      keyed == Only(parsed, {c \in Certs : Keyed(c)})
      roots == Only(keyed, {c \in Certs : SelfSigned(c)})
  IN Head(roots \o keyed \o parsed)

TooMany(response) ==
  /\ Len(response) > MaxAIACerts
  /\ urls' = Tail(urls)
  /\ warnings' = warnings \cup {"aia"}
  /\ UNCHANGED <<pc, chain, bag, saves, expired, archived>>

FetchAIA(response) ==
  LET parsed == Only(response, Certs) IN
  /\ Len(response) =< MaxAIACerts
  /\ bag' = bag \o [i \in DOMAIN parsed |-> Entry(parsed[i], "fetched")]
  /\ \/ /\ parsed = <<>>
        /\ urls' = Tail(urls)
        /\ UNCHANGED <<pc, chain, warnings, saves, expired, archived>>
     \/ parsed # <<>> /\ Extend(AIAMatch(parsed), "fetched")

Fetch ==
  /\ pc = "aia" /\ urls # <<>>
  /\ \E response \in Served[Head(urls)] : TooMany(response) \/ FetchAIA(response)
  /\ UNCHANGED <<input, cands, alt, walk, store>>

AIAExhausted ==
  /\ pc = "aia" /\ urls = <<>>
  /\ pc' = "fallback"
  /\ UNCHANGED <<input, chain, bag, warnings, resolver, saves, cands, alt, walk, store>>

\* An expired pool certificate.
TakeExpired ==
  /\ pc = "fallback"
  /\ expired # None
  /\ Extend(expired, "cache")
  /\ UNCHANGED <<input, bag, cands, alt, walk, store>>

\* archiveIssuer: the first that is valid, else the oldest.
ArchiveIssuer ==
  LET valid == Only(archived, {c \in Certs : Info[c].valid}) IN
  /\ pc = "fallback"
  /\ expired = None /\ archived # <<>>
  /\ bag' = bag \o [i \in DOMAIN archived |-> Entry(archived[i], "archive")]
  /\ Extend(Head(valid \o archived), "archive")
  /\ UNCHANGED <<input, cands, alt, walk, store>>

NoIssuer ==
  /\ pc = "fallback"
  /\ expired = None /\ archived = <<>>
  /\ warnings' = warnings \cup {"issuer"}
  /\ LeaveLoop
  /\ UNCHANGED <<input, chain, bag, resolver, cands, alt, walk, store>>

BugDepthReached == Len(chain) > MaxChainDepth /\ ~SelfSigned(Current)

DepthReached == Len(chain) >= MaxChainDepth /\ ~SelfSigned(Current)

ChainStands ==
  /\ pc = "resolve" /\ ~Resolving
  /\ warnings' = warnings \cup (IF DepthReached THEN {"depth"} ELSE {})
  /\ LeaveLoop
  /\ UNCHANGED <<input, chain, bag, resolver, cands, alt, walk, store>>

-----------------------------------------------------------------------------
(***************************************************************************)
(* The archive, the candidates, the verification                           *)
(***************************************************************************)

Archive ==
  /\ pc = "archive" /\ saves # <<>>
  /\ saves' = Tail(saves)
  /\ \/ /\ Insert(<<Head(saves)>>)
        /\ wrote' = wrote \cup {Head(saves)}
     \/ UNCHANGED <<table, wrote>>
  /\ UNCHANGED <<pool, trusted, input, pc, chain, bag, warnings, resolver, cands, alt,
                 walk, steady, changes>>

BugOwnCandidates == {chain[i].cert : i \in 2..Len(chain)}

\* The candidates this analysis holds: the leaf only if it is a root.
OwnCandidates ==
  {chain[i].cert : i \in {j \in DOMAIN chain : j > 1 \/ SelfSigned(chain[j].cert)}} \cup BagCerts

Collect ==
  /\ pc = "archive" /\ saves = <<>>
  /\ warnings' = warnings \cup {"urls" : c \in {d \in ChainCerts : Len(Info[d].aia) > MaxAIAURLs}}
  /\ cands' = OwnCandidates
  /\ alt' = 1
  /\ pc' = "alternates"
  /\ UNCHANGED <<input, chain, bag, resolver, saves, walk, store>>

Alternates ==
  /\ pc = "alternates"
  /\ \/ /\ alt =< Len(chain)
        /\ cands' = cands \cup ToSet(Named(Info[chain[alt].cert].issuer))
        /\ alt' = alt + 1
        /\ UNCHANGED pc
     \/ /\ alt > Len(chain)
        /\ pc' = "verify"
        /\ UNCHANGED <<cands, alt>>
  /\ UNCHANGED <<input, chain, bag, warnings, resolver, saves, walk, store>>

\* The signature that OpenSSL checks.
Signed(p, c) ==
  /\ Info[p].ca /\ Info[p].name = Info[c].issuer
  /\ Info[p].key = Info[c].signer

\* The certificates of S that may come next on the path p.
Above(p, S) ==
  {d \in S \ ToSet(p) : /\ Info[d].valid
                        /\ ~SelfSigned(Last(p)) /\ Signed(d, Last(p))}

\* The paths from c through valid certificates of S.
PathsFrom(c, S) ==
  LET Paths[n \in 0..Cardinality(S)] ==
        IF n = 0 THEN {p \in {<<c>>} : Info[c].valid}
        ELSE LET shorter == Paths[n - 1]
             IN shorter \cup UNION {{Append(p, d) : d \in Above(p, S)} : p \in shorter}
  IN Paths[Cardinality(S)]

\* Those that end in a trusted root of S.
PathsToTrust(c, S) ==
  {p \in PathsFrom(c, S) : SelfSigned(Last(p)) /\ Last(p) \in S \cap trusted}

\* trustedPath(c): OpenSSL may accept a path that exists, it need not find it.
\* The CAs on it join the pool, those of a link excepted; a save may fail.
TrustedPath(c) ==
  \/ \E p \in PathsToTrust(c, cands) :
       \E saved \in SUBSET {d \in ToSet(p) \ Transient : Info[d].ca} :
         /\ Insert(Only(p, saved))
         /\ pool' = pool \cup saved
         /\ wrote' = wrote \cup saved
         /\ UNCHANGED <<trusted, steady, changes>>
  \/ UNCHANGED store

\* The revocation loop verifies issuers of the chain before it saves.
CheckIssuer(i) ==
  /\ pc = "verify"
  /\ i \in DOMAIN chain /\ Info[chain[i].cert].ca
  /\ TrustedPath(chain[i].cert)
  /\ UNCHANGED <<input, pc, chain, bag, warnings, resolver, saves, cands, alt, walk>>

Verify ==
  /\ pc = "verify"
  /\ TrustedPath(Leaf)
  /\ pc' = "done"
  /\ UNCHANGED <<input, chain, bag, warnings, resolver, saves, cands, alt, walk>>

-----------------------------------------------------------------------------
(***************************************************************************)
(* chainsToTrust, for the CA of an uploaded CRL                            *)
(***************************************************************************)

\* The certificate itself is trusted.
TrustedCA ==
  /\ pc = "walk" /\ depth = 0
  /\ input.crlCA \in trusted
  /\ pc' = "done"
  /\ UNCHANGED <<input, chain, bag, warnings, resolver, saves, cands, alt, walk, store>>

BugQueued(found) == LET next == Only(found, {c \in Certs : ~SelfSigned(c)})
                    IN [i \in DOMAIN next |-> Info[next[i]].issuer]

\* The names still to look up once found has been read for the first of them.
Queued(found) == LET next == Only(found, {c \in Certs : ~SelfSigned(c)})
                 IN Tail(names) \o [i \in DOMAIN next |-> Info[next[i]].issuer]

\* A name met before costs a round of the loop as well.
Walk ==
  /\ pc = "walk" /\ depth < MaxChainDepth /\ names # <<>>
  /\ depth = 0 => input.crlCA \notin trusted
  /\ depth' = depth + 1
  /\ \/ /\ Head(names) \in seen
        /\ names' = Tail(names)
        /\ UNCHANGED <<seen, cands>>
     \/ /\ Head(names) \notin seen
        /\ seen' = seen \cup {Head(names)}
        /\ LET found == Named(Head(names)) IN
             /\ cands' = cands \cup ToSet(found)
             /\ names' = Queued(found)
  /\ UNCHANGED <<input, pc, chain, bag, warnings, resolver, saves, alt, store>>

WalkStands == pc = "walk" /\ (depth >= MaxChainDepth \/ names = <<>>)

Walked ==
  /\ WalkStands
  /\ TrustedPath(input.crlCA)
  /\ pc' = "done"
  /\ UNCHANGED <<input, chain, bag, warnings, resolver, saves, cands, alt, walk>>

-----------------------------------------------------------------------------
(***************************************************************************)
(* Other requests and the administrator                                    *)
(***************************************************************************)

analysis == <<input, pc, chain, bag, warnings, resolver, saves, cands, alt, walk, wrote>>

Meanwhile == pc \notin {"done", "failed"} /\ changes < MaxChanges /\ changes' = changes + 1

\* Another analysis archives c, or adds it to the pool.
OtherSaves(c) ==
  /\ Meanwhile
  /\ Insert(<<c>>)
  /\ pool' \in {pool, pool \cup {d \in {c} : Info[d].ca}}
  /\ UNCHANGED <<trusted, steady, analysis>>

\* toggleTrust on a stored certificate.
ToggleTrust(c) ==
  /\ Meanwhile
  /\ c \in ToSet(table)
  /\ trusted' = SymDiff(trusted, {c})
  /\ steady' = steady \cap (pool \cup trusted')
  /\ UNCHANGED <<table, pool, analysis>>

Next ==
  \/ SaveLeaf \/ Abort \/ MatchBag \/ MatchPool \/ MissPool
  \/ FetchFails \/ Fetch \/ AIAExhausted
  \/ TakeExpired \/ ArchiveIssuer \/ NoIssuer \/ ChainStands
  \/ Archive \/ Collect \/ Alternates \/ Verify
  \/ \E i \in 1..MaxChainDepth : CheckIssuer(i)
  \/ TrustedCA \/ Walk \/ Walked
  \/ \E c \in Certs : OtherSaves(c) \/ ToggleTrust(c)

Spec == Init /\ [][Next]_vars

-----------------------------------------------------------------------------
(***************************************************************************)
(* Properties                                                              *)
(***************************************************************************)

\* A chain that does not end in a self-signed certificate is never reported
\* without a warning that says why it ends there: loop, depth, or issuer not
\* found after every source was tried.
IncompleteIsWarned ==
  pc \in {"archive", "alternates", "verify"} =>
    SelfSigned(Current) \/ warnings \cap {"loop", "depth", "issuer"} # {}

\* "With link, data and bag come from a link and none of them is stored": not
\* even when AIA or the archive yields one of them as an issuer, or OpenSSL
\* uses one on a verified path.
LinkLeavesNoTrace == wrote \cap Transient = {}

\* "other AIA certificates serve only this analysis": until OpenSSL has verified
\* a path, an analysis writes nothing but its chain and what the site sent,
\* however many certificates AIA and the archive put into the bag.
OnlyChainIsArchived ==
  pc \in {"resolve", "aia", "fallback", "archive", "alternates"} =>
    wrote \subseteq ChainCerts \cup ToSet(input.bag)

\* The pool certificates an analysis can count on: there all the time, and not
\* more of one name than a query returns.
Reliable ==
  {c \in steady : Cardinality({d \in Certs : Info[d].name = Info[c].name}) =< MaxAltCandidates}

\* The resolver takes one issuer where there may be several.  The ones it
\* passed over still count: if the certificates in hand and the pool's
\* certificates named as an issuer in the chain hold a path to a trusted root,
\* OpenSSL is offered such a path, whatever changes meanwhile.
AlternatesOffered ==
  pc = "verify" =>
    LET issuers == {Info[c].issuer : c \in ChainCerts}
        named == {c \in Reliable : Info[c].name \in issuers}
    IN PathsToTrust(Leaf, ChainCerts \cup BagCerts \cup named) # {}
         => PathsToTrust(Leaf, cands) # {}

\* chainsToTrust finds the path of a CA through the pool to a trusted root
\* whenever its walk ends because no name is left: a CRL is not refused for
\* the order in which names are looked up.
WalkFindsPath ==
  WalkStands /\ names = <<>> =>
    (PathsToTrust(input.crlCA, Reliable) # {} => PathsToTrust(input.crlCA, cands) # {})
=============================================================================
