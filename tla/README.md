# certview in TLA+

certview is a Go web service that explains X.509 certificates: it takes a
certificate, a CRL, a link or a host name, builds the chain, checks it with
OpenSSL (through the MiniPKI library), checks revocation by CRL and OCSP and
reports a verdict. It keeps certificates, trust decisions, CRLs and OCSP
responses in SQLite. This directory models the parts of it in which
concurrency, failure and history decide what is correct, checks the models
with TLC and proves their safety properties with TLAPS.

## The system

| part | code | state | operations | interacts with |
|---|---|---|---|---|
| analysis guard | `cmd/certview/guard.go` | channels `slots`, `bigCRL`, `crlQueue`, map `running`, `slotHold` per analysis | `guardAnalysis`, `acquireCRLMemory`, `runWatchdog` | every analysis runs inside it; `openCRL` and `cachedCRL` call the gate |
| shared downloads | `guard.go` (`fetchFlight`) | `calls`, `failed`, fetch budget per analysis | `do` on the caller's and on the download's goroutine | every fetch of an analysis; the HTTP client with the address guard |
| response cache | `respcache.go` | entries with a gate, a response, an expiry | `get`, `purge`, `cleanupLoop` | wraps the analyses; `toggleTrust` purges it |
| trust decisions | `internal/trustbundle`, `internal/store` (table `certs`), `handler.go` | per certificate: stored, trusted, pool, source | `ImportDefaults` on every start, `toggleTrust`, `SaveCert`, `trustedPath` | read by chain building, verdict, and by whatever is saved |
| revocation | `handler.go` (`analyzeData`, `doAnalyzeCRL`), `internal/store` (tables `crls`, `crl_urls`, `ocsp_responses`) | the tables, and per analysis what it found | cached, fetched, stored CRL, OCSP, verdict; `SaveCRL`, `SaveOCSP` | the gate, the downloads, the trust decisions |
| chain building | `handler.go` (`resolveIssuer`, `archiveIssuer`, `chainsToTrust`), `FindIssuers` | the chain and the bag of one analysis | pool, site, AIA, archive in turn | table `certs`, downloads |
| requests | `guard.go` (`admit`, `acquireBig`), `handler.go`, `site.go`, `link.go`, `internal/limits` | channels `pending`, `bigIO`, `bigDER` | admit a request, admit a big transfer, read, analyse, write | the cache, the guard, certget; clients that are slow or gone |
| outbound connections | `internal/ssrfguard`, `main.go` (`newGuardedHTTPClient`), `doFetch` | a download's redirects, connection, timers | check, dial, redirect, read, time out | DNS, which may answer differently each time |
| certget | `cmd/certget` | the goroutines of one call | resolve once, one TLS handshake per client, wait for all | called by `site.go` |
| schema | `internal/store` (`migrate`) | the schema, the rows of all tables | the statements of `migrate` on every start | what earlier versions wrote |
| pki, dnshost, web | `internal/*`, `web/` | none shared | parsing, cryptography, rendering | - |

What makes each of them hard, and what makes it correct:

- *Guard.* An analysis lends its slot while it waits for the CRL gate. Tokens
  must be neither lost nor doubled on any way out, nobody may wait in a circle,
  memory stays bounded although lent slots admit others, and a hang is always
  known to the watchdog.
- *Downloads.* One goroutine downloads for many requests that come and go. One
  leaving must not fail or blacklist anything for the others, none may be left
  waiting, and no download may run on for nobody.
- *Response cache.* A response computed before a trust change must not be served
  after the change has been confirmed, although computations overlap it.
- *Trust.* The import runs over a durable table on every start, in every
  version. The administrator's untrust must survive it, roots that left a bundle
  must lose trust, whatever crashes or fails in between.
- *Chain building.* The resolver takes one issuer where there may be several,
  from sources of different standing. The verdict must not hang on which one, an
  incomplete chain must say why, and only the chain may leave traces: nothing of
  a link does.
- *Revocation.* A chain is "ok" only on evidence that is signed, current and in
  scope, for every certificate; what enters the shared tables is vetted, and
  saves that interleave do not lose the newest CRL.

- *Requests.* What a request holds (a place, a gate, a slot, its input) it must
  give back once, however it ends, and before it waits for a client who may never
  read. Whoever needs a place for a big transfer keeps it while the data is in
  memory; not everyone whose data is big needs one (see the findings).
- *Outbound connections, certget.* Whatever a lookup answers, and whenever, a
  connection goes only to an address that passes the guard.
- *Schema.* Migrations run at every start, may stop at any statement and ignore
  some errors. Nothing saved may be lost, and no database may lock the program
  out.

`PROJECT.json` lists the hazards behind these sentences, each at its line, with
the properties that would catch it.

## Modules

| module | models | MC module | proofs |
|---|---|---|---|
| `AnalysisGuard` | guard | `MCAnalysisGuard` | `AnalysisGuardProofs` |
| `FetchFlight` | shared downloads | `MCFetchFlight` | `FetchFlightProofs` |
| `RespCache` | response cache with `toggleTrust` | `MCRespCache` | `RespCacheProofs` |
| `TrustStore` | trust decisions | `MCTrustStore` | `TrustStoreProofs` |
| `ChainBuilder` | chain building, the archive, candidates, `chainsToTrust` | `MCChainBuilder` | `ChainBuilderProofs` |
| `Revocation` | revocation, the scope of CRLs, its tables, the verdict | `MCRevocation` | `RevocationProofs` |
| `StoreContent` | what the store promises (abstract) | `MCStoreMigration` | `StoreMigrationProofs` |
| `StoreMigration` | `store.Open`, statement by statement; implements `StoreContent` | `MCStoreMigration` | `StoreMigrationProofs` |
| `AddressGuard` | `ssrfguard`: which addresses may be dialled | `MCService` | `ServiceProofs` |
| `GuardedClient` | the HTTP client and `doFetch`, over `AddressGuard` | `MCService` | `ServiceProofs` |
| `Certget` | certget, over `AddressGuard` | `MCService` | `ServiceProofs` |
| `Service` | the handlers, composed with `GuardedClient` and `Certget` | `MCService` | `ServiceProofs` |

In each module an action is one critical section, one select or one SQL
statement: what the Go scheduler or SQLite can interleave is interleaved, and
what a mutex or a statement makes atomic is one step. Operators whose names
begin with `Bug` are plausible defects of the definition after them. No action
uses them; each is what a property is tried against.

**AnalysisGuard.** A channel used as a semaphore is its length. `pc[a]` is the
statement at which the goroutine of an analysis stands. `GiveSlot` ...
`LeaveQueue` are `acquireCRLMemory` select by select; `hold = nil` of a full
queue is `KeepSlot`. `done[a]` is the end of the context, `Hang` a call into C
that does not return, `Watchdog` the `os.Exit` and the restart. Whether a CRL is
big is chosen (`PassSmall` or `TryGate`).

**FetchFlight.** `call[c]` is a `fetchCall` with the locals of its goroutine.
The fetch, the reading of `fctx.Err()`, the critical section and
`close(c.done)` are four steps. Outcomes are ok, an error, an error connecting
to the endpoint, or the cancellation; a download whose context is cancelled may
still have ended in any of them.

**RespCache.** A response is the trust epoch its computation read: the number of
`SetTrusted` calls before. `toggleTrust` is two steps, `SetTrusted` and `Purge`.
The variables `since` and `completed` record what had been confirmed when a
`get` began.

**TrustStore.** `row` is the table `certs`. `Start` picks a version, whose
bundles are the constant `Bundle`; the import takes the certificates of a bundle
in any order and each statement may fail or be the last one before a crash. The
history variables say which untrusts hold: `firm` those of roots still in their
bundle, `loose` those that might. `recent` are the certificates that were trusted
at some time since no save of a verified path was pending.

**ChainBuilder.** A certificate is a record of what the code compares: names, key
identifiers, the real keys, dates, AIA. `table` is the certs table in the order
of its ids; `PoolIssuers` and `ArchivedIssuers` are the branches of
`FindIssuers`. The resolver's sources are actions (`MatchBag`, `MatchPool`,
`MissPool`, `Fetch`, `TakeExpired`, `ArchiveIssuer`), and `Extend` is what the
loop does with an issuer. `PathsFrom` builds the paths up from a certificate,
one certificate longer at each step, and `PathsToTrust` keeps the ones that end
in a trusted root: OpenSSL may accept one of them and need not find any. `Only`
selects from a sequence, as the loops and the queries do. Others store certificates and change
trust between any two queries; `steady` is what stayed in the pool throughout. The
queries themselves succeed: `poolIssuers` and its callers go on without the rows
of one that failed (handler.go:1054), so nothing is claimed of candidates then.
The URLs counted for the warning about unused ones are those of AIA.

**Revocation.** A CRL is a record of what the code asks about it: issuer,
genuine signature of a CA that may sign CRLs, certificates listed, delta or not,
issuingDistributionPoint, dates, size; what the CA meant it to be about is a
field of its own (`about`), which only the properties read. `Covers`, `covers`
and `Scope` are the code's decision on it. The passes (cached, fetched, by issuer, uploaded) share `Open`,
`Read`, `Process`, `Close`; `SaveCRL` is five statements, `SaveOCSP` two.
`seen` records the evidence an analysis looked at, so that `VerdictSound` can
judge the verdict by its own definition of evidence. `anchored` stands for
`trustedPath` and `chainsToTrust`: whether the CA verifies to a trusted root,
changed by the administrator at any time; `vetted` are the analyses during which
it did. Of the gate only exclusion is kept,
`AnalysisGuard` has the rest.

**StoreMigration.** `schema` is the set of tables, columns and unique indexes that
exist; a hash is named by what it is the hash of. `migrate` is one action per
statement, or per transaction, in the order of the code; the rows of
`backfillSHA256` are updated one by one. `Interrupt` is the error of a statement
or the end of the process; the errors that `ALTER TABLE` ignores are a branch of
`AddColumn` and `AddSha`. `Init` has the schemas of the earlier versions, as the
tests of the store create them, and the present one. The refinement mapping
reads the tables through the queries: what `FindFreshCRL` finds at a URL by
whichever schema is there, and what the two hashes lead to once the store is
open. `StoreContent` says what may happen to that: opening changes nothing and
makes everything findable; a certificate reported saved is there.

**Service, GuardedClient, Certget.** `Service` follows a request through its
handler. `tokens` are the lengths of the channels, `holds` the places a request
has, `deferred` the releases its deferred calls will make: a release may be
called twice. Inside, an analysis is a slot, a gate and, at any time, a download
by `GuardedClient`; a site analysis calls `Certget` first and goes on with each
chain it returned. Errors and timeouts are one action (`Fail`): a download or a
call then runs on without its request, until its own end. A client may leave at
any time after its body was read, or stay and never read (`ClientReads` need
never happen). The body of a link is small or big, and takes no place either way
(`ReadLink`); what `parseLink` makes of it is small. `Answers` is DNS: any set of
addresses, chosen anew at each lookup. The object asked of `/api/der` is big; it is
saved and deleted by others at any time (`StoreChanges`), also between the query
for its size and the one for its bytes.

## Runs

Passing runs:

| run | instance | shows |
|---|---|---|
| `guard` | 3 analyses, 2 slots, 1 queue place | `SlotAccounting`, `WorksOnSlot`, `OneBigCRL`, `RawCRLBound`; `AcquireReturns`: no circle of waiting; `HangIsRestarted` |
| `fetch` | 2 analyses, 1 URL and its endpoint, 2 downloads alive, budget 1 | `NoCollateralCancel`, `OneDownloadPerKey`, `NoUnwatchedDownload`, `LeavingNeverBlacklists`, `WaiterReturns` |
| `cache` | 2 requests, 1 administrator, 2 keys, a cache of 1 entry, 2 trust changes | `FreshAfterToggle`, `GateIsReleased` |
| `trust` | 2 roots, an intermediate and its path, 3 versions | `UntrustSurvives`, `TrustJustified`, `BundledTrusted`, `PoolJustified` |
| `chain` | 8 certificates, 4 of them of one CA, 7 inputs, 81 tables, 1 change by others | `IncompleteIsWarned`, `LinkLeavesNoTrace`, `OnlyChainIsArchived`, `AlternatesOffered`, `WalkFindsPath` |
| `revocation_verdict` | chain of 2, 7 CRLs at 2 URLs, 4 OCSP responses, 3 instants, 2 analyses in sequence | `VerdictSound`, `StoreVetted` |
| `revocation_store` | 2 analyses at once, 2 CRLs of one issuer, 3 instants | `LatestKept`, `AnalysisEnds` |
| `migration` | 2 certificates that share a serial, a CRL at two URLs and an uploaded one, an OCSP response, the earlier schemas that the store's tests create and the present one, 2 faults | `Preserved` (`StoreContent` is implemented), `SchemaComplete`, `StartSucceeds` |
| `service` | 2 big uploads of one object, a request of any kind, 1 place of each channel and 2 pending, redirects, a blocked address | `PlacesKept`, `OnlyAllowedDialed`, `Served` |

Each module's `TypeOK` is checked in one of its runs. The chain run models one
request, which ends, so it does not look for deadlock.

Runs that refute a sentence of the code's comments (the findings):

| run | the comment | what happens |
|---|---|---|
| `cache_parallel` | respcache.go:9-10, parallel callers on a key wait for one computation | `cleanupLoop` drops the entry before its creator has the gate |
| `revocation_gate` | guard.go:7-8, CRLs above `bigCRLSize` are processed one at a time | the stored CRL grows between the query for its size and the query for its bytes |
| `service_transfers` | guard.go:10-11, request bodies and `/api/der` responses over `bigTransferSize` are admitted `bigTransfers` at a time | a link's body may be 1.25 MiB (link.go:23) and takes no place; an object saved after `/api/der` found none to size (handler.go:1316) is sent without one |

None of them makes a verdict wrong (`VerdictSound` holds throughout); they use more
memory, or compute twice. `TransfersAdmitted` asks only that one half of its comment
is kept, so that the one trace TLC finds (two links, two objects, one place each)
refutes both.

**Bounds.** Capacities are small so that they are reached: fewer slots than
analyses, a queue and a cache that are full with one, a budget of one fetch, a sweep of the
failure map at two entries, chains of three. Two analyses are enough for
every interleaving of two saves, three for a circle through lender, borrower and
gate holder; that is also one more than the slots, so that the bound on lent slots
and raw CRLs is reached. Two download objects let an abandoned download overlap its successor.
Three instants tell before, at and after `nextUpdate` apart. Three versions give
a root that stays, one that is dropped and returns, one that moves to the other
bundle, and a bundle that parses empty. Two faults are a failure during the
recovery from another. Two uploads of one object meet at a gate while both want
the one place for big transfers. The PKI of the chain run has what makes issuers ambiguous: a CA
cross-signed by two roots, an expired certificate of it, and two CAs that
certified each other. The named bounds (`MaxOpens`, `MaxEpoch`, `MaxTime`,
`MaxRuns`, `MaxChanges`, `MaxFaults`, `MaxFetches`, `MaxVia`) stop counters only;
`MaxId` stands for SQLite's largest rowid.

**Fairness.** Goroutines that can run do run (weak fairness of their steps). A
goroutine blocked on a channel is served in FIFO order by the Go runtime, so it
is not passed over for ever (strong fairness of the channel operations). The
watchdog ticks. A download ends because the guarded client bounds it by time. No
client is assumed to leave and no deadline to strike, except in
`revocation_store`, where the end of the context is one way out of the wait for
the gate. In `migration` statements end and the container starts the process
again; faults are bounded, otherwise nothing could be said of the start. In
`service` only the handlers run, with their timeouts; nothing is assumed of the
clients, of the peers of a download, of DNS or of certget, so what is shown holds
against clients that never read and peers that never answer.

## Proofs

Every safety invariant and every action property that a passing run checks is
proved, and so is the refinement of `StoreContent`: for all values of the
constants that satisfy the named assumptions, hence for any number of requests,
analyses, certificates, CRLs, places and interruptions. Each proof has the same
plan: an inductive invariant `IndInv`, one lemma per action or per kind of
conjunct, `InitIndInv`, `NextIndInv`, and the theorems from them. Each `IndInv`
was checked by TLC on the instance of its run before it was proved.

| module | theorems |
|---|---|
| `AnalysisGuardProofs` | `TypeCorrect`, `TokensAccounted`, `NoWorkWithoutSlot`, `BigCRLsInTurn`, `RawCRLsBounded` |
| `FetchFlightProofs` | `TypeCorrect`, `Uncollateral`, `Shared`, `Watched`, `Unblamed` |
| `RespCacheProofs` | `TypeCorrect`, `ToggleIsVisible` |
| `TrustStoreProofs` | `TypeCorrect`, `UntrustIsDurable`, `PoolIsEarned`, `TrustIsJustified`, `BundledAreTrusted` |
| `ChainBuilderProofs` | `TypeCorrect`, `Warned`, `NoTrace`, `ArchivesChain`, `Offered`, `WalkComplete` |
| `RevocationProofs` | `TypeCorrect`, `OkIsSound`, `StoreIsVetted`, `LatestIsKept` |
| `StoreMigrationProofs` | `TypeCorrect`, `Complete`, `Refinement` |
| `ServiceProofs` | `TypeCorrect`, `Kept`, `AllowedOnly` |

*AnalysisGuardProofs.* `SlotAccounting` alone is not inductive: to know that a
receive from `slots` finds a token, and that a release takes the right one, one
must know at which statements an analysis holds a slot and where it is a member
of the queue. `IndInv` adds `QueueAccounting` and `Ownership`, which say just
that. `RawCRLsBounded` follows by counting holders and queue members. Assumed:
finitely many analyses, at least one slot.

*FetchFlightProofs.* All of it rests on the count `c.waiters`: it is the number
of analyses that refer to the call, until `c.done` is closed, from when it only
bounds that number (`WaitersInv`, by cardinality of the set of watchers). So the
one who finds the count at its end is the last, and a cancelled download has
nobody left to receive its cancellation (`CancelInv`, `OutInv`). `ListInv` says
that what newcomers find in `f.calls` is of their key and not cancelled;
`OneDownloadPerKey` is part of the invariant, because a successor may start
while the abandoned one runs on. `Unblamed` is an action property: from
`OutInv`, only the critical section of a download that was not abandoned writes
into `failed`. Assumed: finitely many analyses; keys and endpoints are different
things.

*RespCacheProofs.* A response may be put into an entry long after it was
computed and long after the entry was purged. The invariant therefore speaks of
what an entry holds and of what the requests that refer to it are about to put
there: as new as every completed toggle while the entry is listed
(`ListedInv`), and as new as what any request referring to it may expect
(`ReferredInv`).

*TrustStoreProofs.* For `UntrustSurvives` the invariant follows the import: what
has been imported so far has its row attached to its bundle (`LoopInv`,
`ImportedInv`), and a firm untrust is of a row that is attached to the bundle
the root is in and untrusted (`FirmInv`). `PoolIsEarned` is an action property, with
an invariant of its own: whatever was verified but not yet saved lies on a path to
a root trusted since saves are pending (`PoolInv`). That is as much as the code
keeps: `trustedPath` does not ask again before it saves, so an untrust stops all
later verifications but not the saves that wait at that moment. `TrustInv`, on top of it, is about single certificates: trust
that no administrator gave comes from the bundle of some version (`OriginOf`);
after the withdrawal of a bundle, the roots attributed to it are in it
(`DoneOf`); what is attributed to a bundle and untrusted was untrusted by the
administrator (`LooseOf`). `TrustIsJustified` and `BundledAreTrusted` follow.
Assumed: no certificate is in both bundles of a version. The two bundles of this
repository share none; a root in both would be trusted again by every start.

*ChainBuilderProofs.* `Warned`, `NoTrace` and `ArchivesChain` need what the bag,
the list of saves and the resolver's locals may hold at each statement, above all
that an entry of the bag marked `tls` came from the site and from no link
(`BagInv`, `SavesInv`). The other two are about paths of any length. `OfferInv`
and `WalkInv` say what the candidates have of the reliable certificates, those
that stayed in the pool throughout and whose name is borne by at most
`maxAltCandidates`: all those of the names already asked for, and their issuers'
names are asked for or queued. `NamedComplete` is the lemma behind it: a query
for such a name returns every certificate in the pool, whatever its order and its
limit. `PathsShared` and `TrustShared` turn this into paths. These lemmas are
inductions over numbers, over the position in a sequence and over the length of a
path; the prover has none, so they are done by least counterexample (`LeastNat`,
from the well-foundedness of `<`). Assumed: finitely many certificates; the
issuer of a self-signed one is its subject, which is what MiniPKI's flag means;
tables list a certificate once.

*RevocationProofs.* `Fine` is about one analysis by itself: where it stands, what
it has in hand, and what its findings rest on, in both directions (`Founded`):
"not revoked" on evidence that shows it, and evidence of a revocation always in a
finding "revoked". The second direction is inductive only with `Undecided`: no
source is asked about a certificate that has its finding, so that no pass
overwrites an earlier one. `SharedOf` is about an analysis and the
tables: what it is about to save is verified, its CA was anchored since it began
(`StoreIsVetted`, an action property, follows), and where its five statements stand
relative to the newest CRL of the issuer; `LatestInv` keeps that CRL, found by
its dates, in the table while any number of saves interleave. Assumed:
`ScopeAssumption`, that a genuine CRL is about the certificates its
issuingDistributionPoint leaves in its scope (RFC 5280, 5.2.5), which is the CA's
promise and not the code's.

*StoreMigrationProofs.* How far `migrate` has come tells what the tables have:
columns by table (`SchemaInv`), rows hashed by the position of the backfill
(`HashInv`), urls in the column or in `crl_urls` but never in both (`UrlInv`),
thumbprints by `user_version` (`ThumbInv`). An interruption sets the position
back to the start, so each of these must hold of a database that any statement
left behind. For `Refinement`, each action is shown to be a step of
`StoreContent` or a stutter under the mapping: the statements change nothing that
can be found, splitting `crl_urls` off included, and the last one opens. Assumed:
certificates, CRL ids and OCSP responses are different things.

*ServiceProofs.* `Kept` needs which places a request has at each stage and that
every one of them will be released by a deferred call (`HoldsOf`), and that a big
upload follows its place (`DataOf`); the count of tokens is by cardinality over
requests, so a release that is called twice must be seen to do nothing. For
`AllowedOnly`, `ClientOf` and `CertgetOf` say what was checked before the dial;
the actions of `GuardedClient` and `Certget` are proved once and used in the
composition. Nothing is assumed of the answers of DNS.

Only model-checked: the liveness properties `AcquireReturns`, `HangIsRestarted`,
`WaiterReturns`, `GateIsReleased`, `AnalysisEnds`, `StartSucceeds` and `Served`,
because the prover does neither fairness nor `ENABLED`. The sentences that the
three violation runs refute have no theorem.

## Not modelled

Parsing and cryptography (pki), JSON and rendering, the syntax of host names,
URLs and links: pure functions or C code, whose results are chosen. The web page
runs in the browser. Which address ranges are blocked is a list of constants. A
request that finds an idle connection to its host uses it without dialling; the
address was checked when it was opened. The purge of one listener's caches does
not reach the other's: the public listener may show a trust decision up to the
cache TTL late, by design (main.go:137). Revocation is checked along the chain
certview resolved, while OpenSSL may verify another path; `Revocation` has one
chain.

Behaviour met while modelling that no property is about: a download that failed
just before its last waiter left is not remembered as a failure (guard.go:440);
a URL may stay mapped to a deleted CRL, and a certificate may have two stored
OCSP responses, after two saves that interleaved (store.go:434, 598), which
costs a cache miss or a row; repeated names count against the depth of
`chainsToTrust` (handler.go:1079), so with many certificates per CA its walk may
end early and an uploaded CRL is then shown but not kept; a saved CRL without
nextUpdate is never found again and may have displaced an older one that was
(store.go:425, 434); the alternates of a cross-signed CA are looked up for the
issuers of the resolved chain, as the comment at handler.go:468 says, and not for
the issuers of the alternates: when the resolver took the certificate of a
withdrawn root, a path of the pool to another, trusted root may not be among the
candidates; responses other than `/api/der` have no write deadline, so a
client that never reads keeps its pending place (`Served` says that it keeps no
more); the idle timer of a download starts with the request and is reset by body
bytes only, not by headers (main.go:71).

## Plan

The safety part is modelled, checked and proved. What could be added:

1. The connection of modules that are separate now: `Revocation` takes from the
   verification only whether a CA is anchored, which `ChainBuilder` and
   `TrustStore` say more about; `Service` has a slot where `AnalysisGuard` has
   the whole guard.
2. Hazards without a property (see `PROJECT.json`): the caches of the other
   listener, a root that changes bundles, the older of two answers saved last,
   the depth of the walk with many certificates per CA.
