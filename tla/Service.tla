------------------------------ MODULE Service -------------------------------
(***************************************************************************)
(* The requests certview serves, from admission to the end of the handler, *)
(* and everything they may wait for on the way: a pending place, a turn    *)
(* for a big transfer, the gate of their cache key, an analysis slot, a    *)
(* download, certget, and the client itself, who may send its body slowly, *)
(* leave, or stay and never read the response.                             *)
(*                                                                         *)
(* The composition of GuardedClient and Certget with the handlers.         *)
(* AnalysisGuard, RespCache and FetchFlight look inside the slot, the gate *)
(* and the sharing of downloads, which are one token each here.            *)
(***************************************************************************)
EXTENDS GuardedClient, Certget, FiniteSets

CONSTANTS KindsOf,       \* [Requests -> sets of kinds]: the routes it may be for
          KeyOf,         \* [Requests -> Keys]
          Keys,          \* keys of the response caches
          BigUploads,    \* requests whose Content-Length is big or unknown
          MaxPending,
          BigTransfers,
          NumCPU,
          MaxFetches     \* [Requests -> Nat], bound: downloads of a request

Sems == {"pending", "bigIO", "bigDER", "slots"}
Capacity == [pending |-> MaxPending, bigIO |-> BigTransfers, bigDER |-> BigTransfers,
             slots |-> NumCPU]
Kinds == {"analyze", "link", "cert", "site", "der"}

ASSUME RequestsAssumption == IsFiniteSet(Requests)
ASSUME KindsAssumption == KindsOf \in [Requests -> SUBSET Kinds]
ASSUME KeysAssumption == KeyOf \in [Requests -> Keys]
ASSUME BigAssumption == BigUploads \subseteq Requests
ASSUME CapacityAssumption == \A s \in Sems : Capacity[s] \in Nat \ {0}
ASSUME FetchesAssumption == MaxFetches \in [Requests -> Nat]

VARIABLES pc, kind,
          gone,      \* r.Context() is cancelled: the client has left
          tokens,    \* how many of each channel's places are taken
          holds,     \* the places each request has and has not given back
          deferred,  \* the releases its deferred calls make
          gate,      \* who has the gate of a cache key
          data,      \* what of its input or output a request has in memory
          fetches,   \* downloads a request may still make
          chains,    \* chains a site request has still to analyse
          stored     \* the object /api/der is asked for, a big one, is in the store

handlerVars ==
  <<pc, kind, gone, tokens, holds, deferred, gate, data, fetches, chains>>
vars == <<handlerVars, stored, clientVars, certgetVars>>

Stages == {"off", "big", "body", "link", "parse", "find", "url", "hostport", "check", "gate",
           "slot", "certget", "work", "size", "der", "write", "end"}

TypeOK ==
  /\ pc \in [Requests -> Stages]
  /\ kind \in [Requests -> Kinds \cup {None}]
  /\ gone \in [Requests -> BOOLEAN]
  /\ tokens \in [Sems -> Nat] /\ \A s \in Sems : tokens[s] <= Capacity[s]
  /\ holds \in [Requests -> SUBSET Sems]
  /\ deferred \in [Requests -> SUBSET Sems]
  /\ gate \in [Keys -> Requests \cup {None}]
  /\ data \in [Requests -> {"none", "small", "big"}]
  /\ fetches \in [Requests -> Nat]
  /\ chains \in [Requests -> 0..Cardinality(Fetchers)]
  /\ stored \in BOOLEAN
  /\ ClientTypeOK /\ CertgetTypeOK

Init ==
  /\ pc = [r \in Requests |-> "off"]
  /\ kind = [r \in Requests |-> None]
  /\ gone = [r \in Requests |-> FALSE]
  /\ tokens = [s \in Sems |-> 0]
  /\ holds = [r \in Requests |-> {}]
  /\ deferred = [r \in Requests |-> {}]
  /\ gate = [k \in Keys |-> None]
  /\ data = [r \in Requests |-> "none"]
  /\ fetches = MaxFetches
  /\ chains = [r \in Requests |-> 0]
  /\ stored \in BOOLEAN
  /\ ClientInit /\ CertgetInit

-----------------------------------------------------------------------------
(***************************************************************************)
(* Places.  A channel of n places: a send takes one, a receive frees one.  *)
(* An operator named Bug... is a plausible defect of the definition that   *)
(* follows it, used only as its mutant.                                    *)
(***************************************************************************)

Goto(r, l) == pc' = [pc EXCEPT ![r] = l]

BugFree(s) == tokens[s] <= Capacity[s]

Free(s) == tokens[s] < Capacity[s]

\* The send, and what is deferred with it.
Take(r, s, d) ==
  /\ Free(s)
  /\ tokens' = [tokens EXCEPT ![s] = @ + 1]
  /\ holds' = [holds EXCEPT ![r] = @ \cup {s}]
  /\ deferred' = [deferred EXCEPT ![r] = @ \cup d]

BugReleased(r, S) ==
  [s \in Sems |-> IF s \in S /\ tokens[s] > 0 THEN tokens[s] - 1 ELSE tokens[s]]

\* Releasing what was released before does nothing: sync.OnceFunc.
Released(r, S) ==
  [s \in Sems |-> IF s \in S \cap holds[r] THEN tokens[s] - 1 ELSE tokens[s]]

Give(r, S) ==
  /\ tokens' = Released(r, S)
  /\ holds' = [holds EXCEPT ![r] = @ \ S]

Places == <<tokens, holds, deferred>>
Rest == <<stored, clientVars, certgetVars>>

-----------------------------------------------------------------------------
(***************************************************************************)
(* Handlers                                                                *)
(***************************************************************************)

First(k) ==
  CASE k = "analyze" -> {"big"}
    [] k = "link" -> {"link"}
    [] k = "cert" -> {"find"}
    [] k = "site" -> {"url", "hostport"}   \* POST and GET
    [] k = "der" -> {"size"}

\* admit: a request that finds no place is refused at once, which changes
\* nothing.  /api/der is not admitted.  r names one request after another: the
\* next one begins when what the last has left behind is over.
Arrive(r, k) ==
  /\ pc[r] = "off" /\ k \in KindsOf[r]
  /\ stage[r] = "off" /\ Hangup(r)
  /\ kind' = [kind EXCEPT ![r] = k]
  /\ \E l \in First(k) : Goto(r, l)
  /\ IF k = "der" THEN UNCHANGED Places ELSE Take(r, "pending", {"pending"})
  /\ UNCHANGED <<gone, gate, data, fetches, chains, stored, clientVars>>

\* acquireBig, for a transfer that is big: a place, or busy after slotWait.
acquireBig(r, sem, next) ==
  \/ Take(r, sem, {sem}) /\ Goto(r, next)
  \/ Goto(r, "end") /\ UNCHANGED Places

AcquireUpload(r) ==
  /\ pc[r] = "big"
  /\ IF r \in BigUploads
     THEN acquireBig(r, "bigIO", "body")
     ELSE Goto(r, "body") /\ UNCHANGED Places
  /\ UNCHANGED <<kind, gone, gate, data, fetches, chains, Rest>>

\* respCache.get begins: the key has an entry, with its gate, or the cache is full
\* and the response is computed without one.
Lookup == {"gate", "slot"}

\* A step that goes on with input of a size in memory, or ends with an error.
Input(r, at, size, next) ==
  /\ pc[r] = at
  /\ \/ (\E l \in next : Goto(r, l)) /\ data' = [data EXCEPT ![r] = size]
     \/ Goto(r, "end") /\ UNCHANGED data
  /\ UNCHANGED <<kind, gone, Places, gate, fetches, chains, Rest>>

\* analyze: the body is read, or it is empty, too large or late (ReadTimeout).
ReadUpload(r) == Input(r, "body", IF r \in BigUploads THEN "big" ELSE "small", Lookup)

\* analyzeLink: the body is decoded, up to 1.25 MiB of it and with no place, then
\* parseLink makes at most maxChainDepth certificates of at most CertSize of it.
ReadLink(r) == \E size \in {"small", "big"} : Input(r, "link", size, {"parse"})
ParseLink(r) == Input(r, "parse", "small", Lookup)

\* analyzeByThumbprint: HEAD, and a thumbprint not found, end here.
FindCert(r) == Input(r, "find", "small", Lookup)

\* analyzeSite and analyzeSiteByHostPort: host and port, or a bad request.
ReadURL(r) == Input(r, "url", "none", {"check"})
ReadHostPort(r) == Input(r, "hostport", "none", {"check"})

\* respondSite: without CERTGET_URL, or if the host is not allowed, it ends here.
CheckSite(r) ==
  /\ pc[r] = "check"
  /\ \E addrs \in Answers(SiteHost) : \E l \in IF Check(addrs) THEN Lookup ELSE {"end"} :
       Goto(r, l)
  /\ UNCHANGED <<kind, gone, Places, gate, data, fetches, chains, Rest>>

BugRespond(r, l) ==
  /\ Give(r, {"slots"})
  /\ gate' = [k \in Keys |-> IF gate[k] = r THEN None ELSE gate[k]]
  /\ data' = [data EXCEPT ![r] = "none"]
  /\ Goto(r, l)

\* The computation and the cache return: the slot and the gate are given back,
\* then done gives back the transfer, all before the response is written.
Respond(r, l) ==
  /\ Give(r, {"slots", "bigIO"})
  /\ gate' = [k \in Keys |-> IF gate[k] = r THEN None ELSE gate[k]]
  /\ data' = [data EXCEPT ![r] = "none"]
  /\ Goto(r, l)

\* The wait for the gate ends with the context only.  Behind the gate there is a
\* response that has not expired, or none.
TakeGate(r) ==
  /\ pc[r] = "gate"
  /\ \/ /\ gate[KeyOf[r]] = None
        /\ gate' = [gate EXCEPT ![KeyOf[r]] = r]
        /\ Goto(r, "slot")
        /\ UNCHANGED <<tokens, holds, data>>
     \/ gate[KeyOf[r]] = None /\ Respond(r, "write")
     \/ gone[r] /\ Respond(r, "end")
  /\ UNCHANGED <<kind, gone, deferred, fetches, chains, Rest>>

\* guardAnalysis; a site analysis calls certget first.
TakeSlot(r) ==
  /\ pc[r] = "slot"
  /\ Take(r, "slots", {})
  /\ Goto(r, IF kind[r] = "site" THEN "certget" ELSE "work")
  /\ IF kind[r] = "site" THEN Post(r) ELSE UNCHANGED certgetVars
  /\ UNCHANGED <<kind, gone, gate, data, fetches, chains, stored, clientVars>>

\* callCertget returns an answer, with a chain from each client that got one.
CertgetReturns(r) ==
  /\ pc[r] = "certget" /\ call[r] = "answered"
  /\ chains' = [chains EXCEPT ![r] = Cardinality({f \in Fetchers : client[r][f] = "ok"})]
  /\ Goto(r, "work")
  /\ UNCHANGED <<kind, gone, Places, gate, data, fetches, Rest>>

\* doAnalyzeSite goes on with the next result.
NextChain(r) ==
  /\ pc[r] = "work" /\ stage[r] = "off"
  /\ chains[r] > 0
  /\ chains' = [chains EXCEPT ![r] = @ - 1]
  /\ UNCHANGED <<pc, kind, gone, Places, gate, data, fetches, Rest>>

Fetch(r, h) ==
  /\ pc[r] = "work" /\ fetches[r] > 0
  /\ kind[r] = "site" => chains[r] > 0
  /\ fetches' = [fetches EXCEPT ![r] = @ - 1]
  /\ Get(r, h)
  /\ UNCHANGED <<pc, kind, gone, Places, gate, data, chains, stored, certgetVars>>

\* The analysis is complete: no download is awaited, no chain is left.
Analyzed(r) ==
  /\ pc[r] = "work" /\ stage[r] = "off" /\ chains[r] = 0
  /\ Respond(r, "write")
  /\ UNCHANGED <<kind, gone, deferred, fetches, chains, Rest>>

\* The analysis ends in an error: busy after slotWait, the client's leaving,
\* analyzeTimeout, a failed call of certget, input that is no object.  A
\* download or call under way is left to its own end.
Fail(r) ==
  /\ pc[r] \in {"slot", "certget", "work"}
  /\ Respond(r, "end")
  /\ chains' = [chains EXCEPT ![r] = 0]
  /\ UNCHANGED <<kind, gone, deferred, fetches, Rest>>

\* derBySHA256: the size decides whether a place is needed, an object that is not
\* there has size 0, and a query that fails ends it.
DERSize(r) ==
  /\ pc[r] = "size"
  /\ \/ IF stored THEN acquireBig(r, "bigDER", "der")
                  ELSE Goto(r, "der") /\ UNCHANGED Places
     \/ Goto(r, "end") /\ UNCHANGED Places
  /\ UNCHANGED <<kind, gone, gate, data, fetches, chains, Rest>>

\* Then the object is looked for again.
FindDER(r) ==
  /\ pc[r] = "der"
  /\ \/ stored /\ data' = [data EXCEPT ![r] = "big"] /\ Goto(r, "write")
     \/ Goto(r, "end") /\ UNCHANGED data
  /\ UNCHANGED <<kind, gone, Places, gate, fetches, chains, Rest>>

Written(r) ==
  /\ pc[r] = "write"
  /\ Goto(r, "end")
  /\ UNCHANGED <<kind, gone, Places, gate, data, fetches, chains, Rest>>

\* The client reads the whole response,
ClientReads(r) == ~gone[r] /\ Written(r)

\* or the write fails: the client is gone, or the deadline of /api/der is over.
WriteFails(r) == (gone[r] \/ kind[r] = "der") /\ Written(r)

\* The deferred calls.  There is no client any more.
End(r) ==
  /\ pc[r] = "end"
  /\ Give(r, deferred[r])
  /\ deferred' = [deferred EXCEPT ![r] = {}]
  /\ data' = [data EXCEPT ![r] = "none"]
  /\ gone' = [gone EXCEPT ![r] = FALSE]
  /\ kind' = [kind EXCEPT ![r] = None]
  /\ fetches' = [fetches EXCEPT ![r] = MaxFetches[r]]
  /\ Goto(r, "off")
  /\ UNCHANGED <<gate, chains, Rest>>

Handler(r) ==
  \/ AcquireUpload(r) \/ ReadUpload(r) \/ ReadLink(r) \/ ParseLink(r) \/ FindCert(r)
  \/ ReadURL(r) \/ ReadHostPort(r) \/ CheckSite(r)
  \/ TakeGate(r) \/ TakeSlot(r) \/ CertgetReturns(r) \/ NextChain(r)
  \/ (\E h \in Hosts : Fetch(r, h))
  \/ Analyzed(r) \/ Fail(r) \/ DERSize(r) \/ FindDER(r) \/ WriteFails(r) \/ End(r)

-----------------------------------------------------------------------------
(***************************************************************************)
(* The surroundings                                                        *)
(***************************************************************************)

\* The server notices that the client is gone once the body has been read.
Leave(r) ==
  /\ ~gone[r] /\ pc[r] \notin {"off", "big", "body", "link", "url", "end"}
  /\ gone' = [gone EXCEPT ![r] = TRUE]
  /\ UNCHANGED <<pc, kind, Places, gate, data, fetches, chains, Rest>>

Outbound(r) ==
  \/ ClientStep(r) /\ UNCHANGED <<handlerVars, stored, certgetVars>>
  \/ CertgetStep(r) /\ UNCHANGED <<handlerVars, stored, clientVars>>

\* An analysis saves the object, or replaces it by a newer CRL of its issuer.
StoreChanges ==
  /\ stored' = ~stored
  /\ UNCHANGED <<handlerVars, clientVars, certgetVars>>

Next ==
  \/ StoreChanges
  \/ \E r \in Requests :
       \/ \E k \in Kinds : Arrive(r, k)
       \/ Handler(r) \/ ClientReads(r) \/ Leave(r) \/ Outbound(r)

Spec == Init /\ [][Next]_vars

\* The handlers run, their timeouts included, and those waiting for a gate get it
\* in turn: a channel serves its senders in order.  Nothing is assumed of the
\* clients, of the peers of a download or of certget.
FairSpec == Spec /\ \A r \in Requests : WF_vars(Handler(r)) /\ SF_vars(TakeGate(r))

-----------------------------------------------------------------------------
(***************************************************************************)
(* Properties                                                              *)
(***************************************************************************)

\* Every place taken has one holder, however often its release is called.  A big
\* upload is in memory only with its place, and whoever took a place for an object
\* of /api/der has it until the response is written.
PlacesKept ==
  /\ \A s \in Sems : tokens[s] = Cardinality({r \in Requests : s \in holds[r]})
  /\ \A r \in Requests :
       /\ kind[r] = "analyze" /\ data[r] = "big" => "bigIO" \in holds[r]
       /\ "bigDER" \in deferred[r] => "bigDER" \in holds[r]

\* "Request bodies [...]
BodiesAdmitted ==
  Cardinality({r \in Requests : kind[r] # "der" /\ data[r] = "big"}) <= BigTransfers

\* [...] and /api/der responses over bigTransferSize are admitted bigTransfers at a
\* time" (guard.go).
ObjectsAdmitted ==
  Cardinality({r \in Requests : kind[r] = "der" /\ data[r] = "big"}) <= BigTransfers

\* That sentence says that both limits are kept.  This says only that one of them
\* is, so that a single state without either refutes both halves of it: bodies of
\* /api/link need no place, and neither does an object that was saved after its
\* size had been asked for.
TransfersAdmitted == BodiesAdmitted \/ ObjectsAdmitted

\* Whatever lookups answer, and however they differ, every connection goes to an
\* address that passes the guard, and the TLS clients of a call go to one address.
OnlyAllowedDialed ==
  \A r \in Requests :
    /\ conn[r] # None => checkAddr(conn[r])
    /\ \A f \in Fetchers : peer[r][f] # None => checkAddr(peer[r][f]) /\ peer[r][f] = ip[r]

\* A request ends, or waits only for its client to read the response, with no
\* more than its pending place: a client who does not read, or a peer who does
\* not answer, keeps no transfer, gate or slot from the others.
Served ==
  \A r \in Requests :
    []<>\/ pc[r] = "off"
        \/ pc[r] = "write" /\ holds[r] \subseteq {"pending"} /\ \A k \in Keys : gate[k] # r
=============================================================================
