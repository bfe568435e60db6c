--------------------------- MODULE ServiceProofs ----------------------------
(***************************************************************************)
(* Safety of Service for any number of requests, places, fetches and       *)
(* redirects, and for any assignment of addresses to lookups.              *)
(***************************************************************************)
EXTENDS Service, FiniteSetTheorems, TLAPS

\* Which places a request has at each stage.  A place is taken where it is not
\* yet held, and what is held at the end is what the deferred calls release.
HoldsOf(r) ==
  /\ pc[r] \in {"off", "size"} => holds[r] = {}
  /\ "slots" \in holds[r] => pc[r] \in {"certget", "work"}
  /\ holds[r] \subseteq deferred[r] \cup {"slots"}
  /\ pc[r] = "big" => "bigIO" \notin holds[r]

\* A big upload follows its place, and the handler that has other big data is
\* known by its stage.
DataOf(r) ==
  /\ pc[r] = "off" => data[r] = "none"
  /\ pc[r] \in {"link", "parse"} => kind[r] = "link"
  /\ pc[r] \in {"size", "der"} => kind[r] = "der"
  /\ pc[r] = "body" /\ r \in BigUploads => "bigIO" \in holds[r]

\* A download has made fewer requests than MaxVia, unless it is just being
\* redirected, and is connected to an allowed address.
ClientOf(r) ==
  /\ stage[r] = "off" => via[r] = 0
  /\ stage[r] # "redirect" => via[r] < MaxVia
  /\ conn[r] # None => checkAddr(conn[r])

\* A call to certget has an allowed address while it runs, and its clients are
\* connected to that one and to nothing after they are over.
CertgetOf(r) ==
  /\ ip[r] # None => checkAddr(ip[r])
  /\ \A f \in Fetchers :
       /\ peer[r][f] # None => client[r][f] = "handshake" /\ peer[r][f] = ip[r]
       /\ client[r][f] \in {"dial", "handshake"} => call[r] = "run"

RequestInv ==
  \A r \in Requests : HoldsOf(r) /\ DataOf(r) /\ ClientOf(r) /\ CertgetOf(r)

IndInv == TypeOK /\ PlacesKept /\ RequestInv

-----------------------------------------------------------------------------
(***************************************************************************)
(* The guarded client and certget, whose steps are those of one request.   *)
(***************************************************************************)

ClientInv == ClientTypeOK /\ \A r \in Requests : ClientOf(r)
CertgetInv == CertgetTypeOK /\ \A r \in Requests : CertgetOf(r)

LEMMA AnswersAreAddresses ==
  ASSUME NEW h, NEW addrs \in Answers(h), NEW a \in addrs
  PROVE  a \in Addrs
BY DEF Answers

\* A download keeps within its redirects and its guard.
LEMMA ClientPart ==
  ASSUME ClientInv, NEW r \in Requests,
         ClientStep(r) \/ (\E h \in Hosts : Get(r, h)) \/ UNCHANGED clientVars
  PROVE  ClientInv'
<1> USE DEF To, ClientOf, ClientTypeOK
<1>1. ClientTypeOK /\ ClientOf(r)
  BY DEF ClientInv
<1>2. ASSUME NEW q \in Requests, Return(r) PROVE ClientTypeOK' /\ ClientOf(q)'
  <2>1. ClientOf(q)
    BY DEF ClientInv
  <2> QED
    BY <1>1, <1>2, <2>1, MaxViaAssumption DEF Return
<1>3. ASSUME NEW q \in Requests, CheckHost(r) \/ CheckRedirect(r)
      PROVE  ClientTypeOK' /\ ClientOf(q)'
  <2>1. ClientOf(q)
    BY DEF ClientInv
  <2>2. CASE /\ stage' = [stage EXCEPT ![r] = "dial"] /\ stage[r] = "check"
             /\ UNCHANGED <<host, via, conn>>
    BY <1>1, <2>1, <2>2
  <2>3. CASE /\ stage' = [stage EXCEPT ![r] = "check"] /\ via[r] < MaxVia
             /\ stage[r] = "redirect" /\ UNCHANGED <<host, via, conn>>
    BY <1>1, <2>1, <2>3
  <2> QED
    BY <1>2, <1>3, <2>2, <2>3 DEF CheckHost, CheckRedirect
<1>4. ASSUME NEW q \in Requests, Dial(r) PROVE ClientTypeOK' /\ ClientOf(q)'
  <2>1. ClientOf(q)
    BY DEF ClientInv
  <2>2. ASSUME NEW a \in Addrs, DialerControl(a),
               conn' = [conn EXCEPT ![r] = a], host' = [host EXCEPT ![r] = None],
               stage' = [stage EXCEPT ![r] = "headers"], UNCHANGED via, stage[r] = "dial"
        PROVE  ClientTypeOK' /\ ClientOf(q)'
    BY <1>1, <2>1, <2>2 DEF DialerControl
  <2> QED
    BY <1>2, <1>4, <2>2, AnswersAreAddresses DEF Dial
<1>5. ASSUME NEW q \in Requests, Headers(r) PROVE ClientTypeOK' /\ ClientOf(q)'
  <2>1. ClientOf(q)
    BY DEF ClientInv
  <2>2. CASE /\ stage' = [stage EXCEPT ![r] = "start"] /\ stage[r] = "headers"
             /\ UNCHANGED <<host, via, conn>>
    BY <1>1, <2>1, <2>2
  <2>3. ASSUME NEW h \in Hosts, stage' = [stage EXCEPT ![r] = "redirect"],
               host' = [host EXCEPT ![r] = h], via' = [via EXCEPT ![r] = @ + 1],
               conn' = [conn EXCEPT ![r] = None], stage[r] = "headers"
        PROVE  ClientTypeOK' /\ ClientOf(q)'
    BY <1>1, <2>1, <2>3, MaxViaAssumption
  <2> QED
    BY <1>2, <1>5, <2>2, <2>3 DEF Headers
<1>6. ASSUME NEW q \in Requests, checkObjectStart(r) PROVE ClientTypeOK' /\ ClientOf(q)'
  <2>1. ClientOf(q)
    BY DEF ClientInv
  <2>2. CASE /\ stage' = [stage EXCEPT ![r] = "body"] /\ stage[r] = "start"
             /\ UNCHANGED <<host, via, conn>>
    BY <1>1, <2>1, <2>2
  <2> QED
    BY <1>2, <1>6, <2>2 DEF checkObjectStart
<1>7. ASSUME NEW q \in Requests, NEW h \in Hosts, Get(r, h)
      PROVE  ClientTypeOK' /\ ClientOf(q)'
  <2>1. ClientOf(q)
    BY DEF ClientInv
  <2> QED
    BY <1>1, <1>7, <2>1, MaxViaAssumption DEF Get
<1>8. ASSUME NEW q \in Requests, UNCHANGED clientVars PROVE ClientTypeOK' /\ ClientOf(q)'
  BY <1>8 DEF ClientInv, clientVars, checkAddr
<1>9. ASSUME NEW q \in Requests PROVE ClientTypeOK' /\ ClientOf(q)'
  BY <1>2, <1>3, <1>4, <1>5, <1>6, <1>7, <1>8
     DEF ClientStep, readLimited, IdleTimeout, Cancelled
<1> QED
  BY <1>9 DEF ClientInv

\* The TLS clients of a call dial the one address that was found and checked.
LEMMA CertgetPart ==
  ASSUME CertgetInv, NEW r \in Requests,
         CertgetStep(r) \/ Post(r) \/ Hangup(r) \/ UNCHANGED certgetVars
  PROVE  CertgetInv'
<1> USE DEF CertgetOf, CertgetTypeOK, Finished
<1>1. CertgetTypeOK /\ CertgetOf(r)
  BY DEF CertgetInv
<1> SUFFICES ASSUME NEW q \in Requests PROVE CertgetTypeOK' /\ CertgetOf(q)'
  BY <1>1 DEF CertgetInv
<1>2. CertgetOf(q)
  BY DEF CertgetInv
<1>3. CASE resolveAndGuard(r)
  <2>1. CASE /\ call' = [call EXCEPT ![r] = "refused"] /\ call[r] = "resolve"
             /\ UNCHANGED <<ip, client, peer>>
    BY <1>1, <1>2, <2>1
  <2>2. ASSUME NEW a \in Addrs, checkAddr(a), call[r] = "resolve",
               ip' = [ip EXCEPT ![r] = a], call' = [call EXCEPT ![r] = "run"],
               client' = [client EXCEPT ![r] = [f \in Fetchers |-> "dial"]],
               UNCHANGED peer
        PROVE  CertgetTypeOK' /\ CertgetOf(q)'
    BY <1>1, <1>2, <2>2
  <2> QED
    BY <1>3, <2>1, <2>2, AnswersAreAddresses DEF resolveAndGuard, Check
<1>4. CASE Answer(r)
  BY <1>1, <1>2, <1>4 DEF Answer
<1>5. ASSUME NEW f \in Fetchers, Connect(r, f) PROVE CertgetTypeOK' /\ CertgetOf(q)'
  <2>1. CASE /\ client' = [client EXCEPT ![r][f] = "failed"] /\ client[r][f] = "dial"
             /\ UNCHANGED <<call, ip, peer>>
    BY <1>1, <1>2, <2>1
  <2>2. CASE /\ client' = [client EXCEPT ![r][f] = "handshake"] /\ client[r][f] = "dial"
             /\ peer' = [peer EXCEPT ![r][f] = ip[r]] /\ UNCHANGED <<call, ip>>
    BY <1>1, <1>2, <2>2
  <2> QED
    BY <1>5, <2>1, <2>2 DEF Connect, Target
<1>6. ASSUME NEW f \in Fetchers, Handshake(r, f) PROVE CertgetTypeOK' /\ CertgetOf(q)'
  BY <1>1, <1>2, <1>6 DEF Handshake
<1>7. CASE Post(r)
  BY <1>1, <1>2, <1>7 DEF Post
<1>8. CASE Hangup(r)
  BY <1>1, <1>2, <1>8 DEF Hangup
<1>9. CASE UNCHANGED certgetVars
  BY <1>1, <1>2, <1>9 DEF certgetVars
<1> QED
  BY <1>3, <1>4, <1>5, <1>6, <1>7, <1>8, <1>9 DEF CertgetStep

-----------------------------------------------------------------------------
(***************************************************************************)
(* Places: the tokens in a channel are as many as the requests that have   *)
(* sent one and not yet received it back.                                  *)
(***************************************************************************)

Holders(s) == {r \in Requests : s \in holds[r]}

Accounting ==
  /\ tokens \in [Sems -> Nat] /\ \A s \in Sems : tokens[s] <= Capacity[s]
  /\ holds \in [Requests -> SUBSET Sems]
  /\ \A s \in Sems : tokens[s] = Cardinality(Holders(s))

\* A set of requests that gains or loses one member grows or shrinks by one.
LEMMA Counting ==
  ASSUME NEW X \in SUBSET Requests, NEW r \in Requests
  PROVE  /\ Cardinality(X) \in Nat
         /\ r \notin X => Cardinality(X \cup {r}) = Cardinality(X) + 1
         /\ r \in X => /\ Cardinality(X \ {r}) = Cardinality(X) - 1
                       /\ Cardinality(X) > 0
<1>1. IsFiniteSet(X)
  BY FS_Subset, RequestsAssumption
<1>2. Cardinality(X) \in Nat
  BY <1>1, FS_CardinalityType
<1>3. r \notin X => Cardinality(X \cup {r}) = Cardinality(X) + 1
  BY <1>1, FS_AddElement
<1>4. r \in X => Cardinality(X \ {r}) = Cardinality(X) - 1
  BY <1>1, FS_RemoveElement
<1>5. r \in X => Cardinality(X) # 0
  BY <1>1, FS_EmptySet
<1> QED
  BY <1>2, <1>3, <1>4, <1>5

\* A place taken where none is held.
LEMMA TakePart ==
  ASSUME Accounting, NEW r \in Requests, NEW s \in Sems, s \notin holds[r],
         NEW d, Take(r, s, d)
  PROVE  Accounting'
<1> USE DEF Take, Free
<1>1. /\ tokens \in [Sems -> Nat] /\ holds \in [Requests -> SUBSET Sems]
      /\ \A u \in Sems : tokens[u] <= Capacity[u] /\ tokens[u] = Cardinality(Holders(u))
  BY DEF Accounting
<1>2. /\ tokens' \in [Sems -> Nat]
      /\ \A u \in Sems : tokens'[u] <= Capacity[u]
  BY <1>1, CapacityAssumption
<1>3. holds' \in [Requests -> SUBSET Sems]
  BY <1>1
<1>4. r \notin Holders(s) /\ Holders(s)' = Holders(s) \cup {r}
  BY <1>1 DEF Holders
<1>5. \A u \in Sems \ {s} : Holders(u)' = Holders(u)
  BY <1>1 DEF Holders
<1>6. Cardinality(Holders(s)') = Cardinality(Holders(s)) + 1
  BY <1>4, Counting DEF Holders
<1>7. \A u \in Sems : tokens'[u] = Cardinality(Holders(u)')
  BY <1>1, <1>5, <1>6
<1> QED
  BY <1>2, <1>3, <1>7 DEF Accounting

\* Places given back, of which only those still held are received.
LEMMA GivePart ==
  ASSUME Accounting, NEW r \in Requests, NEW S, Give(r, S)
  PROVE  Accounting'
<1>1. /\ tokens \in [Sems -> Nat] /\ holds \in [Requests -> SUBSET Sems]
      /\ \A u \in Sems : tokens[u] <= Capacity[u] /\ tokens[u] = Cardinality(Holders(u))
  BY DEF Accounting
<1>2. holds' = [holds EXCEPT ![r] = @ \ S] /\ holds' \in [Requests -> SUBSET Sems]
  BY <1>1 DEF Give
<1>3. ASSUME NEW u \in Sems
      PROVE  tokens'[u] \in Nat /\ tokens'[u] <= Capacity[u]
               /\ tokens'[u] = Cardinality(Holders(u)')
  <2>1. Holders(u) \in SUBSET Requests
    BY DEF Holders
  <2>2. CASE u \in S \cap holds[r]
    <3>1. r \in Holders(u) /\ Holders(u)' = Holders(u) \ {r}
      BY <1>1, <1>2, <2>2 DEF Holders
    <3>2. Cardinality(Holders(u)') = Cardinality(Holders(u)) - 1 /\ Cardinality(Holders(u)) > 0
      BY <2>1, <3>1, Counting
    <3>3. tokens'[u] = tokens[u] - 1
      BY <2>2 DEF Give, Released
    <3> QED
      BY <1>1, <3>2, <3>3, CapacityAssumption
  <2>3. CASE u \notin S \cap holds[r]
    <3>1. Holders(u)' = Holders(u)
      BY <1>1, <1>2, <2>3 DEF Holders
    <3>2. tokens'[u] = tokens[u]
      BY <2>3 DEF Give, Released
    <3> QED
      BY <1>1, <3>1, <3>2
  <2> QED
    BY <2>2, <2>3
<1>4. tokens' \in [Sems -> Nat]
  <2>1. tokens' = [u \in Sems |-> tokens'[u]]
    BY DEF Give, Released
  <2> QED
    BY <1>3, <2>1
<1> QED
  BY <1>2, <1>3, <1>4 DEF Accounting

-----------------------------------------------------------------------------
(***************************************************************************)
(* One step of one request.                                                *)
(***************************************************************************)

Step(r) ==
  \/ \E k \in Kinds : Arrive(r, k)
  \/ Handler(r) \/ ClientReads(r) \/ Leave(r) \/ Outbound(r)

\* Every step takes one place that is not held, gives places back, or touches
\* none.
LEMMA PlacesStep ==
  ASSUME IndInv, NEW r \in Requests, Step(r)
  PROVE  \/ \E s \in Sems, d \in SUBSET Sems : s \notin holds[r] /\ Take(r, s, d)
         \/ \E S \in SUBSET Sems : Give(r, S)
         \/ UNCHANGED <<tokens, holds>>
<1> USE DEF Sems
<1>1. HoldsOf(r) /\ deferred[r] \in SUBSET Sems
  BY DEF IndInv, RequestInv, TypeOK
<1> USE DEF HoldsOf
<1>2. ASSUME NEW k \in Kinds, Arrive(r, k)
      PROVE  UNCHANGED <<tokens, holds>> \/ (Take(r, "pending", {"pending"}) /\ pc[r] = "off")
  BY <1>2 DEF Arrive, Places
<1>3. CASE AcquireUpload(r) \/ DERSize(r)
  BY <1>1, <1>3 DEF AcquireUpload, DERSize, acquireBig, Places
<1>4. CASE ReadUpload(r) \/ ReadLink(r) \/ ParseLink(r) \/ FindCert(r) \/ ReadURL(r) \/ ReadHostPort(r)
             \/ CheckSite(r)
  BY <1>4 DEF ReadUpload, ReadLink, ParseLink, FindCert, ReadURL, ReadHostPort, CheckSite, Input, Places
<1>5. CASE TakeGate(r) \/ Analyzed(r) \/ Fail(r)
  <2>1. Give(r, {"slots", "bigIO"}) \/ UNCHANGED <<tokens, holds>>
    BY <1>5 DEF TakeGate, Analyzed, Fail, Respond
  <2> QED
    BY <2>1
<1>6. CASE TakeSlot(r)
  <2>1. "slots" \notin holds[r] /\ Take(r, "slots", {})
    BY <1>1, <1>6 DEF TakeSlot
  <2> QED
    BY <2>1
<1>7. CASE CertgetReturns(r) \/ NextChain(r) \/ FindDER(r) \/ WriteFails(r) \/ ClientReads(r)
             \/ Leave(r) \/ \E h \in Hosts : Fetch(r, h)
  BY <1>7 DEF CertgetReturns, NextChain, FindDER, WriteFails, ClientReads, Written, Leave,
              Fetch, Places
<1>8. CASE End(r)
  BY <1>1, <1>8 DEF End
<1>9. CASE Outbound(r)
  BY <1>9 DEF Outbound, handlerVars
<1> QED
  BY <1>1, <1>2, <1>3, <1>4, <1>5, <1>6, <1>7, <1>8, <1>9 DEF Step, Handler

\* A big upload is in memory only with its place, a place for an object is kept.
GatedOf(r) ==
  /\ kind[r] = "analyze" /\ data[r] = "big" => "bigIO" \in holds[r]
  /\ "bigDER" \in deferred[r] => "bigDER" \in holds[r]

HandlerInvOf(r) == HoldsOf(r) /\ DataOf(r) /\ GatedOf(r)

\* The variables of the handlers have their types.
HandlerTypeOK ==
  /\ pc \in [Requests -> Stages]
  /\ kind \in [Requests -> Kinds \cup {None}]
  /\ gone \in [Requests -> BOOLEAN]
  /\ holds \in [Requests -> SUBSET Sems]
  /\ deferred \in [Requests -> SUBSET Sems]
  /\ gate \in [Keys -> Requests \cup {None}]
  /\ data \in [Requests -> {"none", "small", "big"}]
  /\ fetches \in [Requests -> Nat]
  /\ chains \in [Requests -> 0..Cardinality(Fetchers)]

\* The invariant regrouped by what a step touches.
LEMMA Parts ==
  IndInv <=> /\ Accounting /\ HandlerTypeOK /\ stored \in BOOLEAN
             /\ ClientInv /\ CertgetInv
             /\ \A r \in Requests : HandlerInvOf(r)
BY DEF IndInv, TypeOK, PlacesKept, RequestInv, Accounting, Holders, HandlerTypeOK,
       ClientInv, CertgetInv, HandlerInvOf, GatedOf

\* A handler leaves the other requests alone.
LEMMA OthersStep ==
  ASSUME IndInv, NEW r \in Requests, Step(r), NEW q \in Requests, q # r
  PROVE  /\ pc'[q] = pc[q] /\ kind'[q] = kind[q] /\ holds'[q] = holds[q]
         /\ deferred'[q] = deferred[q] /\ data'[q] = data[q]
<1> USE DEF Goto, Take, Give, Places
<1>1. HandlerTypeOK
  BY Parts
<1>2. /\ pc \in [Requests -> Stages] /\ kind \in [Requests -> Kinds \cup {None}]
      /\ holds \in [Requests -> SUBSET Sems] /\ deferred \in [Requests -> SUBSET Sems]
      /\ data \in [Requests -> {"none", "small", "big"}]
  BY <1>1 DEF HandlerTypeOK
<1>3. ASSUME NEW k \in Kinds, Arrive(r, k)
      PROVE  /\ pc'[q] = pc[q] /\ kind'[q] = kind[q] /\ holds'[q] = holds[q]
             /\ deferred'[q] = deferred[q] /\ UNCHANGED data
  BY <1>2, <1>3 DEF Arrive
<1>4. CASE AcquireUpload(r) \/ DERSize(r)
  BY <1>2, <1>4 DEF AcquireUpload, DERSize, acquireBig
<1>5. CASE ReadUpload(r) \/ ReadLink(r) \/ ParseLink(r) \/ FindCert(r) \/ ReadURL(r) \/ ReadHostPort(r)
             \/ CheckSite(r)
  BY <1>2, <1>5 DEF ReadUpload, ReadLink, ParseLink, FindCert, ReadURL, ReadHostPort, CheckSite, Input
<1>6. CASE TakeGate(r) \/ Analyzed(r) \/ Fail(r) \/ TakeSlot(r)
  BY <1>2, <1>6 DEF TakeGate, Analyzed, Fail, Respond, TakeSlot
<1>7. CASE CertgetReturns(r) \/ NextChain(r) \/ FindDER(r) \/ WriteFails(r) \/ ClientReads(r)
             \/ Leave(r) \/ \E h \in Hosts : Fetch(r, h)
  BY <1>2, <1>7 DEF CertgetReturns, NextChain, FindDER, WriteFails, ClientReads, Written, Leave,
                    Fetch
<1>8. CASE End(r)
  BY <1>2, <1>8 DEF End
<1>9. CASE Outbound(r)
  BY <1>9 DEF Outbound, handlerVars
<1> QED
  BY <1>3, <1>4, <1>5, <1>6, <1>7, <1>8, <1>9 DEF Step, Handler

\* The handler itself has the places its stage needs.
LEMMA SelfStep ==
  ASSUME IndInv, NEW r \in Requests, Step(r)
  PROVE  HandlerInvOf(r)'
<1> USE DEF Goto, Places
<1>1. HandlerInvOf(r)
  BY Parts
<1>2. /\ pc \in [Requests -> Stages] /\ kind \in [Requests -> Kinds \cup {None}]
      /\ holds \in [Requests -> SUBSET Sems] /\ deferred \in [Requests -> SUBSET Sems]
      /\ data \in [Requests -> {"none", "small", "big"}]
  BY Parts DEF HandlerTypeOK
<1> USE DEF HandlerInvOf, HoldsOf, DataOf, GatedOf
<1>3. ASSUME NEW k \in Kinds, Arrive(r, k) PROVE HandlerInvOf(r)'
  <2>1. PICK l \in First(k) : pc' = [pc EXCEPT ![r] = l]
    BY <1>3 DEF Arrive
  <2>2. /\ l \in {"big", "link", "find", "url", "hostport", "size"}
        /\ l = "size" <=> k = "der"
        /\ l = "link" <=> k = "link"
    BY <2>1 DEF Kinds, First
  <2>3. /\ pc[r] = "off" /\ kind' = [kind EXCEPT ![r] = k] /\ data' = data
    BY <1>3 DEF Arrive
  <2>4. /\ k = "der" => holds'[r] = holds[r] /\ deferred'[r] = deferred[r]
        /\ k # "der" => /\ holds'[r] = holds[r] \cup {"pending"}
                        /\ deferred'[r] = deferred[r] \cup {"pending"}
    BY <1>2, <1>3 DEF Arrive, Take
  <2> QED
    BY <1>1, <1>2, <2>1, <2>2, <2>3, <2>4
<1>4. CASE AcquireUpload(r)
  BY <1>1, <1>2, <1>4 DEF AcquireUpload, acquireBig, Take
<1>5. CASE DERSize(r)
  BY <1>1, <1>2, <1>5 DEF DERSize, acquireBig, Take
<1>6. CASE ReadUpload(r)
  BY <1>1, <1>2, <1>6 DEF ReadUpload, Input, Lookup
<1>7. CASE ReadLink(r) \/ ParseLink(r) \/ FindCert(r) \/ ReadURL(r) \/ ReadHostPort(r)
  BY <1>1, <1>2, <1>7 DEF ReadLink, ParseLink, FindCert, ReadURL, ReadHostPort, Input, Lookup
<1>8. CASE CheckSite(r)
  BY <1>1, <1>2, <1>8 DEF CheckSite, Lookup
<1>9. ASSUME NEW l \in {"write", "end"}, Respond(r, l), UNCHANGED <<kind, deferred>>
      PROVE  HandlerInvOf(r)'
  BY <1>1, <1>2, <1>9 DEF Respond, Give
<1>10. CASE TakeGate(r)
  <2>1. CASE pc[r] = "gate" /\ Goto(r, "slot") /\ UNCHANGED <<tokens, holds, data, kind,
                                                             deferred>>
    BY <1>1, <1>2, <2>1
  <2> QED
    BY <1>9, <1>10, <2>1 DEF TakeGate
<1>11. CASE Analyzed(r) \/ Fail(r)
  BY <1>9, <1>11 DEF Analyzed, Fail
<1>12. CASE TakeSlot(r)
  BY <1>1, <1>2, <1>12 DEF TakeSlot, Take
<1>13. CASE CertgetReturns(r) \/ NextChain(r) \/ Leave(r) \/ \E h \in Hosts : Fetch(r, h)
  BY <1>1, <1>2, <1>13 DEF CertgetReturns, NextChain, Leave, Fetch
<1>14. CASE FindDER(r) \/ WriteFails(r) \/ ClientReads(r)
  BY <1>1, <1>2, <1>14 DEF FindDER, WriteFails, ClientReads, Written
<1>15. CASE End(r)
  BY <1>1, <1>2, <1>15 DEF End, Give
<1>16. CASE Outbound(r)
  BY <1>1, <1>16 DEF Outbound, handlerVars
<1> QED
  BY <1>3, <1>4, <1>5, <1>6, <1>7, <1>8, <1>10, <1>11, <1>12, <1>13, <1>14, <1>15, <1>16
     DEF Step, Handler

\* A site request analyses at most one chain per TLS client.
LEMMA ChainCount ==
  ASSUME NEW X \in SUBSET Fetchers
  PROVE  Cardinality(X) \in 0..Cardinality(Fetchers)
<1>1. IsFiniteSet(Fetchers)
  <2>1. IsFiniteSet({"go-stdlib"})
    BY FS_Singleton
  <2>2. IsFiniteSet({"go-stdlib"} \cup {"openssl-gost"})
    BY <2>1, FS_AddElement
  <2>3. Fetchers = {"go-stdlib"} \cup {"openssl-gost"}
    BY DEF Fetchers
  <2> QED
    BY <2>2, <2>3
<1>2. /\ IsFiniteSet(X) /\ Cardinality(X) <= Cardinality(Fetchers)
  BY <1>1, FS_Subset
<1> QED
  BY <1>1, <1>2, FS_CardinalityType

LEMMA HandlerTypeStep ==
  ASSUME IndInv, NEW r \in Requests, Step(r)
  PROVE  HandlerTypeOK'
<1> USE DEF Goto, Places, Stages, HandlerTypeOK
<1>1. HandlerTypeOK
  BY Parts
<1>2. ASSUME NEW k \in Kinds, Arrive(r, k) PROVE HandlerTypeOK'
  <2>1. PICK l \in First(k) : pc' = [pc EXCEPT ![r] = l]
    BY <1>2 DEF Arrive
  <2>2. l \in {"big", "link", "find", "url", "hostport", "size"}
    BY <2>1 DEF Kinds, First
  <2>3. /\ holds' \in [Requests -> SUBSET Sems]
        /\ deferred' \in [Requests -> SUBSET Sems]
    BY <1>1, <1>2 DEF Arrive, Take, Sems
  <2>4. /\ kind' = [kind EXCEPT ![r] = k]
        /\ UNCHANGED <<gone, gate, data, fetches, chains>>
    BY <1>2 DEF Arrive
  <2> QED
    BY <1>1, <2>1, <2>2, <2>3, <2>4
<1>3. CASE AcquireUpload(r) \/ DERSize(r)
  BY <1>1, <1>3 DEF AcquireUpload, DERSize, acquireBig, Take, Sems
<1>4. CASE ReadUpload(r) \/ ReadLink(r) \/ ParseLink(r) \/ FindCert(r) \/ ReadURL(r) \/ ReadHostPort(r)
             \/ CheckSite(r)
  BY <1>1, <1>4 DEF ReadUpload, ReadLink, ParseLink, FindCert, ReadURL, ReadHostPort, CheckSite, Input,
                    Lookup
<1>5. ASSUME NEW l \in {"write", "end"}, Respond(r, l)
      PROVE  /\ holds' \in [Requests -> SUBSET Sems]
             /\ gate' \in [Keys -> Requests \cup {None}]
             /\ data' \in [Requests -> {"none", "small", "big"}]
             /\ pc' \in [Requests -> Stages]
  BY <1>1, <1>5 DEF Respond, Give
<1>6. CASE TakeGate(r)
  <2>1. UNCHANGED <<kind, gone, deferred, fetches, chains>>
    BY <1>6 DEF TakeGate
  <2>2. CASE /\ gate' = [gate EXCEPT ![KeyOf[r]] = r] /\ Goto(r, "slot")
             /\ UNCHANGED <<tokens, holds, data>>
    BY <1>1, <2>1, <2>2
  <2>3. ASSUME NEW l \in {"write", "end"}, Respond(r, l) PROVE HandlerTypeOK'
    BY <1>1, <1>5, <2>1, <2>3
  <2> QED
    BY <1>6, <2>2, <2>3 DEF TakeGate
<1>7. CASE Analyzed(r) \/ Fail(r)
  <2>1. UNCHANGED <<kind, gone, deferred, fetches>>
    BY <1>7 DEF Analyzed, Fail
  <2>2. chains' \in [Requests -> 0..Cardinality(Fetchers)]
    BY <1>1, <1>7, ChainCount DEF Analyzed, Fail
  <2>3. \E l \in {"write", "end"} : Respond(r, l)
    BY <1>7 DEF Analyzed, Fail
  <2> QED
    BY <1>1, <1>5, <2>1, <2>2, <2>3
<1>8. CASE TakeSlot(r)
  BY <1>1, <1>8 DEF TakeSlot, Take, Sems
<1>9. CASE CertgetReturns(r)
  BY <1>1, <1>9, ChainCount DEF CertgetReturns
<1>10. CASE NextChain(r)
  <2>1. Cardinality(Fetchers) \in Nat
    BY ChainCount
  <2>2. chains' \in [Requests -> 0..Cardinality(Fetchers)]
    BY <1>1, <1>10, <2>1 DEF NextChain
  <2> QED
    BY <1>1, <1>10, <2>2 DEF NextChain
<1>11. ASSUME NEW h \in Hosts, Fetch(r, h) PROVE HandlerTypeOK'
  <2>1. fetches' \in [Requests -> Nat]
    BY <1>1, <1>11 DEF Fetch
  <2> QED
    BY <1>1, <1>11, <2>1 DEF Fetch
<1>12. CASE FindDER(r) \/ WriteFails(r) \/ ClientReads(r)
  BY <1>1, <1>12 DEF FindDER, WriteFails, ClientReads, Written
<1>13. CASE Leave(r)
  BY <1>1, <1>13 DEF Leave
<1>14. CASE End(r)
  <2>1. /\ holds' \in [Requests -> SUBSET Sems]
        /\ deferred' \in [Requests -> SUBSET Sems]
        /\ data' \in [Requests -> {"none", "small", "big"}]
        /\ gone' \in [Requests -> BOOLEAN]
    BY <1>1, <1>14 DEF End, Give
  <2>2. /\ kind' \in [Requests -> Kinds \cup {None}]
        /\ fetches' \in [Requests -> Nat]
        /\ pc' \in [Requests -> Stages]
        /\ UNCHANGED <<gate, chains>>
    BY <1>1, <1>14, FetchesAssumption DEF End
  <2> QED
    BY <1>1, <2>1, <2>2
<1>15. CASE Outbound(r)
  BY <1>1, <1>15 DEF Outbound, handlerVars
<1> QED
  BY <1>2, <1>3, <1>4, <1>6, <1>7, <1>8, <1>9, <1>10, <1>11, <1>12, <1>13, <1>14, <1>15
     DEF Step, Handler

\* What a step of a handler does outside: begin a download, call certget or
\* drop its answer.
LEMMA OutsideStep ==
  ASSUME NEW r \in Requests, Step(r)
  PROVE  /\ ClientStep(r) \/ (\E h \in Hosts : Get(r, h)) \/ UNCHANGED clientVars
         /\ CertgetStep(r) \/ Post(r) \/ Hangup(r) \/ UNCHANGED certgetVars
         /\ UNCHANGED stored
<1> USE DEF Rest
<1>1. ASSUME NEW k \in Kinds, Arrive(r, k) PROVE Hangup(r) /\ UNCHANGED <<stored, clientVars>>
  BY <1>1 DEF Arrive
<1>2. TakeSlot(r) => UNCHANGED <<stored, clientVars>> /\ (Post(r) \/ UNCHANGED certgetVars)
  BY DEF TakeSlot
<1>3. ASSUME NEW h \in Hosts, Fetch(r, h) PROVE Get(r, h) /\ UNCHANGED <<stored, certgetVars>>
  BY <1>3 DEF Fetch
<1>4. Outbound(r) => \/ ClientStep(r) /\ UNCHANGED <<stored, certgetVars>>
                     \/ CertgetStep(r) /\ UNCHANGED <<stored, clientVars>>
  BY DEF Outbound
<1>5. \/ AcquireUpload(r) \/ ReadUpload(r) \/ ReadLink(r) \/ ParseLink(r) \/ FindCert(r) \/ ReadURL(r)
      \/ ReadHostPort(r) \/ CheckSite(r) \/ TakeGate(r) \/ CertgetReturns(r) \/ NextChain(r)
      => UNCHANGED clientVars /\ UNCHANGED certgetVars /\ UNCHANGED stored
  BY DEF AcquireUpload, ReadUpload, ReadLink, ParseLink, FindCert, ReadURL, ReadHostPort, Input,
         CheckSite, TakeGate, CertgetReturns, NextChain
<1>6. \/ Analyzed(r) \/ Fail(r) \/ DERSize(r) \/ FindDER(r) \/ WriteFails(r) \/ ClientReads(r)
      \/ End(r) \/ Leave(r)
      => UNCHANGED clientVars /\ UNCHANGED certgetVars /\ UNCHANGED stored
  BY DEF Analyzed, Fail, DERSize, FindDER, WriteFails, ClientReads, Written, End, Leave
<1> QED
  BY <1>1, <1>2, <1>3, <1>4, <1>5, <1>6 DEF Step, Handler

-----------------------------------------------------------------------------

LEMMA InitIndInv == Init => IndInv
<1> SUFFICES ASSUME Init
             PROVE  /\ Accounting /\ HandlerTypeOK /\ stored \in BOOLEAN
                    /\ ClientInv /\ CertgetInv
                    /\ \A r \in Requests : HandlerInvOf(r)
  BY Parts
<1>1. Accounting
  <2>1. \A s \in Sems : Holders(s) = {}
    BY DEF Init, Holders
  <2>2. tokens \in [Sems -> Nat] /\ \A s \in Sems : tokens[s] = 0
    BY DEF Init
  <2>3. holds \in [Requests -> SUBSET Sems]
    BY DEF Init
  <2>4. \A s \in Sems : Cardinality(Holders(s)) = 0
    BY <2>1, FS_EmptySet
  <2>5. \A s \in Sems : tokens[s] <= Capacity[s]
    BY <2>2, CapacityAssumption
  <2> QED
    BY <2>1, <2>2, <2>3, <2>4, <2>5 DEF Accounting
<1>2. HandlerTypeOK
  BY ChainCount, FetchesAssumption DEF Init, HandlerTypeOK, Stages
<1>3. ClientInv
  BY MaxViaAssumption DEF Init, ClientInit, ClientInv, ClientTypeOK, ClientOf
<1>4. CertgetInv
  BY DEF Init, CertgetInit, CertgetInv, CertgetTypeOK, CertgetOf, Finished
<1>5. \A r \in Requests : HandlerInvOf(r)
  BY DEF Init, HandlerInvOf, HoldsOf, DataOf, GatedOf
<1>6. stored \in BOOLEAN
  BY DEF Init
<1> QED
  BY <1>1, <1>2, <1>3, <1>4, <1>5, <1>6

LEMMA NextIndInv == IndInv /\ [Next]_vars => IndInv'
<1>1. ASSUME IndInv, NEW r \in Requests, Step(r) PROVE IndInv'
  <2>1. Accounting /\ ClientInv /\ CertgetInv
    BY <1>1, Parts
  <2>2. Accounting'
    <3>1. CASE UNCHANGED <<tokens, holds>>
      BY <2>1, <3>1 DEF Accounting, Holders
    <3> QED
      BY <1>1, <2>1, <3>1, PlacesStep, TakePart, GivePart
  <2>3. HandlerTypeOK'
    BY <1>1, HandlerTypeStep
  <2>4. ClientInv'
    BY <1>1, <2>1, OutsideStep, ClientPart
  <2>5. CertgetInv'
    BY <1>1, <2>1, OutsideStep, CertgetPart
  <2>6. ASSUME NEW q \in Requests PROVE HandlerInvOf(q)'
    <3>1. CASE q = r
      BY <1>1, <3>1, SelfStep
    <3>2. CASE q # r
      <4>1. HandlerInvOf(q)
        BY <1>1, Parts
      <4> QED
        BY <1>1, <3>2, <4>1, OthersStep DEF HandlerInvOf, HoldsOf, DataOf, GatedOf
    <3> QED
      BY <3>1, <3>2
  <2>7. stored' \in BOOLEAN
    BY <1>1, Parts, OutsideStep
  <2> QED
    BY <2>2, <2>3, <2>4, <2>5, <2>6, <2>7
       DEF IndInv, TypeOK, PlacesKept, RequestInv, Accounting, Holders, HandlerTypeOK,
           ClientInv, CertgetInv, HandlerInvOf, GatedOf
<1>2. ASSUME IndInv, UNCHANGED <<handlerVars, clientVars, certgetVars>>, stored' \in BOOLEAN
      PROVE  IndInv'
  BY <1>2 DEF IndInv, handlerVars, clientVars, certgetVars, TypeOK, PlacesKept,
              RequestInv, HoldsOf, DataOf, ClientOf, CertgetOf, ClientTypeOK, CertgetTypeOK,
              checkAddr
<1>3. IndInv /\ (StoreChanges \/ UNCHANGED vars) => IndInv'
  <2>1. IndInv => stored \in BOOLEAN
    BY Parts
  <2> QED
    BY <1>2, <2>1 DEF StoreChanges, vars
<1>4. Next => StoreChanges \/ \E r \in Requests : Step(r)
  BY DEF Next, Step
<1> QED
  BY <1>1, <1>3, <1>4

LEMMA Invariance == Spec => []IndInv
BY InitIndInv, NextIndInv, PTL DEF Spec

\* The handlers, the downloads and certget keep the types of their state: no
\* channel holds more than its capacity and no release takes from an empty one.
THEOREM TypeCorrect == Spec => []TypeOK
<1>1. IndInv => TypeOK
  BY DEF IndInv
<1> QED
  BY <1>1, Invariance, PTL

\* Every place taken has one holder, no big upload is in memory without one and
\* no place taken for an object of /api/der is given back before the response is
\* written, for any capacities and any number of requests.
THEOREM Kept == Spec => []PlacesKept
<1>1. IndInv => PlacesKept
  BY DEF IndInv
<1> QED
  BY <1>1, Invariance, PTL

\* Whatever each lookup answers, no connection is made to a blocked address,
\* through redirects or by the TLS clients of certget.
THEOREM AllowedOnly == Spec => []OnlyAllowedDialed
<1>1. ASSUME IndInv PROVE OnlyAllowedDialed
  <2> SUFFICES ASSUME NEW r \in Requests
               PROVE  /\ conn[r] # None => checkAddr(conn[r])
                      /\ \A f \in Fetchers : peer[r][f] # None =>
                           checkAddr(peer[r][f]) /\ peer[r][f] = ip[r]
    BY DEF OnlyAllowedDialed
  <2>1. ClientOf(r) /\ CertgetOf(r)
    BY <1>1 DEF IndInv, RequestInv
  <2> QED
    BY <2>1 DEF ClientOf, CertgetOf
<1> QED
  BY <1>1, Invariance, PTL

=============================================================================
