------------------------------ MODULE Certget -------------------------------
(***************************************************************************)
(* certget: POST /fetch resolves the host once, then every TLS client      *)
(* connects to the address found.  A call is made for a request of         *)
(* certview and goes on without it when certview stops waiting, until its  *)
(* own context ends it.                                                    *)
(***************************************************************************)
EXTENDS AddressGuard

CONSTANT SiteHost  \* the host the site requests name

ASSUME SiteHostAssumption == SiteHost \in Hosts

VARIABLES call,    \* the handler of POST /fetch
          ip,      \* the address resolveAndGuard returned
          client,  \* the goroutine of each fetcher
          peer     \* the address each fetcher is connected to

certgetVars == <<call, ip, client, peer>>

Fetchers == {"go-stdlib", "openssl-gost"}
Finished == {"ok", "failed"}

CertgetTypeOK ==
  /\ call \in [Requests -> {"off", "resolve", "run", "answered", "refused"}]
  /\ ip \in [Requests -> Addrs \cup {None}]
  /\ client \in [Requests -> [Fetchers -> {"off", "dial", "handshake"} \cup Finished]]
  /\ peer \in [Requests -> [Fetchers -> Addrs \cup {None}]]

CertgetInit ==
  /\ call = [r \in Requests |-> "off"]
  /\ ip = [r \in Requests |-> None]
  /\ client = [r \in Requests |-> [f \in Fetchers |-> "off"]]
  /\ peer = [r \in Requests |-> [f \in Fetchers |-> None]]

Post(r) ==
  /\ call[r] = "off"
  /\ call' = [call EXCEPT ![r] = "resolve"]
  /\ UNCHANGED <<ip, client, peer>>

\* Every address must pass, the first is taken; 403 otherwise.
resolveAndGuard(r) ==
  /\ call[r] = "resolve"
  /\ \E addrs \in Answers(SiteHost) :
       IF Check(addrs)
       THEN /\ \E a \in addrs : ip' = [ip EXCEPT ![r] = a]
            /\ call' = [call EXCEPT ![r] = "run"]
            /\ client' = [client EXCEPT ![r] = [f \in Fetchers |-> "dial"]]
            /\ UNCHANGED peer
       ELSE /\ call' = [call EXCEPT ![r] = "refused"]
            /\ UNCHANGED <<ip, client, peer>>

BugTarget(r, f) ==
  IF f = "openssl-gost" THEN UNION Answers(SiteHost) ELSE {ip[r]}

\* Both dial the literal, never the name; only the dialer of go-stdlib has
\* a Control.
Target(r, f) == {a \in {ip[r]} : f = "go-stdlib" => DialerControl(a)}

Connect(r, f) ==
  /\ client[r][f] = "dial"
  /\ \/ \E a \in Target(r, f) :
          /\ peer' = [peer EXCEPT ![r][f] = a]
          /\ client' = [client EXCEPT ![r][f] = "handshake"]
     \/ client' = [client EXCEPT ![r][f] = "failed"] /\ UNCHANGED peer
  /\ UNCHANGED <<call, ip>>

\* The handshake ends, by itself or with the context, and the chain is usable
\* or not: missing, too long, a certificate too big.
Handshake(r, f) ==
  /\ client[r][f] = "handshake"
  /\ \E o \in Finished : client' = [client EXCEPT ![r][f] = o]
  /\ peer' = [peer EXCEPT ![r][f] = None]
  /\ UNCHANGED <<call, ip>>

\* wg.Wait, then the response.
Answer(r) ==
  /\ call[r] = "run"
  /\ \A f \in Fetchers : client[r][f] \in Finished
  /\ call' = [call EXCEPT ![r] = "answered"]
  /\ ip' = [ip EXCEPT ![r] = None]
  /\ UNCHANGED <<client, peer>>

\* The answer has been used, or nobody waited for it.
Hangup(r) ==
  /\ call[r] \in {"off", "answered", "refused"}
  /\ call' = [call EXCEPT ![r] = "off"]
  /\ client' = [client EXCEPT ![r] = [f \in Fetchers |-> "off"]]
  /\ UNCHANGED <<ip, peer>>

CertgetStep(r) ==
  resolveAndGuard(r) \/ Answer(r) \/ \E f \in Fetchers : Connect(r, f) \/ Handshake(r, f)
=============================================================================
