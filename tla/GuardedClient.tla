--------------------------- MODULE GuardedClient ----------------------------
(***************************************************************************)
(* The HTTP client for URLs found in certificates: doFetch over the client *)
(* of newGuardedHTTPClient, at most one download of a request at a time.   *)
(*                                                                         *)
(* Time is not counted: a timer may end the download whenever it runs, and *)
(* what the peer sends is its choice, which may be nothing.  Each request  *)
(* dials; one that finds an idle connection to its host skips that.        *)
(***************************************************************************)
EXTENDS AddressGuard, Naturals

CONSTANT MaxVia  \* requests of one download, the first included

ASSUME MaxViaAssumption == MaxVia \in Nat \ {0}

VARIABLES stage,  \* of the download: off when there is none
          host,   \* the host to connect to
          via,    \* requests made before the present one
          conn    \* the address connected to

clientVars == <<stage, host, via, conn>>

ClientTypeOK ==
  /\ stage \in [Requests ->
                 {"off", "check", "dial", "headers", "redirect", "start", "body"}]
  /\ host \in [Requests -> Hosts \cup {None}]
  /\ via \in [Requests -> 0..MaxVia]
  /\ conn \in [Requests -> Addrs \cup {None}]

ClientInit ==
  /\ stage = [r \in Requests |-> "off"]
  /\ host = [r \in Requests |-> None]
  /\ via = [r \in Requests |-> 0]
  /\ conn = [r \in Requests |-> None]

To(r, s) == stage' = [stage EXCEPT ![r] = s]

\* client.Do and what follows it in doFetch return; the body is closed.
Return(r) ==
  /\ To(r, "off")
  /\ host' = [host EXCEPT ![r] = None]
  /\ via' = [via EXCEPT ![r] = 0]
  /\ conn' = [conn EXCEPT ![r] = None]

Get(r, h) ==
  /\ stage[r] = "off"
  /\ To(r, "check")
  /\ host' = [host EXCEPT ![r] = h]
  /\ UNCHANGED <<via, conn>>

\* DialContext: the host is checked,
CheckHost(r) ==
  /\ stage[r] = "check"
  /\ \E addrs \in Answers(host[r]) :
       IF Check(addrs) THEN To(r, "dial") /\ UNCHANGED <<host, via, conn>> ELSE Return(r)

\* then the dialer resolves it again and tries each address that passes Control.
Dial(r) ==
  /\ stage[r] = "dial"
  /\ \/ \E addrs \in Answers(host[r]) : \E a \in addrs :
          /\ DialerControl(a)
          /\ conn' = [conn EXCEPT ![r] = a]
          /\ host' = [host EXCEPT ![r] = None]
          /\ To(r, "headers")
          /\ UNCHANGED via
     \/ Return(r)

\* The response arrives: 200 OK, a redirect or another status.
Headers(r) ==
  /\ stage[r] = "headers"
  /\ \/ To(r, "start") /\ UNCHANGED <<host, via, conn>>
     \/ \E h \in Hosts :
          /\ To(r, "redirect")
          /\ host' = [host EXCEPT ![r] = h]
          /\ via' = [via EXCEPT ![r] = @ + 1]
          /\ conn' = [conn EXCEPT ![r] = None]
     \/ Return(r)

CheckRedirect(r) ==
  /\ stage[r] = "redirect"
  /\ \E addrs \in Answers(host[r]) :
       IF via[r] < MaxVia /\ Check(addrs)
       THEN To(r, "check") /\ UNCHANGED <<host, via, conn>>
       ELSE Return(r)

\* The first bytes of a CRL: a PEM or DER object of an allowed size, or not.
checkObjectStart(r) ==
  /\ stage[r] = "start"
  /\ \/ To(r, "body") /\ UNCHANGED <<host, via, conn>>
     \/ Return(r)

\* The body ends or exceeds its limit.
readLimited(r) == stage[r] = "body" /\ Return(r)

\* idleTimeoutTransport: nothing was read for a while.  The timer runs from
\* RoundTrip until the body is closed, so not between two of them.
IdleTimeout(r) == stage[r] \notin {"off", "redirect"} /\ Return(r)

\* The timeout of the fetch kind or of the client is over, or nobody waits any
\* longer.
Cancelled(r) == stage[r] # "off" /\ Return(r)

ClientStep(r) ==
  \/ CheckHost(r) \/ Dial(r) \/ Headers(r) \/ CheckRedirect(r)
  \/ checkObjectStart(r) \/ readLimited(r) \/ IdleTimeout(r) \/ Cancelled(r)
=============================================================================
