---------------------------- MODULE AddressGuard ----------------------------
(***************************************************************************)
(* Package ssrfguard: which addresses certview and certget may connect to. *)
(* A name is looked up anew each time, and each lookup may answer          *)
(* differently: any set of addresses, or none.                             *)
(***************************************************************************)
CONSTANTS Requests,  \* the HTTP requests on whose behalf connections are made
          Addrs,     \* IP addresses
          Hosts,     \* what URLs name: DNS names, and addresses as literals
          Unmap,     \* of an IPv4-mapped IPv6 address, the IPv4 one; else itself
          Blocked,   \* what checkAddr rejects: loopback, private, ...
          None

ASSUME UnmapAssumption == Unmap \in [Addrs -> Addrs \cup Blocked]
ASSUME NoneAssumption == None \notin Addrs \cup Hosts \cup Requests

\* What resolving a host may give: a literal is itself.
Answers(host) == IF host \in Addrs THEN {{host}} ELSE SUBSET Addrs

checkAddr(a) == Unmap[a] \notin Blocked

\* ssrfguard.Check, given what the lookup answered.
Check(addrs) == addrs # {} /\ \A a \in addrs : checkAddr(a)

\* The address at hand when the socket connects.
DialerControl(a) == checkAddr(a)
=============================================================================
