--------------------------- MODULE MCFetchFlight ---------------------------
(***************************************************************************)
(* Model-checking instance of FetchFlight: all keys share one endpoint.    *)
(***************************************************************************)
EXTENDS FetchFlight, TLC

CONSTANT Host

OneEndpoint == [k \in Keys |-> Host]
=============================================================================
