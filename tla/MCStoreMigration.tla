-------------------------- MODULE MCStoreMigration --------------------------
(***************************************************************************)
(* An instance of StoreMigration: c1 and c2 share a serial number, one CRL *)
(* was fetched from two urls, another was uploaded.                        *)
(***************************************************************************)
EXTENDS StoreMigration

CONSTANTS c1, c2, d1, d2, u1, u2, up

MCSerial == [c \in Certs |-> 1]

MCCrlRow == <<[url |-> u1, der |-> d1], [url |-> u2, der |-> d1], [url |-> up, der |-> d2]>>
=============================================================================
