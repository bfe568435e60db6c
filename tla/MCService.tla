----------------------------- MODULE MCService ------------------------------
(***************************************************************************)
(* An instance of Service: two big uploads of the same object and a        *)
(* request of any kind, whose uploads are small; one place of each kind,   *)
(* two pending.  lo is a blocked address and mapped its IPv4-mapped form.  *)
(***************************************************************************)
EXTENDS Service

CONSTANTS u1, u2, any, lo, mapped

MCUnmap == [a \in Addrs |-> IF a = mapped THEN lo ELSE a]
MCKindsOf == [r \in Requests |-> IF r = any THEN Kinds ELSE {"analyze"}]
\* u1 and u2 upload an object or open a link, the others ask for an object.
MCTransferKinds == [r \in Requests |-> IF r \in {u1, u2} THEN {"analyze", "link"} ELSE {"der"}]
MCMaxFetches == [r \in Requests |-> IF r = any THEN 1 ELSE 0]
MCKeyOf == [r \in Requests |-> IF r = any THEN "k2" ELSE "k1"]
=============================================================================
