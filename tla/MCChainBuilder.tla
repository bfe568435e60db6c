--------------------------- MODULE MCChainBuilder ---------------------------
(***************************************************************************)
(* A small PKI for ChainBuilder.  The CA named N has one key and several   *)
(* certificates: n1 from the root r1, n2 from the root r2 without key ids, *)
(* ne from r1 but expired, and ny from Y, which N has certified itself.    *)
(***************************************************************************)
EXTENDS ChainBuilder

CONSTANTS l, n1, n2, ne, ny, y, r1, r2, u1, u2

Certificate(n, i, k, s, keyIds, ss, v, aia) ==
  [name |-> n, issuer |-> i, key |-> k, signer |-> s,
   ski |-> k, aki |-> IF keyIds THEN s ELSE None,
   selfSigned |-> ss, valid |-> v, ca |-> n # "L", aia |-> aia]

MCInfo ==
  l  :> Certificate("L", "N", "kL", "kN", TRUE, FALSE, TRUE, <<"ldap", u1, u2>>) @@
  n1 :> Certificate("N", "R1", "kN", "kR1", TRUE, FALSE, TRUE, <<>>) @@
  n2 :> Certificate("N", "R2", "kN", "kR2", FALSE, FALSE, TRUE, <<u2>>) @@
  ne :> Certificate("N", "R1", "kN", "kR1", TRUE, FALSE, FALSE, <<>>) @@
  ny :> Certificate("N", "Y", "kN", "kY", TRUE, FALSE, TRUE, <<>>) @@
  y  :> Certificate("Y", "N", "kY", "kN", TRUE, FALSE, TRUE, <<u1>>) @@
  r1 :> Certificate("R1", "R1", "kR1", "kR1", FALSE, TRUE, TRUE, <<>>) @@
  r2 :> Certificate("R2", "R2", "kR2", "kR2", FALSE, TRUE, TRUE, <<>>)

MCServed == u1 :> {<<None>>, <<n1, n2, r1>>} @@ u2 :> {<<r2>>, <<n2, n1>>}

Request(leaf, b, link) == [leaf |-> leaf, bag |-> b, link |-> link]

MCInputs ==
  {Request(l, <<>>, FALSE), Request(l, <<n2, r2>>, FALSE), Request(l, <<n1>>, TRUE),
   Request(y, <<>>, FALSE), Request(r1, <<>>, FALSE),
   [crlCA |-> y], [crlCA |-> n1]}

\* What a request may find in the table: n1 and n2 absent, archived or in the
\* pool, with some choices for ne and ny; and either nothing else, or Y and both
\* roots, one of them trusted and the other one withdrawn.
Cross == {<<s, p>> \in (SUBSET {n1, n2}) \X (SUBSET {n1, n2}) : p \subseteq s}

Odd == {<<{}, {}>>, <<{ne}, {ne}>>, <<{ne, ny}, {ny}>>}

Found(others, t) ==
  {[table |-> SelectSeq(<<n2, n1, ne, ny, y, r1, r2>>, LAMBDA c : c \in n[1] \cup o[1] \cup others),
    pool |-> n[2] \cup o[2] \cup others, trusted |-> t] : n \in Cross, o \in Odd}

MCTables == Found({}, {}) \cup UNION {Found({y, r1, r2}, {r}) : r \in {r1, r2}}
=============================================================================
