---------------------------- MODULE MCTrustStore ----------------------------
(***************************************************************************)
(* An instance of TrustStore.  Three versions: v1 bundles the roots r and  *)
(* k, v2 drops r, v3 parses no root of the mozilla bundle, has k in the    *)
(* other one and bundles the intermediate ca, which r issued.              *)
(***************************************************************************)
EXTENDS TrustStore, TLC

CONSTANTS r, k, ca, v1, v2, v3

MCVersions == {v1, v2, v3}

MCBundle ==
  [v \in MCVersions |->
     CASE v = v1 -> ("mozilla" :> {r, k} @@ "ru-gov" :> {})
       [] v = v2 -> ("mozilla" :> {k} @@ "ru-gov" :> {})
       [] OTHER  -> ("mozilla" :> {} @@ "ru-gov" :> {k, ca})]

MCPaths == {[anchor |-> r, cas |-> {r, ca}]}
=============================================================================
