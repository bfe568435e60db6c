-------------------------- MODULE TrustStoreProofs --------------------------
(***************************************************************************)
(* An administrator's untrust of a bundled root survives restarts, and     *)
(* uploads alone never reach the issuer pool: for any certificates,        *)
(* versions and bundles, through any sequence of crashes, failed           *)
(* statements, upgrades and downgrades.                                    *)
(*                                                                         *)
(* That a row stays untrusted is not inductive: what protects it from the  *)
(* import is that the row is attributed to the bundle that brings it, so   *)
(* the invariant carries the attribution of every root imported so far.    *)
(*                                                                         *)
(* TrustInv goes on from there to what is trusted: where the trust of a    *)
(* row comes from at every step of a start (OriginOf), what the import of  *)
(* a bundle that is over has done (DoneOf), and which untrusts it leaves   *)
(* alone (LooseOf).  With it, the listeners come up with the running       *)
(* version's roots trusted and with the dropped ones withdrawn.            *)
(***************************************************************************)
EXTENDS TrustStore, TLAPS

\* Where the import stands: the loop works on the running version's bundle,
\* and is over when the listeners are up.
LoopInv ==
  /\ phase = "import" => left \subseteq Bundle[version][source]
  /\ phase # "import" => left = {}
  /\ phase = "up" => source = "ru-gov"

\* This start has reached root c of bundle s and its import did not fail.
Reached(s, c) ==
  /\ phase # "down"
  /\ c \in Kept(version, s) \ failed
  /\ s = source => c \notin left
  /\ s = "mozilla" \/ source = "ru-gov"

ImportedInv ==
  \A s \in Sources, c \in Certs :
    Reached(s, c) => row[c].stored /\ row[c].src = s

\* What an untrust that holds for certain rests on.
FirmInv ==
  \A p \in firm :
    /\ ~row[p[2]].trusted
    /\ p[2] \in Roots => row[p[2]].stored /\ row[p[2]].src = p[1]
    /\ phase # "down" =>
         \/ p[2] \in Bundle[version][p[1]]
         \/ /\ Kept(version, p[1]) = {}
            /\ \A s \in Sources : p[2] \notin Bundle[version][s]

IndInv == TypeOK /\ LoopInv /\ ImportedInv /\ FirmInv

\* A save is pending only on a path to a root trusted since saves are pending.
PoolInv ==
  /\ Trusted \subseteq recent
  /\ \A c \in verified : \E p \in Paths : c \in p.cas /\ p.anchor \in recent

\* The trust that no administrator gave comes from the bundle of some version,
\* to which the row is attributed.
OriginOf(c) ==
  row[c].trusted =>
    \/ c \in allowed
    \/ row[c].src \in Sources /\ \E v \in Versions : c \in Kept(v, row[c].src)

\* This start is through with bundle s.
Done(s) == phase = "up" \/ (phase = "import" /\ s = "mozilla" /\ source = "ru-gov")

\* The roots still attributed to a bundle that is through are in it.
DoneOf(c) ==
  \A s \in Sources :
    Done(s) /\ c \in Roots \ failed /\ row[c].src = s
      => c \in Kept(version, s) \/ Kept(version, s) = {}

\* A root attributed to a bundle is untrusted only by the administrator.
LooseOf(c) ==
  c \in Roots /\ row[c].src \in Sources => row[c].trusted \/ <<row[c].src, c>> \in loose

\* What the trust of a bundled root rests on, on top of IndInv.
TrustInv == \A c \in Certs : OriginOf(c) /\ DoneOf(c) /\ LooseOf(c)

USE DEF Sources, Kept

\* Rewriting one row keeps the table well typed.
LEMMA RowTyped ==
  ASSUME NEW f \in [Certs -> Row], NEW c \in Certs, NEW x \in Row
  PROVE  [f EXCEPT ![c] = x] \in [Certs -> Row]
OBVIOUS

\* What each statement makes of a row is a row.
LEMMA RowsTyped ==
  ASSUME NEW x \in Row, NEW s \in Sources \cup {"other"}, x.stored \/ x = Absent
  PROVE  /\ MarkedRow(x) \in Row /\ TrustedRow(x, s) \in Row /\ PoolRow(x, s) \in Row
         /\ WithdrawnRow(x) \in Row /\ SavedRow(x) \in Row
         /\ [SavedRow(x) EXCEPT !.trusted = TRUE] \in Row
         /\ [x EXCEPT !.trusted = FALSE] \in Row
         /\ MarkedRow(x).stored \/ MarkedRow(x) = Absent
         /\ TrustedRow(x, s).stored /\ PoolRow(x, s).stored
<1>1. /\ x.stored \in BOOLEAN /\ x.trusted \in BOOLEAN /\ x.pool \in BOOLEAN
      /\ x.src \in Sources \cup {"removed", "other"}
      /\ x = [stored |-> x.stored, trusted |-> x.trusted, pool |-> x.pool, src |-> x.src]
  BY DEF Row
<1>2. MarkedRow(x) \in Row /\ WithdrawnRow(x) \in Row /\ [x EXCEPT !.trusted = FALSE] \in Row
  BY <1>1 DEF Row, MarkedRow, WithdrawnRow
<1>3. TrustedRow(x, s) \in Row /\ TrustedRow(x, s).stored
  BY <1>1 DEF Row, TrustedRow
<1>4. PoolRow(x, s) \in Row /\ PoolRow(x, s).stored
  BY <1>1 DEF Row, PoolRow, Absent
<1>5. SavedRow(x) \in Row
  BY <1>1 DEF Row, SavedRow, Absent
<1>6. [SavedRow(x) EXCEPT !.trusted = TRUE] \in Row
  BY <1>5 DEF Row
<1>7. MarkedRow(x).stored \/ MarkedRow(x) = Absent
  BY <1>1 DEF MarkedRow
<1> QED
  BY <1>2, <1>3, <1>4, <1>5, <1>6, <1>7

\* Disjoint bundles: a certificate is in one bundle of a version.
LEMMA OneBundle ==
  ASSUME NEW v \in Versions, NEW s \in Sources, NEW t \in Sources, NEW c,
         c \in Bundle[v][s], c \in Bundle[v][t]
  PROVE  s = t
BY DisjointAssumption

LEMMA InitIndInv == Init => IndInv
<1> SUFFICES ASSUME Init PROVE IndInv
  OBVIOUS
<1>1. Absent \in Row
  BY DEF Absent, Row
<1>2. TypeOK
  BY <1>1 DEF Init, TypeOK
<1>3. LoopInv /\ ImportedInv /\ FirmInv
  BY DEF Init, LoopInv, ImportedInv, Reached, FirmInv, Absent
<1> QED
  BY <1>2, <1>3 DEF IndInv

-----------------------------------------------------------------------------
(***************************************************************************)
(* The import                                                              *)
(***************************************************************************)

LEMMA StartStep ==
  ASSUME IndInv, NEW v \in Versions, Start(v), recent' \subseteq Certs
  PROVE  IndInv'
<1> USE BundleAssumption DEF IndInv, Start
<1>1. TypeOK'
  BY DEF TypeOK, Standing
<1>2. LoopInv' /\ ImportedInv'
  BY DEF LoopInv, ImportedInv, Reached, TypeOK
<1>3. FirmInv'
  BY DEF FirmInv, Standing
<1> QED
  BY <1>1, <1>2, <1>3

LEMMA ImportStep ==
  ASSUME IndInv, NEW c \in Certs,
         MarkPool(c) \/ ImportTrustedCert(c) \/ ImportIntermediate(c) \/ ImportFails(c), recent' \subseteq Certs
  PROVE  IndInv'
<1> USE BundleAssumption, RootsAssumption, NoneAssumption DEF IndInv
<1>0. /\ phase = "import" /\ phase' = "import"
      /\ c \in left /\ c \in Bundle[version][source]
      /\ UNCHANGED <<version, source, verified, firm, loose, allowed>>
  BY DEF MarkPool, ImportTrustedCert, ImportIntermediate, ImportFails, history,
         TypeOK, LoopInv
<1>1. /\ row[c] \in Row /\ source \in Sources
      /\ row[c].stored \/ row[c] = Absent
  BY DEF TypeOK
<1>2. PICK x \in Row :
        /\ row' = [row EXCEPT ![c] = x]
        /\ \/ x = row[c]
           \/ x = MarkedRow(row[c])
           \/ c \in Roots /\ x = TrustedRow(row[c], source)
           \/ c \notin Roots /\ x = PoolRow(row[c], source)
  <2>1. CASE MarkPool(c)
    BY <2>1, <1>1, RowsTyped DEF MarkPool
  <2>2. CASE ImportTrustedCert(c)
    BY <2>2, <1>1, RowsTyped DEF ImportTrustedCert, TypeOK
  <2>3. CASE ImportIntermediate(c)
    BY <2>3, <1>1, RowsTyped DEF ImportIntermediate
  <2>4. CASE ImportFails(c)
    <3>1. row' = [row EXCEPT ![c] = row[c]]
      BY <2>4 DEF ImportFails, TypeOK
    <3> QED
      BY <3>1, <1>1
  <2> QED
    BY <2>1, <2>2, <2>3, <2>4
<1>3. x.stored \/ x = Absent
  <2>1. /\ MarkedRow(row[c]).stored \/ MarkedRow(row[c]) = Absent
        /\ TrustedRow(row[c], source).stored /\ PoolRow(row[c], source).stored
    BY <1>1, RowsTyped
  <2> QED
    BY <1>1, <1>2, <2>1
<1>4. TypeOK'
  <2>1. row' \in [Certs -> Row] /\ \A d \in Certs : row'[d].stored \/ row'[d] = Absent
    BY <1>2, <1>3, RowTyped DEF TypeOK
  <2>2. left' \subseteq Certs /\ marked' \in (left' \cap Roots) \cup {None} /\ failed' \subseteq Certs
    BY DEF TypeOK, MarkPool, ImportTrustedCert, ImportIntermediate, ImportFails, history
  <2> QED
    BY <1>0, <2>1, <2>2 DEF TypeOK
<1>5. LoopInv'
  BY <1>0 DEF LoopInv, MarkPool, ImportTrustedCert, ImportIntermediate, ImportFails
<1>6. ImportedInv'
  <2> SUFFICES ASSUME NEW s \in Sources, NEW d \in Certs, Reached(s, d)'
               PROVE  row'[d].stored /\ row'[d].src = s
    BY DEF ImportedInv
  <2>1. d \in Kept(version, s) /\ (s = "mozilla" \/ source = "ru-gov")
    BY <1>0 DEF Reached
  <2>2. CASE d # c
    <3>1. Reached(s, d)
      BY <1>0, <2>2 DEF Reached, MarkPool, ImportTrustedCert, ImportIntermediate,
                        ImportFails, history
    <3> QED
      BY <3>1, <2>2, <1>2 DEF ImportedInv, TypeOK
  <2>3. CASE d = c
    <3>1. s = source
      BY <2>1, <2>3, <1>0, OneBundle DEF TypeOK
    <3>2. c \in Roots /\ c \notin left' /\ c \notin failed'
      BY <2>1, <2>3, <3>1, <1>0 DEF Reached
    <3>3. ImportTrustedCert(c)
      BY <3>2, <1>0 DEF MarkPool, ImportIntermediate, ImportFails
    <3>4. row'[c] = TrustedRow(row[c], source)
      BY <3>3 DEF ImportTrustedCert, TypeOK
    <3> QED
      BY <3>1, <3>4, <2>3 DEF TrustedRow
  <2> QED
    BY <2>2, <2>3
<1>7. FirmInv'
  <2> SUFFICES ASSUME NEW p \in firm
               PROVE  /\ ~row'[p[2]].trusted
                      /\ p[2] \in Roots => row'[p[2]].stored /\ row'[p[2]].src = p[1]
    BY <1>0 DEF FirmInv
  <2>1. p[1] \in Sources /\ p[2] \in Certs
    BY DEF TypeOK
  <2>2. CASE p[2] # c
    BY <2>1, <2>2, <1>2 DEF FirmInv, TypeOK
  <2>3. CASE p[2] = c
    <3>1. c \in Bundle[version][p[1]] /\ p[1] = source
      BY <2>1, <2>3, <1>0, OneBundle DEF FirmInv, TypeOK
    <3>2. ~row[c].trusted /\ (c \in Roots => row[c].stored /\ row[c].src = source)
      BY <2>3, <3>1 DEF FirmInv
    <3>3. ~x.trusted /\ (c \in Roots => x.stored /\ x.src = source)
      BY <3>2, <1>2, <1>1 DEF MarkedRow, TrustedRow, PoolRow, Row
    <3> QED
      BY <3>1, <3>3, <2>3, <1>2 DEF TypeOK
  <2> QED
    BY <2>2, <2>3
<1> QED
  BY <1>4, <1>5, <1>6, <1>7

LEMMA BundleDoneStep ==
  ASSUME IndInv, WithdrawBundleRoots \/ WithdrawFails \/ NoRootsParsed, recent' \subseteq Certs
  PROVE  IndInv'
<1> USE BundleAssumption, RootsAssumption, NoneAssumption DEF IndInv
<1>0. /\ phase = "import" /\ left = {}
      /\ UNCHANGED <<version, marked, verified, firm, allowed>>
      /\ failed \subseteq failed' /\ failed' \subseteq Certs
      /\ BundleDone(failed')
  BY DEF WithdrawBundleRoots, WithdrawFails, NoRootsParsed, BundleDone, Dropped, TypeOK
<1>1. /\ phase' # "down" /\ source \in Sources
      /\ \/ source = "mozilla" /\ source' = "ru-gov" /\ phase' = "import"
            /\ left' = Bundle[version]["ru-gov"]
         \/ source = "ru-gov" /\ source' = "ru-gov" /\ phase' = "up" /\ left' = {}
  BY <1>0 DEF BundleDone, TypeOK
<1>2. /\ row' \in [Certs -> Row]
      /\ \A d \in Certs : \/ row'[d] = row[d]
                         \/ /\ Kept(version, source) # {}
                            /\ d \in Roots \ Kept(version, source)
                            /\ row[d].stored /\ row[d].src = source
                            /\ row'[d] = WithdrawnRow(row[d])
  <2>1. CASE WithdrawBundleRoots
    <3>1. \A d \in Certs : WithdrawnRow(row[d]) \in Row
      BY RowsTyped DEF TypeOK
    <3> QED
      BY <2>1, <3>1 DEF WithdrawBundleRoots, Dropped, SomeRoots, TypeOK
  <2>2. CASE WithdrawFails \/ NoRootsParsed
    BY <2>2 DEF WithdrawFails, NoRootsParsed, TypeOK
  <2> QED
    BY <2>1, <2>2
<1>3. \A d \in Certs : row[d].stored /\ row'[d] = WithdrawnRow(row[d])
        => row'[d].stored /\ ~row'[d].trusted /\ row'[d].pool = row[d].pool
  BY DEF WithdrawnRow, TypeOK, Row
<1>4. TypeOK'
  <2>1. \A d \in Certs : row'[d].stored \/ row'[d] = Absent
    BY <1>2, <1>3 DEF TypeOK
  <2>2. loose' \subseteq Sources \X Certs
    BY <1>0 DEF BundleDone, Standing, TypeOK
  <2> QED
    BY <1>0, <1>1, <1>2, <2>1, <2>2 DEF TypeOK
<1>5. LoopInv'
  BY <1>0, <1>1 DEF LoopInv
<1>6. ImportedInv'
  <2> SUFFICES ASSUME NEW s \in Sources, NEW d \in Certs, Reached(s, d)'
               PROVE  row'[d].stored /\ row'[d].src = s
    BY DEF ImportedInv
  <2>1. d \in Kept(version, s) /\ Reached(s, d)
    BY <1>0, <1>1 DEF Reached
  <2>2. row[d].stored /\ row[d].src = s
    BY <2>1 DEF ImportedInv
  <2>3. row'[d] = row[d]
    BY <2>1, <2>2, <1>2
  <2> QED
    BY <2>2, <2>3
<1>7. FirmInv'
  <2> SUFFICES ASSUME NEW p \in firm
               PROVE  row'[p[2]] = row[p[2]]
    BY <1>0, <1>1 DEF FirmInv
  <2>1. p[1] \in Sources /\ p[2] \in Certs
    BY DEF TypeOK
  <2> QED
    BY <2>1, <1>0, <1>2 DEF FirmInv
<1> QED
  BY <1>4, <1>5, <1>6, <1>7

LEMMA CrashStep ==
  ASSUME IndInv, Crash, recent' \subseteq Certs
  PROVE  IndInv'
<1> USE DEF IndInv, Crash, history
<1>1. TypeOK' /\ LoopInv'
  BY DEF TypeOK, LoopInv
<1>2. ImportedInv' /\ FirmInv'
  BY DEF ImportedInv, Reached, FirmInv
<1> QED
  BY <1>1, <1>2

-----------------------------------------------------------------------------
(***************************************************************************)
(* The administrator and the analyses                                      *)
(***************************************************************************)

\* A step of the running program that rewrites the row of c, keeping where it
\* came from.
LEMMA RowStep ==
  ASSUME IndInv, NEW c \in Certs, NEW x \in Row,
         row' = [row EXCEPT ![c] = x],
         x.stored,
         row[c].stored => x.src = row[c].src,
         phase = "up", UNCHANGED <<phase, failed, import>>
  PROVE  /\ row' \in [Certs -> Row]
         /\ \A d \in Certs : row'[d].stored \/ row'[d] = Absent
         /\ LoopInv' /\ ImportedInv'
<1>1. row' \in [Certs -> Row] /\ \A d \in Certs : row'[d].stored \/ row'[d] = Absent
  BY DEF IndInv, TypeOK
<1>2. LoopInv'
  BY DEF IndInv, LoopInv, import
<1>3. ImportedInv'
  BY DEF IndInv, ImportedInv, Reached, import, TypeOK
<1> QED
  BY <1>1, <1>2, <1>3

LEMMA SaveStep ==
  ASSUME IndInv, NEW c \in Certs, SaveCert(c) \/ SavePoolCert(c) \/ SaveFails(c), recent' \subseteq Certs
  PROVE  IndInv'
<1> USE DEF IndInv
<1>0. /\ UNCHANGED <<phase, import, history>> /\ phase = "up"
      /\ verified' \subseteq verified
  BY DEF SaveCert, SavePoolCert, SaveFails
<1>1. row[c] \in Row /\ (row[c].stored \/ row[c] = Absent)
  BY DEF TypeOK
<1>2. CASE row' = row
  BY <1>0, <1>2 DEF TypeOK, LoopInv, ImportedInv, Reached, FirmInv, import, history
<1>3. CASE row' # row
  <2>1. PICK x \in Row :
          /\ row' = [row EXCEPT ![c] = x]
          /\ x.stored
          /\ row[c].stored => x.src = row[c].src
          /\ x.trusted = row[c].trusted
    <3>1. CASE SaveCert(c)
      <4>1. SavedRow(row[c]) \in Row
        BY <1>1, RowsTyped
      <4>2. /\ SavedRow(row[c]).stored
            /\ row[c].stored => SavedRow(row[c]) = row[c]
            /\ SavedRow(row[c]).trusted = row[c].trusted
        BY <1>1 DEF SavedRow, Absent
      <4> QED
        BY <3>1, <4>1, <4>2 DEF SaveCert
    <3>2. CASE SavePoolCert(c)
      <4>1. PoolRow(row[c], "other") \in Row
        BY <1>1, RowsTyped
      <4>2. /\ PoolRow(row[c], "other").stored
            /\ row[c].stored => PoolRow(row[c], "other").src = row[c].src
            /\ PoolRow(row[c], "other").trusted = row[c].trusted
        BY <1>1 DEF PoolRow, Row
      <4> QED
        BY <3>2, <4>1, <4>2 DEF SavePoolCert
    <3> QED
      BY <3>1, <3>2, <1>3 DEF SaveFails
  <2>2. /\ row' \in [Certs -> Row]
        /\ \A d \in Certs : row'[d].stored \/ row'[d] = Absent
        /\ LoopInv' /\ ImportedInv'
    BY <1>0, <2>1, RowStep DEF history
  <2>3. TypeOK'
    BY <1>0, <2>2 DEF TypeOK, import, history
  <2>4. FirmInv'
    BY <1>0, <2>1 DEF FirmInv, TypeOK, import, history
  <2> QED
    BY <2>2, <2>3, <2>4
<1> QED
  BY <1>2, <1>3

LEMMA TrustStep ==
  ASSUME IndInv, NEW c \in Certs, NEW der \in BOOLEAN, Trust(c, der), recent' \subseteq Certs
  PROVE  IndInv'
<1> USE DEF IndInv
<1> DEFINE x == [SavedRow(row[c]) EXCEPT !.trusted = TRUE]
<1>1. row[c] \in Row /\ (row[c].stored \/ row[c] = Absent)
  BY DEF TypeOK
<1>2. /\ x \in Row /\ x.stored
      /\ row[c].stored => x.src = row[c].src
  <2>1. x \in Row
    BY <1>1, RowsTyped
  <2>2. SavedRow(row[c]) \in Row
    BY <1>1, RowsTyped
  <2>3. x.stored = SavedRow(row[c]).stored /\ x.src = SavedRow(row[c]).src
    BY <2>2 DEF Row
  <2>4. /\ SavedRow(row[c]).stored
        /\ row[c].stored => SavedRow(row[c]) = row[c]
    BY <1>1 DEF SavedRow, Absent
  <2> QED
    BY <2>1, <2>3, <2>4
<1> HIDE DEF x
<1>3. /\ row' = [row EXCEPT ![c] = x] /\ phase = "up"
      /\ UNCHANGED <<phase, verified, failed, import>>
      /\ firm' = {p \in firm : p[2] # c}
  BY DEF Trust, x
<1>4. /\ row' \in [Certs -> Row]
      /\ \A d \in Certs : row'[d].stored \/ row'[d] = Absent
      /\ LoopInv' /\ ImportedInv'
  BY <1>2, <1>3, RowStep
<1>5. TypeOK'
  BY <1>3, <1>4 DEF TypeOK, import, Trust
<1>6. FirmInv'
  BY <1>3 DEF FirmInv, TypeOK, import
<1> QED
  BY <1>4, <1>5, <1>6

LEMMA UntrustStep ==
  ASSUME IndInv, NEW c \in Certs, Untrust(c), recent' \subseteq Certs
  PROVE  IndInv'
<1> USE DEF IndInv
<1> DEFINE x == [row[c] EXCEPT !.trusted = FALSE]
<1>1. row[c] \in Row /\ row[c].stored
  BY DEF TypeOK, Untrust
<1>2. /\ x \in Row /\ x.stored /\ ~x.trusted
      /\ x.src = row[c].src
  <2>1. x \in Row
    BY <1>1, RowsTyped
  <2> QED
    BY <2>1, <1>1 DEF Row
<1>3. row' = [row EXCEPT ![c] = x]
  BY DEF Untrust
<1> HIDE DEF x
<1>4. /\ phase = "up" /\ UNCHANGED <<phase, verified, failed, import>>
  BY DEF Untrust
<1>5. /\ row' \in [Certs -> Row]
      /\ \A d \in Certs : row'[d].stored \/ row'[d] = Absent
      /\ LoopInv' /\ ImportedInv'
  BY <1>1, <1>2, <1>3, <1>4, RowStep
<1>6. TypeOK'
  BY <1>4, <1>5 DEF TypeOK, import, Untrust
<1>7. FirmInv'
  <2> SUFFICES ASSUME NEW p \in firm'
               PROVE  /\ ~row'[p[2]].trusted
                      /\ p[2] \in Roots => row'[p[2]].stored /\ row'[p[2]].src = p[1]
                      /\ \/ p[2] \in Bundle[version][p[1]]
                         \/ /\ Kept(version, p[1]) = {}
                            /\ \A s \in Sources : p[2] \notin Bundle[version][s]
    BY <1>4 DEF FirmInv, import
  <2>1. CASE p \in firm
    BY <2>1, <1>1, <1>2, <1>3, <1>4 DEF FirmInv, TypeOK
  <2>2. CASE p \notin firm
    <3>1. PICK s \in Sources : p = <<s, c>> /\ c \in Bundle[version][s] /\ c \notin failed
      BY <2>2 DEF Untrust
    <3>2. c \in Roots => row[c].src = s
      BY <3>1, <1>4 DEF ImportedInv, Reached, LoopInv
    <3> QED
      BY <3>1, <3>2, <1>1, <1>2, <1>3 DEF TypeOK
  <2> QED
    BY <2>1, <2>2
<1> QED
  BY <1>5, <1>6, <1>7

LEMMA PathStep ==
  ASSUME IndInv, NEW p \in Paths, TrustedPath(p), recent' \subseteq Certs
  PROVE  IndInv'
<1> USE PathsAssumption, RootsAssumption DEF IndInv
<1>1. UNCHANGED <<row, phase, version, source, left, marked, failed, firm, loose, allowed>>
  BY DEF TrustedPath, import, history
<1>2. verified' \subseteq Certs
  BY DEF TrustedPath, TypeOK
<1> QED
  BY <1>1, <1>2 DEF TypeOK, LoopInv, ImportedInv, Reached, FirmInv

LEMMA NextIndInv == IndInv /\ [Next]_vars => IndInv'
<1> SUFFICES ASSUME IndInv, [Next]_vars PROVE IndInv'
  OBVIOUS
<1>0. recent' \subseteq Certs
  BY DEF IndInv, TypeOK, Next, TrackTrust, Trusted, vars
<1>1. CASE \E v \in Versions : Start(v)
  BY <1>0, <1>1, StartStep
<1>2. CASE \E c \in Certs : MarkPool(c) \/ ImportTrustedCert(c) \/ ImportIntermediate(c) \/ ImportFails(c)
  BY <1>0, <1>2, ImportStep
<1>3. CASE WithdrawBundleRoots \/ WithdrawFails \/ NoRootsParsed
  BY <1>0, <1>3, BundleDoneStep
<1>4. CASE Crash
  BY <1>0, <1>4, CrashStep
<1>5. CASE \E c \in Certs : SaveCert(c) \/ SavePoolCert(c) \/ SaveFails(c)
  BY <1>0, <1>5, SaveStep
<1>6. CASE \E c \in Certs, der \in BOOLEAN : Trust(c, der)
  BY <1>0, <1>6, TrustStep
<1>7. CASE \E c \in Certs : Untrust(c)
  BY <1>0, <1>7, UntrustStep
<1>8. CASE \E p \in Paths : TrustedPath(p)
  BY <1>0, <1>8, PathStep
<1>9. CASE UNCHANGED vars
  BY <1>9 DEF vars, IndInv, TypeOK, LoopInv, ImportedInv, Reached, FirmInv
<1> QED
  BY <1>1, <1>2, <1>3, <1>4, <1>5, <1>6, <1>7, <1>8, <1>9 DEF Next, Step

LEMMA Inductive == Spec => []IndInv
BY InitIndInv, NextIndInv, PTL DEF Spec

-----------------------------------------------------------------------------
(***************************************************************************)
(* Which certificates are pool issuers                                     *)
(***************************************************************************)

LEMMA NextPoolInv == PoolInv /\ [Next]_vars => PoolInv'
<1> SUFFICES ASSUME PoolInv, [Next]_vars PROVE PoolInv'
  OBVIOUS
<1>1. CASE UNCHANGED vars
  BY <1>1 DEF vars, PoolInv, Trusted
<1>2. CASE Next
  <2>1. Trusted' \subseteq recent'
    BY <1>2 DEF Next, TrackTrust
  <2>2. verified' # {} => recent \subseteq recent'
    BY <1>2 DEF Next, TrackTrust
  <2>3. CASE verified' \subseteq verified
    BY <2>1, <2>2, <2>3 DEF PoolInv
  <2>4. CASE \E p \in Paths : TrustedPath(p)
    <3>1. PICK p \in Paths : p.anchor \in Trusted /\ verified' \subseteq verified \cup p.cas
      BY <2>4, RootsAssumption DEF TrustedPath, Anchors, Trusted
    <3> QED
      BY <3>1, <2>1, <2>2 DEF PoolInv
  <2> QED
    BY <1>2, <2>3, <2>4
       DEF Next, Step, Start, MarkPool, ImportTrustedCert, ImportIntermediate, ImportFails,
           WithdrawBundleRoots, WithdrawFails, NoRootsParsed, Crash, SaveCert, Trust, Untrust,
           SavePoolCert, SaveFails
<1> QED
  BY <1>1, <1>2

LEMMA PoolInductive == Spec => []PoolInv
<1>1. Init => PoolInv
  BY DEF Init, PoolInv, Trusted, Absent
<1> QED
  BY <1>1, NextPoolInv, PTL DEF Spec

\* What a step may bring into the pool.
LEMMA PoolStep ==
  ASSUME IndInv, PoolInv, [Next]_vars, NEW c \in Certs, row'[c].pool, ~row[c].pool
  PROVE  \/ phase = "import" /\ c \in Bundle[version][source]
         \/ phase = "up" /\ \E p \in Paths : c \in p.cas /\ p.anchor \in recent
<1>1. /\ row \in [Certs -> Row] /\ row[c] \in Row /\ (row[c].stored \/ row[c] = Absent)
      /\ phase = "import" => left \subseteq Bundle[version][source]
      /\ marked \in left \cup {None} /\ None \notin Certs
  BY NoneAssumption DEF IndInv, TypeOK, LoopInv
<1>2. Step
  BY DEF Next, vars
<1>3. ASSUME NEW d \in Certs,
             MarkPool(d) \/ ImportTrustedCert(d) \/ ImportIntermediate(d) \/ ImportFails(d)
      PROVE  phase = "import" /\ c \in Bundle[version][source]
  <2>1. phase = "import" /\ d \in left
    BY <1>1, <1>3 DEF MarkPool, ImportTrustedCert, ImportIntermediate, ImportFails
  <2>2. d = c
    BY <1>1, <1>3 DEF MarkPool, ImportTrustedCert, ImportIntermediate, ImportFails
  <2> QED
    BY <1>1, <2>1, <2>2
<1>4. ASSUME NEW d \in Certs, SavePoolCert(d)
      PROVE  phase = "up" /\ \E p \in Paths : c \in p.cas /\ p.anchor \in recent
  <2>1. phase = "up" /\ d \in verified /\ d = c
    BY <1>1, <1>4 DEF SavePoolCert
  <2> QED
    BY <2>1 DEF PoolInv
\* No other statement sets the flag.
<1>5. SavedRow(row[c]).pool = row[c].pool /\ WithdrawnRow(row[c]).pool = row[c].pool
      /\ [row[c] EXCEPT !.trusted = FALSE].pool = row[c].pool
      /\ [SavedRow(row[c]) EXCEPT !.trusted = TRUE].pool = row[c].pool
  <2>1. SavedRow(row[c]) \in Row
    BY <1>1, RowsTyped
  <2>2. SavedRow(row[c]).pool = row[c].pool
    BY <1>1 DEF SavedRow, Absent
  <2> QED
    BY <1>1, <2>1, <2>2 DEF Row, WithdrawnRow
<1>6. ~\E d \in Certs : SaveCert(d) \/ Untrust(d) \/ SaveFails(d) \/ \E der \in BOOLEAN : Trust(d, der)
  BY <1>1, <1>5 DEF SaveCert, Untrust, SaveFails, Trust
<1>7. /\ ~WithdrawBundleRoots /\ ~WithdrawFails /\ ~NoRootsParsed /\ ~Crash
      /\ ~\E v \in Versions : Start(v)
      /\ ~\E p \in Paths : TrustedPath(p)
  BY <1>5 DEF WithdrawBundleRoots, WithdrawFails, NoRootsParsed, Crash, Start, TrustedPath
<1> QED
  BY <1>2, <1>3, <1>4, <1>6, <1>7 DEF Step

-----------------------------------------------------------------------------
(***************************************************************************)
(* Which roots are trusted                                                 *)
(***************************************************************************)

\* A row keeps what TrustInv says of it when its trust and attribution stay,
\* nothing is forgotten and no bundle is newly through.
LEMMA RowKeeps ==
  ASSUME NEW d \in Certs, OriginOf(d), DoneOf(d), LooseOf(d),
         row'[d].trusted <=> row[d].trusted, row'[d].src = row[d].src,
         version' = version, failed \subseteq failed',
         d \in allowed => d \in allowed',
         \A s \in Sources : Done(s)' => Done(s),
         \A s \in Sources : <<s, d>> \in loose => <<s, d>> \in loose'
  PROVE  OriginOf(d)' /\ DoneOf(d)' /\ LooseOf(d)'
<1>1. OriginOf(d)'
  BY DEF OriginOf
<1>2. DoneOf(d)'
  BY DEF DoneOf
<1>3. LooseOf(d)'
  BY DEF LooseOf
<1> QED
  BY <1>1, <1>2, <1>3

LEMMA InitTrustInv == Init => TrustInv
<1> SUFFICES ASSUME Init, NEW d \in Certs PROVE OriginOf(d) /\ DoneOf(d) /\ LooseOf(d)
  BY DEF TrustInv
<1>1. ~row[d].trusted /\ row[d].src = "other"
  BY DEF Init, Absent
<1> QED
  BY <1>1 DEF OriginOf, DoneOf, LooseOf

LEMMA StartTrust ==
  ASSUME TrustInv, NEW v \in Versions, Start(v)
  PROVE  TrustInv'
<1> SUFFICES ASSUME NEW d \in Certs PROVE OriginOf(d)' /\ DoneOf(d)' /\ LooseOf(d)'
  BY DEF TrustInv
<1>1. \A s \in Sources : ~Done(s)'
  BY DEF Done, Start
<1>2. row' = row /\ allowed' = allowed /\ loose' = loose
  BY DEF Start
<1>3. OriginOf(d) /\ LooseOf(d)
  BY DEF TrustInv
<1>4. DoneOf(d)'
  BY <1>1 DEF DoneOf
<1> QED
  BY <1>2, <1>3, <1>4 DEF OriginOf, LooseOf

LEMMA ImportTrust ==
  ASSUME IndInv, TrustInv, NEW c \in Certs,
         MarkPool(c) \/ ImportTrustedCert(c) \/ ImportIntermediate(c) \/ ImportFails(c)
  PROVE  TrustInv'
<1> SUFFICES ASSUME NEW d \in Certs PROVE OriginOf(d)' /\ DoneOf(d)' /\ LooseOf(d)'
  BY DEF TrustInv
<1>1. /\ phase = "import" /\ phase' = "import"
      /\ c \in left /\ c \in Bundle[version][source]
      /\ UNCHANGED <<version, source, loose, allowed>>
      /\ failed \subseteq failed'
  BY BundleAssumption, NoneAssumption
     DEF MarkPool, ImportTrustedCert, ImportIntermediate, ImportFails, history,
         TypeOK, LoopInv, IndInv
<1>2. \A s \in Sources : Done(s)' <=> Done(s)
  BY <1>1 DEF Done
<1>3. OriginOf(d) /\ DoneOf(d) /\ LooseOf(d)
  BY DEF TrustInv
<1>4. /\ row \in [Certs -> Row] /\ row[d] \in Row /\ (row[d].stored \/ row[d] = Absent)
      /\ source \in Sources /\ version \in Versions
      /\ row[d].stored \in BOOLEAN /\ row[d].trusted \in BOOLEAN
  BY DEF IndInv, TypeOK, Row
<1>5. CASE \/ row'[d] = row[d] \/ row'[d] = MarkedRow(row[d])
  <2>1. (row'[d].trusted <=> row[d].trusted) /\ row'[d].src = row[d].src
    BY <1>4, <1>5 DEF MarkedRow, Row
  <2> QED
    BY <2>1, <1>1, <1>2, <1>3, RowKeeps
<1>6. CASE d \in Kept(version, source) /\ row'[d] = TrustedRow(row[d], source)
  <2>1. CASE row[d].stored /\ row[d].src = source
    BY <1>5, <1>6, <2>1 DEF TrustedRow
  <2>2. CASE ~(row[d].stored /\ row[d].src = source)
    <3>1. row'[d].trusted /\ row'[d].src = source
      BY <1>6, <2>2 DEF TrustedRow
    <3>2. OriginOf(d)' /\ LooseOf(d)'
      BY <3>1, <1>1, <1>4, <1>6 DEF OriginOf, LooseOf
    <3>3. DoneOf(d)'
      BY <3>1, <1>1, <1>6 DEF DoneOf
    <3> QED
      BY <3>2, <3>3
  <2> QED
    BY <2>1, <2>2
<1>7. CASE d \notin Roots /\ row'[d] = PoolRow(row[d], source)
  <2>1. CASE row[d].stored
    <3>1. (row'[d].trusted <=> row[d].trusted) /\ row'[d].src = row[d].src
      BY <2>1, <1>4, <1>7 DEF PoolRow, Row
    <3> QED
      BY <3>1, <1>1, <1>2, <1>3, RowKeeps
  <2>2. CASE ~row[d].stored
    <3>1. ~row'[d].trusted
      BY <2>2, <1>4, <1>7 DEF PoolRow, Absent
    <3> QED
      BY <3>1, <1>7 DEF OriginOf, DoneOf, LooseOf
  <2> QED
    BY <2>1, <2>2
<1>8. CASE d # c
  <2>1. row'[d] = row[d]
    BY <1>8, <1>4 DEF MarkPool, ImportTrustedCert, ImportIntermediate, ImportFails
  <2> QED
    BY <2>1, <1>5
<1>9. CASE d = c
  <2>1. CASE MarkPool(c)
    BY <1>4, <1>5, <1>9, <2>1 DEF MarkPool
  <2>2. CASE ImportTrustedCert(c)
    BY <1>1, <1>4, <1>6, <1>9, <2>2, NoneAssumption DEF ImportTrustedCert, IndInv, TypeOK
  <2>3. CASE ImportIntermediate(c)
    BY <1>4, <1>7, <1>9, <2>3 DEF ImportIntermediate
  <2>4. CASE ImportFails(c)
    BY <1>5, <2>4 DEF ImportFails
  <2> QED
    BY <2>1, <2>2, <2>3, <2>4
<1> QED
  BY <1>8, <1>9

LEMMA BundleDoneTrust ==
  ASSUME IndInv, TrustInv, WithdrawBundleRoots \/ WithdrawFails \/ NoRootsParsed
  PROVE  TrustInv'
<1> SUFFICES ASSUME NEW d \in Certs PROVE OriginOf(d)' /\ DoneOf(d)' /\ LooseOf(d)'
  BY DEF TrustInv
<1>1. /\ phase = "import" /\ left = {}
      /\ UNCHANGED <<version, allowed>>
      /\ failed \subseteq failed'
      /\ BundleDone(failed')
  BY DEF WithdrawBundleRoots, WithdrawFails, NoRootsParsed, BundleDone
<1>2. OriginOf(d) /\ DoneOf(d) /\ LooseOf(d)
  BY DEF TrustInv
<1>3. /\ row \in [Certs -> Row] /\ row[d] \in Row /\ (row[d].stored \/ row[d] = Absent)
      /\ source \in Sources /\ version \in Versions
  BY DEF IndInv, TypeOK
<1>4. \/ row'[d] = row[d]
      \/ ~row'[d].trusted /\ row'[d].src = "removed"
  <2>1. row'[d] = row[d] \/ row'[d] = WithdrawnRow(row[d])
    BY DEF WithdrawBundleRoots, WithdrawFails, NoRootsParsed
  <2> QED
    BY <2>1, <1>3 DEF WithdrawnRow, Row
\* The bundle that is through at this step keeps no row it does not have.
<1>5. row'[d].src = source /\ d \in Roots \ failed'
        => d \in Kept(version, source) \/ Kept(version, source) = {}
  <2>1. CASE WithdrawBundleRoots
    <3>1. d \in Dropped(source) => row'[d] = WithdrawnRow(row[d])
      BY <2>1 DEF WithdrawBundleRoots
    <3>2. d \in Dropped(source) => row'[d].src # source
      BY <3>1, <1>3 DEF WithdrawnRow, Row
    <3>3. d \notin Dropped(source) => row'[d] = row[d]
      BY <2>1 DEF WithdrawBundleRoots
    <3> QED
      BY <3>2, <3>3, <1>3 DEF Dropped, Absent
  <2>2. CASE WithdrawFails
    <3>1. row' = row /\ failed' = failed \cup Dropped(source)
      BY <2>2 DEF WithdrawFails, BundleDone
    <3> QED
      BY <3>1, <1>3 DEF Dropped, Absent
  <2>3. CASE NoRootsParsed
    BY <2>3 DEF NoRootsParsed, SomeRoots
  <2> QED
    BY <2>1, <2>2, <2>3
<1>6. \A s \in Sources : Done(s)' => Done(s) \/ s = source
  BY <1>1, <1>3 DEF Done, BundleDone
<1>7. OriginOf(d)'
  BY <1>1, <1>2, <1>4 DEF OriginOf
<1>8. DoneOf(d)'
  BY <1>1, <1>2, <1>4, <1>5, <1>6 DEF DoneOf
<1>9. LooseOf(d)'
  <2> SUFFICES ASSUME d \in Roots, row'[d].src \in Sources, ~row'[d].trusted
               PROVE  <<row'[d].src, d>> \in loose'
    BY DEF LooseOf
  <2>1. row'[d] = row[d] /\ <<row[d].src, d>> \in loose
    BY <1>2, <1>4 DEF LooseOf
  <2>2. CASE source = "mozilla"
    BY <2>1, <2>2, <1>1 DEF BundleDone
  <2>3. CASE source = "ru-gov" /\ d \in failed'
    BY <2>1, <2>3, <1>1 DEF BundleDone
  <2>4. CASE source = "ru-gov" /\ d \notin failed'
    <3> DEFINE s == row[d].src
    <3>1. s \in Sources /\ d \notin failed
      BY <2>1, <2>4, <1>1
    <3>2. Done(s)'
      BY <2>4, <1>1 DEF Done, BundleDone
    <3>3. d \in Kept(version, s) \/ Kept(version, s) = {}
      BY <3>1, <3>2, <2>1, <2>4, <1>1, <1>8 DEF DoneOf
    <3>4. \A t \in Sources : d \in Bundle[version][t] => t = s
      <4> SUFFICES ASSUME NEW t \in Sources, d \in Bundle[version][t] PROVE t = s
        OBVIOUS
      <4>1. Reached(t, d)
        BY <3>1, <2>4, <1>1 DEF Reached
      <4> QED
        BY <4>1 DEF IndInv, ImportedInv
    <3>5. <<s, d>> \in Standing(loose, version)
      BY <2>1, <3>1, <3>3, <3>4 DEF Standing
    <3> QED
      BY <3>5, <2>1, <2>4, <1>1 DEF BundleDone
  <2> QED
    BY <2>2, <2>3, <2>4, <1>3
<1> QED
  BY <1>7, <1>8, <1>9

LEMMA UpTrust ==
  ASSUME IndInv, TrustInv, NEW c \in Certs,
         SaveCert(c) \/ SavePoolCert(c) \/ SaveFails(c) \/ (\E der \in BOOLEAN : Trust(c, der))
         \/ Untrust(c)
  PROVE  TrustInv'
<1> SUFFICES ASSUME NEW d \in Certs PROVE OriginOf(d)' /\ DoneOf(d)' /\ LooseOf(d)'
  BY DEF TrustInv
<1>1. phase = "up" /\ UNCHANGED <<phase, version, source, failed>>
  BY DEF SaveCert, SavePoolCert, SaveFails, Trust, Untrust, import, history
<1>2. \A s \in Sources : Done(s)' /\ Done(s)
  BY <1>1 DEF Done
<1>3. OriginOf(d) /\ DoneOf(d) /\ LooseOf(d)
  BY DEF TrustInv
<1>4. /\ row \in [Certs -> Row] /\ row[d] \in Row /\ row[c] \in Row
      /\ row[c].stored \/ row[c] = Absent
  BY DEF IndInv, TypeOK
<1>5. CASE SaveCert(c) \/ SavePoolCert(c) \/ SaveFails(c)
  <2>1. UNCHANGED <<allowed, loose>>
    BY <1>5 DEF SaveCert, SavePoolCert, SaveFails, history
  <2>2. row'[d] = row[d] \/ (d = c /\ row'[c] = SavedRow(row[c]))
        \/ (d = c /\ row'[c] = PoolRow(row[c], "other"))
    BY <1>4, <1>5 DEF SaveCert, SavePoolCert, SaveFails
  <2>3. (row'[d].trusted <=> row[d].trusted) /\ row'[d].src = row[d].src
    <3>1. /\ SavedRow(row[c]).trusted <=> row[c].trusted
          /\ SavedRow(row[c]).src = row[c].src
      BY <1>4 DEF SavedRow, Absent
    <3>2. /\ PoolRow(row[c], "other").trusted <=> row[c].trusted
          /\ row[c].stored => PoolRow(row[c], "other").src = row[c].src
      BY <1>4 DEF PoolRow, Row
    <3>3. ~row[c].stored => PoolRow(row[c], "other").src = row[c].src
      BY <1>4 DEF PoolRow, Absent
    <3> QED
      BY <2>2, <3>1, <3>2, <3>3
  <2> QED
    BY <2>1, <2>3, <1>1, <1>2, <1>3, RowKeeps
<1>6. ASSUME NEW der \in BOOLEAN, Trust(c, der)
      PROVE  OriginOf(d)' /\ DoneOf(d)' /\ LooseOf(d)'
  <2>1. /\ row' = [row EXCEPT ![c] = [SavedRow(row[c]) EXCEPT !.trusted = TRUE]]
        /\ allowed' = allowed \cup {c} /\ loose' = {p \in loose : p[2] # c}
    BY <1>6 DEF Trust
  <2>2. CASE d # c
    <3>1. row'[d] = row[d]
      BY <2>1, <2>2, <1>4
    <3> QED
      BY <3>1, <2>1, <2>2, <1>1, <1>2, <1>3, RowKeeps
  <2>3. CASE d = c
    <3>1. SavedRow(row[c]) \in Row /\ SavedRow(row[c]).src = row[c].src
      BY <1>4, RowsTyped DEF SavedRow, Absent
    <3>2. row'[d] = [SavedRow(row[c]) EXCEPT !.trusted = TRUE]
      BY <2>1, <2>3, <1>4
    <3>3. row'[d].trusted /\ row'[d].src = row[d].src
      BY <3>1, <3>2, <2>3 DEF Row
    <3>4. DoneOf(d)'
      BY <3>3, <1>1, <1>2, <1>3 DEF DoneOf
    <3> QED
      BY <3>3, <3>4, <2>1, <2>3 DEF OriginOf, LooseOf
  <2> QED
    BY <2>2, <2>3
<1>7. CASE Untrust(c)
  <2>1. /\ row' = [row EXCEPT ![c] = [row[c] EXCEPT !.trusted = FALSE]]
        /\ allowed' = allowed \ {c} /\ loose \subseteq loose'
        /\ \A s \in Sources :
              c \in Bundle[version][s] \/ Kept(version, s) = {} \/ c \in failed
                => <<s, c>> \in loose'
    BY <1>7 DEF Untrust
  <2>2. CASE d # c
    <3>1. row'[d] = row[d]
      BY <2>1, <2>2, <1>4
    <3> QED
      BY <3>1, <2>1, <2>2, <1>1, <1>2, <1>3, RowKeeps
  <2>3. CASE d = c
    <3>1. ~row'[d].trusted /\ row'[d].src = row[d].src
      BY <2>1, <2>3, <1>4 DEF Row
    <3>2. OriginOf(d)'
      BY <3>1 DEF OriginOf
    <3>3. DoneOf(d)'
      BY <3>1, <1>1, <1>2, <1>3 DEF DoneOf
    <3>4. LooseOf(d)'
      BY <3>1, <2>1, <2>3, <1>2, <1>3 DEF LooseOf, DoneOf
    <3> QED
      BY <3>2, <3>3, <3>4
  <2> QED
    BY <2>2, <2>3
<1> QED
  BY <1>5, <1>6, <1>7

LEMMA NextTrustInv == IndInv /\ TrustInv /\ [Next]_vars => TrustInv'
<1> SUFFICES ASSUME IndInv, TrustInv, [Next]_vars PROVE TrustInv'
  OBVIOUS
<1>1. CASE \E v \in Versions : Start(v)
  BY <1>1, StartTrust
<1>2. CASE \E c \in Certs : MarkPool(c) \/ ImportTrustedCert(c) \/ ImportIntermediate(c) \/ ImportFails(c)
  BY <1>2, ImportTrust
<1>3. CASE WithdrawBundleRoots \/ WithdrawFails \/ NoRootsParsed
  BY <1>3, BundleDoneTrust
<1>4. CASE Crash \/ (\E p \in Paths : TrustedPath(p)) \/ UNCHANGED vars
  <2>1. /\ UNCHANGED <<row, version, source, failed, allowed, loose>>
        /\ phase' = phase \/ phase' = "down"
    BY <1>4 DEF Crash, TrustedPath, vars, import, history
  <2>2. \A s \in Sources : Done(s)' => Done(s)
    BY <2>1 DEF Done
  <2> QED
    BY <2>1, <2>2, RowKeeps DEF TrustInv
<1>5. CASE \E c \in Certs : \/ SaveCert(c) \/ SavePoolCert(c) \/ SaveFails(c) \/ Untrust(c)
                           \/ \E der \in BOOLEAN : Trust(c, der)
  BY <1>5, UpTrust
<1> QED
  BY <1>1, <1>2, <1>3, <1>4, <1>5 DEF Next, Step

LEMMA TrustInductive == Spec => [](IndInv /\ TrustInv)
BY InitIndInv, NextIndInv, InitTrustInv, NextTrustInv, PTL DEF Spec

-----------------------------------------------------------------------------

\* The table is well formed after any statement that a crash makes the last:
\* a row that was never inserted carries no trust and no pool flag.
THEOREM TypeCorrect == Spec => []TypeOK
BY Inductive, PTL DEF IndInv

\* ImportDefaults never undoes an administrator's untrust of a root that stays
\* in its bundle.
THEOREM UntrustIsDurable == Spec => []UntrustSurvives
<1>1. IndInv => UntrustSurvives
  BY DEF IndInv, FirmInv, UntrustSurvives
<1> QED
  BY <1>1, Inductive, PTL

\* SaveCert never makes a certificate a pool issuer, the import only the ones of
\* its bundle, and SavePoolCert only those of a path that trustedPath verified to
\* a root trusted since saves are pending.
THEOREM PoolIsEarned == Spec => PoolJustified
<1>1. IndInv /\ PoolInv /\ [Next]_vars
        => [\A c \in Certs :
              row'[c].pool /\ ~row[c].pool =>
                \/ phase = "import" /\ c \in Bundle[version][source]
                \/ phase = "up" /\ \E p \in Paths : c \in p.cas /\ p.anchor \in recent]_vars
  BY PoolStep
<1> QED
  BY <1>1, Inductive, PoolInductive, PTL DEF Spec, PoolJustified

\* "roots dropped from a bundle lose trust": WithdrawBundleRoots leaves no root
\* trusted that neither the administrator nor the running bundles trust.
THEOREM TrustIsJustified == Spec => []TrustJustified
<1>1. IndInv /\ TrustInv => TrustJustified
  <2> SUFFICES ASSUME IndInv, TrustInv, phase = "up",
                      NEW c \in Certs \ (failed \cup allowed), row[c].trusted
               PROVE  \E s \in Sources :
                        \/ c \in Kept(version, s)
                        \/ Kept(version, s) = {} /\ \E v \in Versions : c \in Kept(v, s)
    BY DEF TrustJustified
  <2>1. row[c].src \in Sources /\ \E v \in Versions : c \in Kept(v, row[c].src)
    BY DEF TrustInv, OriginOf
  <2>2. c \in Kept(version, row[c].src) \/ Kept(version, row[c].src) = {}
    BY <2>1 DEF TrustInv, DoneOf, Done
  <2> QED
    BY <2>1, <2>2
<1> QED
  BY <1>1, TrustInductive, PTL

\* The upsert of ImportTrustedCert leaves no root of the running bundles
\* untrusted but those the administrator untrusted while they were there.
THEOREM BundledAreTrusted == Spec => []BundledTrusted
<1>1. IndInv /\ TrustInv => BundledTrusted
  <2> SUFFICES ASSUME IndInv, TrustInv, phase = "up", NEW s \in Sources,
                      NEW c \in Kept(version, s) \ failed
               PROVE  row[c].trusted \/ <<s, c>> \in loose
    BY DEF BundledTrusted
  <2>1. c \in Certs /\ Reached(s, c)
    BY RootsAssumption DEF Reached, IndInv, LoopInv
  <2>2. row[c].src = s
    BY <2>1 DEF IndInv, ImportedInv
  <2> QED
    BY <2>1, <2>2 DEF TrustInv, LooseOf
<1> QED
  BY <1>1, TrustInductive, PTL
=============================================================================
