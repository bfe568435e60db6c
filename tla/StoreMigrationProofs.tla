------------------------ MODULE StoreMigrationProofs ------------------------
(***************************************************************************)
(* Safety of StoreMigration for any rows, urls and number of interruptions,*)
(* and its refinement of StoreContent: how far the statements of migrate   *)
(* have come tells what the tables already have.                           *)
(***************************************************************************)
EXTENDS StoreMigration, WellFoundedInduction, TLAPS

\* The statements that follow the loop over derTables, and the open store.
Late == {"serial", "split", "repair", "unique certs", "unique crls", "indexes", "open"}

\* The loop over derTables has passed t.
Passed(t) ==
  \/ pc \in Late
  \/ /\ pc \in {"sha", "ids", "fill"}
     /\ \/ t = "certs" /\ table # "certs"
        \/ t = "crls" /\ table = "ocsp_responses"

\* A table certs without the old constraint was created with every column, be
\* it by CREATE TABLE or by the transaction that drops the constraint.
SchemaInv ==
  /\ Has("certs", "table") /\ ~Has("certs", "serial UNIQUE") => Full("certs") \subseteq schema
  /\ pc \notin {"down", "certs"} => Has("certs", "table")
  /\ pc \in Late \ {"serial"} => ~Has("certs", "serial UNIQUE")
  /\ pc = "fill" => Has(table, "sha256")
  /\ \A t \in DerTables : Passed(t) => Has(t, "sha256")

\* The rows that still need a hash are those the backfill has yet to reach,
\* and a CRL whose url is in crl_urls has one.
HashInv ==
  /\ \A t \in DerTables : Passed(t) => RowsOf(t) \subseteq hashed
  /\ pc = "fill" => Unhashed(table) \subseteq ids
  /\ pc \in Late => ids = {}
  /\ ~Has("crls", "url") => RowsOf("crls") \subseteq hashed

\* The urls are in one place: the column or the table.
UrlInv == Has("crls", "url") => crlUrls = {}

\* user_version = 1 says that every thumbprint has been repaired.
ThumbInv ==
  /\ version = 1 => thumbed = RowsOf("certs")
  /\ pc \in {"unique certs", "unique crls", "indexes", "open"} => version = 1

IndInv == TypeOK /\ SchemaInv /\ HashInv /\ UrlInv /\ ThumbInv

-----------------------------------------------------------------------------

\* A nonempty set of rowids has a largest one, which SELECT max(id) returns.
LEMMA LargestId ==
  ASSUME NEW S \in SUBSET CrlIds, S # {}
  PROVE  \E i \in S : \A j \in S : j <= i
<1> DEFINE Bounds == {n \in Nat : \A j \in S : j <= n}
           R == OpToRel(<, Nat)
<1>1. Bounds \subseteq Nat /\ MaxId \in Bounds /\ S \subseteq Nat
  BY IdsAssumption
<1>2. PICK n \in Bounds : \A m \in Bounds : ~(<<m, n>> \in R)
  <2> HIDE DEF R, Bounds
  <2>1. IsWellFoundedOn(R, Nat)
    BY NatLessThanWellFounded DEF R
  <2> QED
    BY <1>1, <2>1, WFMin
<1>3. \A m \in Bounds : ~(m < n)
  BY <1>1, <1>2 DEF OpToRel
<1> HIDE DEF R
<1>4. CASE n \in S
  BY <1>4
<1>5. CASE n \notin S
  <2>1. PICK j \in S : TRUE
    OBVIOUS
  <2>2. \A k \in S : k < n
    BY <1>1, <1>5
  <2>3. n - 1 \in Bounds
    BY <1>1, <2>1, <2>2
  <2> QED
    BY <1>1, <1>3, <2>3
<1> QED
  BY <1>4, <1>5

\* The rows of the three tables.
LEMMA RowsAre ==
  /\ RowsOf("certs") = stored \cap Certs
  /\ RowsOf("crls") = stored \cap CrlIds
  /\ RowsOf("ocsp_responses") = stored \cap Ocsps
BY DEF RowsOf

\* Full(t) without the columns it comes from.
LEMMA FullHas ==
  /\ \A i \in 1..6 : <<"certs", ColumnOrder[i]>> \in Full("certs")
  /\ <<"certs", "table">> \in Full("certs") /\ <<"certs", "sha256">> \in Full("certs")
  /\ \A i \in 1..6 : ColumnOrder[i] \notin {"table", "serial UNIQUE", "url", "index"}
  /\ \A p \in Full("certs") : /\ p # <<"certs", "serial UNIQUE">>
                              /\ p # <<"certs", "index">>
                              /\ p # <<"crls", "url">>
                              /\ p # <<"crls", "index">>
<1>1. \A i \in 1..6 : ColumnOrder[i] \notin {"table", "serial UNIQUE", "url", "index"}
  <2>1. /\ ColumnOrder[1] = "ski" /\ ColumnOrder[2] = "aki"
        /\ ColumnOrder[3] = "subject_name_der" /\ ColumnOrder[4] = "trusted"
        /\ ColumnOrder[5] = "thumbprint_sha1" /\ ColumnOrder[6] = "pool"
    BY DEF ColumnOrder
  <2>2. \A i \in 1..6 : i = 1 \/ i = 2 \/ i = 3 \/ i = 4 \/ i = 5 \/ i = 6
    OBVIOUS
  <2>3. ASSUME NEW i \in 1..6
        PROVE  ColumnOrder[i] \notin {"table", "serial UNIQUE", "url", "index"}
    BY <2>1, <2>2
  <2> QED
    BY <2>3
<1>2. \A i \in 1..6 : ColumnOrder[i] \in CertColumns
  BY DEF CertColumns
<1>3. \A x \in CertColumns : x \notin {"table", "serial UNIQUE", "url", "index"}
  BY <1>1 DEF CertColumns
<1>4. Full("certs") = {<<"certs", x>> : x \in CertColumns \cup {"table", "sha256"}}
  BY DEF Full
<1>5. \A x \in CertColumns \cup {"table", "sha256"} : <<"certs", x>> \in Full("certs")
  BY <1>4
<1>6. \A p \in Full("certs") : \E x \in CertColumns \cup {"table", "sha256"} : p = <<"certs", x>>
  BY <1>4
<1>7. ASSUME NEW p \in Full("certs")
      PROVE  /\ p # <<"certs", "serial UNIQUE">>
             /\ p # <<"certs", "index">>
             /\ p # <<"crls", "url">>
             /\ p # <<"crls", "index">>
  <2>1. PICK x \in CertColumns \cup {"table", "sha256"} : p = <<"certs", x>>
    BY <1>6
  <2>2. x # "serial UNIQUE" /\ x # "index"
    BY <1>3
  <2> QED
    BY <2>1, <2>2
<1> QED
  BY <1>1, <1>2, <1>5, <1>7

LEMMA InitIndInv == Init => IndInv
<1> SUFFICES ASSUME Init PROVE IndInv
  OBVIOUS
<1>1. /\ stored \subseteq Rows /\ hashed \subseteq stored
      /\ trusted \subseteq stored \cap Certs /\ thumbed \subseteq stored \cap Certs
      /\ crlUrls \subseteq CrlUrls \X Crls /\ version \in 0..1
      /\ version = 1 => thumbed = stored \cap Certs
  <2>1. stored \subseteq Rows
    BY DEF Init
  <2>2. CASE InitKeyed
    BY <2>1, <2>2 DEF InitKeyed
  <2>3. CASE InitPresent
    <3>1. (CrlUrls \ Uploads) \X Crls \subseteq CrlUrls \X Crls
      OBVIOUS
    <3>2. crlUrls \in SUBSET ((CrlUrls \ Uploads) \X Crls)
      BY <2>3 DEF InitPresent
    <3>3. /\ hashed = stored /\ trusted \in SUBSET (stored \cap Certs)
          /\ thumbed = stored \cap Certs /\ version = 1
      BY <2>3 DEF InitPresent
    <3>4. crlUrls \subseteq CrlUrls \X Crls
      BY <3>1, <3>2
    <3> QED
      BY <2>1, <3>3, <3>4
  <2>4. CASE InitFresh
    BY <2>1, <2>4 DEF InitFresh
  <2> QED
    BY <2>2, <2>3, <2>4 DEF Init
<1>2. /\ schema \subseteq Extended \cup {<<"certs", "index">>, <<"crls", "index">>}
      /\ Has("certs", "table") /\ ~Has("certs", "serial UNIQUE") => Full("certs") \subseteq schema
      /\ Has("crls", "url") => crlUrls = {}
      /\ ~Has("crls", "url") => hashed = stored
  <2>1. CASE schema = Keyed /\ crlUrls = {}
    BY <2>1 DEF Keyed, Extended, Has
  <2>2. CASE schema = Extended /\ crlUrls = {}
    BY <2>2 DEF Keyed, Extended, Has
  <2>3. CASE InitPresent
    <3>1. Full("certs") \subseteq schema
      BY <2>3, FullHas DEF InitPresent, Extended
    <3> QED
      BY <2>3, <3>1 DEF InitPresent, Extended, Has
  <2>4. CASE InitFresh
    BY <2>4 DEF InitFresh, Has
  <2> QED
    BY <2>1, <2>2, <2>3, <2>4 DEF Init, InitKeyed
<1>3. TypeOK
  <2>1. Extended \cup {<<"certs", "index">>, <<"crls", "index">>} \subseteq
       Full("certs") \cup
       {<<"certs", "serial UNIQUE">>, <<"crls", "table">>, <<"crls", "url">>, <<"crls", "sha256">>,
        <<"rest", "table">>, <<"ocsp_responses", "sha256">>,
        <<"certs", "index">>, <<"crls", "index">>}
    BY FullHas DEF Extended, Keyed
  <2>2. /\ pc = "down" /\ table \in DerTables /\ column \in 1..7 /\ ids \subseteq stored
        /\ faults \in 0..MaxFaults /\ acked \subseteq Certs
    BY FaultsAssumption DEF Init, DerTables
  <2> HIDE DEF Init
  <2> QED
    BY <1>1, <1>2, <2>1, <2>2 DEF TypeOK
<1>4. SchemaInv
  BY <1>2 DEF Init, SchemaInv, Passed, Late
<1>5. HashInv
  BY <1>2, RowsAre DEF Init, HashInv, Passed, Late
<1>6. UrlInv
  BY <1>2 DEF UrlInv
<1>7. ThumbInv
  BY <1>1, RowsAre DEF Init, ThumbInv
<1> QED
  BY <1>3, <1>4, <1>5, <1>6, <1>7 DEF IndInv

-----------------------------------------------------------------------------
(***************************************************************************)
(* One statement, by what it touches.                                      *)
(***************************************************************************)

\* Statements that only move on.
Moves == Start \/ ColumnsDone \/ QueryIds \/ NextTable \/ CreateIndexes \/ Interrupt \/ Stop

\* Statements that only change the schema.
Alters ==
  \/ CreateTables \/ AddColumn \/ AddSha \/ DropSerialUnique
  \/ UniqueIndex("unique certs", "certs", "unique crls")
  \/ UniqueIndex("unique crls", "crls", "indexes")

\* Statements that change rows.
Writes ==
  \/ (\E r \in Rows : FillRow(r)) \/ SplitCRLURLs \/ RepairSHA1
  \/ \E c \in Certs : SaveCert(c) \/ \E t \in BOOLEAN : SetTrusted(c, t)

LEMMA Statements == Next => Moves \/ Alters \/ Writes
BY DEF Next, Migrate, Moves, Alters, Writes

-----------------------------------------------------------------------------
(***************************************************************************)
(* What the transactions find, given how far migrate has come.             *)
(***************************************************************************)

\* Before splitCRLURLs every row has its hash.
LEMMA AllHashed ==
  ASSUME IndInv, pc \in Late
  PROVE  /\ hashed = stored /\ ids = {}
         /\ \A r \in stored : Sha(r) = DER(r)
<1>1. \A t \in DerTables : RowsOf(t) \subseteq hashed
  BY DEF IndInv, HashInv, Passed
<1>2. stored \cap Certs \subseteq hashed /\ stored \cap CrlIds \subseteq hashed
        /\ stored \cap Ocsps \subseteq hashed
  BY <1>1, RowsAre DEF DerTables
<1>3. stored \subseteq Rows /\ hashed \subseteq stored
  BY DEF IndInv, TypeOK
<1>4. hashed = stored
  BY <1>2, <1>3 DEF Rows
<1> QED
  BY <1>4 DEF IndInv, HashInv, Sha

\* splitCRLURLs keeps a row of every content, and maps every url that is not an
\* upload to the content it had.
LEMMA SplitKeeps ==
  ASSUME IndInv, pc = "split"
  PROVE  /\ NewestPerContent \subseteq RowsOf("crls")
         /\ {DER(i) : i \in NewestPerContent} = {DER(i) : i \in RowsOf("crls")}
         /\ Has("crls", "url") =>
              MappedUrls = {<<CrlRow[i].url, CrlRow[i].der>> :
                              i \in {j \in RowsOf("crls") : CrlRow[j].url \notin Uploads}}
<1> DEFINE C == RowsOf("crls")
<1>1. C \subseteq CrlIds /\ \A i \in C : Sha(i) = DER(i) /\ DER(i) = CrlRow[i].der
  BY RowsAre, AllHashed DEF DER, Late
<1>2. NewestPerContent = {i \in C : \A j \in C : Sha(j) = Sha(i) => j <= i}
  BY DEF NewestPerContent
<1>3. ASSUME NEW i \in C PROVE \E k \in NewestPerContent : DER(k) = DER(i)
  <2> DEFINE S == {j \in C : Sha(j) = Sha(i)}
  <2>1. S \in SUBSET CrlIds /\ S # {}
    BY <1>1
  <2>2. PICK k \in S : \A j \in S : j <= k
    BY <2>1, LargestId
  <2>3. k \in NewestPerContent
    BY <1>2, <2>2
  <2> QED
    BY <1>1, <2>2, <2>3
<1>4. {DER(i) : i \in NewestPerContent} = {DER(i) : i \in C}
  BY <1>2, <1>3
<1>5. ASSUME Has("crls", "url")
      PROVE  MappedUrls = {<<CrlRow[i].url, CrlRow[i].der>> :
                             i \in {j \in C : CrlRow[j].url \notin Uploads}}
  <2>1. crlUrls = {}
    BY <1>5 DEF IndInv, UrlInv
  <2> DEFINE new == {<<CrlRow[i].url, Sha(i)>> :
                       i \in {j \in C : CrlRow[j].url \notin Uploads}}
  <2>2. MappedUrls = new \cup {p \in crlUrls : \A q \in new : q[1] # p[1]}
    BY DEF MappedUrls
  <2>3. new = {<<CrlRow[i].url, CrlRow[i].der>> :
                 i \in {j \in C : CrlRow[j].url \notin Uploads}}
    BY <1>1
  <2> HIDE DEF new
  <2>4. {p \in crlUrls : \A q \in new : q[1] # p[1]} = {}
    BY <2>1
  <2>5. MappedUrls = new
    BY <2>2, <2>4
  <2> QED
    BY <2>3, <2>5
<1> QED
  BY <1>2, <1>4, <1>5

\* The columns and constraints that exist after a step.
LEMMA SchemaType ==
  ASSUME IndInv, Next
  PROVE  schema' \subseteq Full("certs") \cup
           {<<"certs", "serial UNIQUE">>, <<"crls", "table">>, <<"crls", "url">>,
            <<"crls", "sha256">>, <<"rest", "table">>, <<"ocsp_responses", "sha256">>,
            <<"certs", "index">>, <<"crls", "index">>}
<1> DEFINE X == Full("certs") \cup
           {<<"certs", "serial UNIQUE">>, <<"crls", "table">>, <<"crls", "url">>,
            <<"crls", "sha256">>, <<"rest", "table">>, <<"ocsp_responses", "sha256">>,
            <<"certs", "index">>, <<"crls", "index">>}
<1>1. schema \subseteq X /\ table \in DerTables
  BY DEF IndInv, TypeOK
<1>2. CASE CreateTables
  <2>1. \/ schema' = schema
        \/ schema' = schema \cup Full("certs")
        \/ schema' = schema \cup {<<"crls", "table">>, <<"crls", "sha256">>}
        \/ schema' = schema \cup {<<"rest", "table">>}
    BY <1>2 DEF CreateTables, CreateTable
  <2> QED
    BY <1>1, <2>1
<1>3. CASE AddColumn
  <2>1. column \in 1..6
    <3>1. column \in 1..7 /\ column <= 6
      BY <1>3 DEF IndInv, TypeOK, AddColumn
    <3> QED
      BY <3>1
  <2> QED
    BY <1>1, <1>3, <2>1, FullHas DEF AddColumn
<1>4. CASE AddSha
  <2>1. <<table, "sha256">> \in X
    BY <1>1, FullHas DEF DerTables
  <2> QED
    BY <1>1, <1>4, <2>1 DEF AddSha
<1>5. CASE DropSerialUnique \/ SplitCRLURLs
  <2>1. schema' \subseteq schema
    BY <1>5 DEF DropSerialUnique, SplitCRLURLs
  <2> QED
    BY <1>1, <2>1
<1>6. CASE \/ UniqueIndex("unique certs", "certs", "unique crls")
           \/ UniqueIndex("unique crls", "crls", "indexes")
  <2>1. schema' \subseteq schema \cup {<<"certs", "index">>, <<"crls", "index">>}
    BY <1>6 DEF UniqueIndex
  <2> QED
    BY <1>1, <2>1
<1>7. CASE schema' = schema
  BY <1>1, <1>7
<1>8. Moves \/ (\E r \in Rows : FillRow(r)) \/ RepairSHA1
        \/ (\E c \in Certs : SaveCert(c) \/ \E t \in BOOLEAN : SetTrusted(c, t))
        => schema' = schema
  BY DEF Moves, Start, ColumnsDone, QueryIds, NextTable, CreateIndexes, Interrupt, Stop,
         FillRow, RepairSHA1, SaveCert, SetTrusted, tables
<1> QED
  BY <1>2, <1>3, <1>4, <1>5, <1>6, <1>7, <1>8, Statements DEF Alters, Writes

\* Rows, urls and marks keep their types.
LEMMA RowsType ==
  ASSUME IndInv, Next
  PROVE  /\ stored' \subseteq Rows /\ hashed' \subseteq stored'
         /\ trusted' \subseteq stored' \cap Certs /\ thumbed' \subseteq stored' \cap Certs
         /\ crlUrls' \subseteq CrlUrls \X Crls /\ ids' \subseteq stored'
<1> DEFINE P == /\ stored' \subseteq Rows /\ hashed' \subseteq stored'
                /\ trusted' \subseteq stored' \cap Certs /\ thumbed' \subseteq stored' \cap Certs
                /\ crlUrls' \subseteq CrlUrls \X Crls /\ ids' \subseteq stored'
<1> USE DEF Locals, tables
<1>1. /\ stored \subseteq Rows /\ hashed \subseteq stored
      /\ trusted \subseteq stored \cap Certs /\ thumbed \subseteq stored \cap Certs
      /\ crlUrls \subseteq CrlUrls \X Crls /\ ids \subseteq stored
  BY DEF IndInv, TypeOK
<1>2. ASSUME UNCHANGED <<stored, hashed, trusted, thumbed, crlUrls>>,
             ids' \subseteq ids \cup (stored \ hashed)
      PROVE  P
  BY <1>1, <1>2
<1>3. ASSUME Moves
      PROVE  /\ UNCHANGED <<stored, hashed, trusted, thumbed, crlUrls>>
             /\ ids' \subseteq ids \cup (stored \ hashed)
  <2>1. QueryIds => ids' \subseteq ids \cup (stored \ hashed)
    BY DEF QueryIds, Unhashed, RowsOf
  <2> QED
    BY <1>3, <2>1 DEF Moves, Start, ColumnsDone, QueryIds, NextTable, CreateIndexes,
                      Interrupt, Stop
<1>4. ASSUME Alters
      PROVE  /\ UNCHANGED <<stored, hashed, trusted, thumbed, crlUrls>>
             /\ ids' = ids
  BY <1>4 DEF Alters, CreateTables, CreateTable, AddColumn, AddSha, DropSerialUnique,
              UniqueIndex
<1>5. ASSUME NEW r \in Rows, FillRow(r) PROVE P
  BY <1>1, <1>5 DEF FillRow
<1>6. ASSUME SplitCRLURLs PROVE P
  <2>1. CASE UNCHANGED <<stored, hashed, crlUrls>>
    BY <1>2, <1>6, <2>1 DEF SplitCRLURLs
  <2>2. CASE /\ Has("crls", "url") /\ crlUrls' = MappedUrls
             /\ stored' = (stored \ CrlIds) \cup NewestPerContent
             /\ hashed' = hashed \cap stored'
    <3>1. pc = "split" /\ UNCHANGED <<trusted, thumbed, ids>>
      BY <1>6 DEF SplitCRLURLs
    <3>2. NewestPerContent \subseteq stored \cap CrlIds
      BY <3>1, SplitKeeps, RowsAre
    <3>3. MappedUrls \subseteq CrlUrls \X Crls
      <4>1. \A i \in RowsOf("crls") : CrlRow[i].url \in CrlUrls /\ CrlRow[i].der \in Crls
        BY RowsAre DEF CrlUrls, Crls
      <4> QED
        BY <2>2, <3>1, <4>1, SplitKeeps
    <3>4. ids = {}
      BY <3>1, AllHashed DEF Late
    <3>5. Certs \cap CrlIds = {}
      BY KindsAssumption
    <3> QED
      BY <1>1, <2>2, <3>1, <3>2, <3>3, <3>4, <3>5
  <2> QED
    BY <1>6, <2>1, <2>2 DEF SplitCRLURLs
<1>7. ASSUME RepairSHA1 PROVE P
  BY <1>1, <1>7, RowsAre DEF RepairSHA1
<1>8. ASSUME NEW c \in Certs, SaveCert(c) PROVE P
  BY <1>1, <1>8 DEF SaveCert, Rows
<1>9. ASSUME NEW c \in Certs, NEW t \in BOOLEAN, SetTrusted(c, t) PROVE P
  BY <1>1, <1>9 DEF SetTrusted
<1> QED
  BY <1>2, <1>3, <1>4, <1>5, <1>6, <1>7, <1>8, <1>9, Statements DEF Writes

LEMMA TypeStep ==
  ASSUME IndInv, Next
  PROVE  TypeOK'
<1> USE DEF Locals, tables, Goto
<1>1. /\ version \in 0..1 /\ pc \in Steps \cup {"down", "open"} /\ table \in DerTables
      /\ column \in 1..7 /\ faults \in 0..MaxFaults /\ acked \subseteq Certs
  BY DEF IndInv, TypeOK
<1>2. acked' \subseteq Certs
  BY <1>1 DEF Next, SaveCert
<1>3. /\ Moves => pc' \in Steps \cup {"down", "open"}
      /\ Alters => pc' \in Steps \cup {"down", "open"}
      /\ Writes => pc' \in Steps \cup {"down", "open"}
  <2>1. Moves => pc' \in Steps \cup {"down", "open"}
    BY DEF Moves, Start, ColumnsDone, QueryIds, NextTable, CreateIndexes, Interrupt, Stop, Steps
  <2>2. Alters => pc' \in Steps \cup {"down", "open"}
    BY <1>1 DEF Alters, CreateTables, CreateTable, AddColumn, AddSha, DropSerialUnique,
                UniqueIndex, Steps
  <2>3. Writes => pc' \in Steps \cup {"down", "open"}
    BY <1>1 DEF Writes, FillRow, SplitCRLURLs, RepairSHA1, SaveCert, SetTrusted, Steps
  <2> QED
    BY <2>1, <2>2, <2>3
<1>4. table' \in DerTables /\ version' \in 0..1
  <2>1. table' \in {table, "certs", "crls", "ocsp_responses"} /\ version' \in {version, 1}
    BY Statements
       DEF Moves, Start, ColumnsDone, QueryIds, NextTable, CreateIndexes, Interrupt, Stop,
           Alters, CreateTables, CreateTable, AddColumn, AddSha, DropSerialUnique, UniqueIndex,
           Writes, FillRow, SplitCRLURLs, RepairSHA1, SaveCert, SetTrusted
  <2> QED
    BY <1>1, <2>1 DEF DerTables
<1>5. column' \in 1..7 /\ faults' \in 0..MaxFaults
  <2>1. /\ column' \in {column, 1} \/ (column <= 6 /\ column' = column + 1)
        /\ faults' = faults \/ (faults < MaxFaults /\ faults' = faults + 1)
    BY Statements
       DEF Moves, Start, ColumnsDone, QueryIds, NextTable, CreateIndexes, Interrupt, Stop,
           Alters, CreateTables, CreateTable, AddColumn, AddSha, DropSerialUnique, UniqueIndex,
           Writes, FillRow, SplitCRLURLs, RepairSHA1, SaveCert, SetTrusted
  <2> QED
    BY <1>1, <2>1, FaultsAssumption
<1>6. TypeOK' <=> /\ schema' \subseteq Full("certs") \cup
                      {<<"certs", "serial UNIQUE">>, <<"crls", "table">>, <<"crls", "url">>,
                       <<"crls", "sha256">>, <<"rest", "table">>,
                       <<"ocsp_responses", "sha256">>,
                       <<"certs", "index">>, <<"crls", "index">>}
                  /\ stored' \subseteq Rows /\ hashed' \subseteq stored'
                  /\ trusted' \subseteq stored' \cap Certs
                  /\ thumbed' \subseteq stored' \cap Certs
                  /\ crlUrls' \subseteq CrlUrls \X Crls /\ ids' \subseteq stored'
                  /\ version' \in 0..1 /\ pc' \in Steps \cup {"down", "open"}
                  /\ table' \in DerTables /\ column' \in 1..7
                  /\ faults' \in 0..MaxFaults /\ acked' \subseteq Certs
  BY DEF TypeOK
<1> QED
  BY <1>2, <1>3, <1>4, <1>5, <1>6, Statements, SchemaType, RowsType

\* What a step does to the schema: it grows, by the whole table certs or by
\* what is neither that table nor its old constraint; or certs is rebuilt with
\* every column; or crls without the url.
LEMMA SchemaEffect ==
  ASSUME IndInv, Next
  PROVE  \/ /\ schema \subseteq schema'
            /\ Has("crls", "url")' <=> Has("crls", "url")
            /\ Has("certs", "serial UNIQUE")' <=> Has("certs", "serial UNIQUE")
            /\ Has("certs", "table")' /\ ~Has("certs", "table") =>
                 Full("certs") \subseteq schema'
            /\ ~SplitCRLURLs \/ schema' = schema
         \/ /\ DropSerialUnique /\ Full("certs") \subseteq schema /\ pc' = "split"
            /\ schema' = schema \ {<<"certs", "serial UNIQUE">>, <<"certs", "index">>}
         \/ /\ SplitCRLURLs /\ Has("crls", "url")
            /\ schema' = schema \ {<<"crls", "url">>, <<"crls", "index">>}
<1> USE DEF Goto, tables, Locals
<1> DEFINE G == /\ schema \subseteq schema'
                /\ Has("crls", "url")' <=> Has("crls", "url")
                /\ Has("certs", "serial UNIQUE")' <=> Has("certs", "serial UNIQUE")
                /\ Has("certs", "table")' /\ ~Has("certs", "table") =>
                     Full("certs") \subseteq schema'
                /\ ~SplitCRLURLs \/ schema' = schema
<1>1. ASSUME schema' = schema PROVE G
  BY <1>1 DEF Has
<1>2. ASSUME NEW p, schema' = schema \cup {p}, ~SplitCRLURLs,
             p # <<"certs", "table">>, p # <<"certs", "serial UNIQUE">>, p # <<"crls", "url">>
      PROVE  G
  BY <1>2 DEF Has
<1>3. CASE Moves \/ (\E r \in Rows : FillRow(r)) \/ RepairSHA1
             \/ (\E c \in Certs : SaveCert(c) \/ \E t \in BOOLEAN : SetTrusted(c, t))
  <2>1. schema' = schema
    BY <1>3 DEF Moves, Start, ColumnsDone, QueryIds, NextTable, CreateIndexes, Interrupt, Stop,
                FillRow, RepairSHA1, SaveCert, SetTrusted
  <2> QED
    BY <1>1, <2>1
<1>4. ASSUME CreateTables PROVE G
  <2>1. ~SplitCRLURLs
    BY <1>4 DEF CreateTables, CreateTable, SplitCRLURLs
  <2>2. \/ schema' = schema
        \/ schema' = schema \cup Full("certs")
        \/ schema' = schema \cup {<<"crls", "table">>, <<"crls", "sha256">>}
        \/ schema' = schema \cup {<<"rest", "table">>}
    BY <1>4 DEF CreateTables, CreateTable
  <2>3. CASE schema' = schema \cup Full("certs")
    BY <2>1, <2>3, FullHas DEF Has
  <2>4. CASE schema' = schema \cup {<<"crls", "table">>, <<"crls", "sha256">>}
    BY <2>1, <2>4 DEF Has
  <2>5. CASE schema' = schema \cup {<<"rest", "table">>}
    BY <1>2, <2>1, <2>5
  <2> QED
    BY <1>1, <2>2, <2>3, <2>4, <2>5
<1>5. ASSUME AddColumn PROVE G
  <2>1. column \in 1..6
    <3>1. column \in 1..7 /\ column <= 6
      BY <1>5 DEF IndInv, TypeOK, AddColumn
    <3> QED
      BY <3>1
  <2>2. schema' = schema \/ schema' = schema \cup {<<"certs", ColumnOrder[column]>>}
    BY <1>5 DEF AddColumn
  <2>3. ColumnOrder[column] # "table" /\ ColumnOrder[column] # "serial UNIQUE"
    BY <2>1, FullHas
  <2>4. ~SplitCRLURLs
    BY <1>5 DEF AddColumn, SplitCRLURLs
  <2> QED
    BY <1>1, <1>2, <2>2, <2>3, <2>4
<1>6. ASSUME AddSha PROVE G
  <2>1. schema' = schema \/ schema' = schema \cup {<<table, "sha256">>}
    BY <1>6 DEF AddSha
  <2>2. ~SplitCRLURLs
    BY <1>6 DEF AddSha, SplitCRLURLs
  <2> QED
    BY <1>1, <1>2, <2>1, <2>2
<1>7. CASE DropSerialUnique
  BY <1>1, <1>7 DEF DropSerialUnique
<1>8. CASE SplitCRLURLs
  BY <1>1, <1>8 DEF SplitCRLURLs
<1>9. ASSUME \/ UniqueIndex("unique certs", "certs", "unique crls")
             \/ UniqueIndex("unique crls", "crls", "indexes")
      PROVE  G
  <2>1. \/ schema' = schema \/ schema' = schema \cup {<<"certs", "index">>}
        \/ schema' = schema \cup {<<"crls", "index">>}
    BY <1>9 DEF UniqueIndex
  <2>2. ~SplitCRLURLs
    BY <1>9 DEF UniqueIndex, SplitCRLURLs
  <2> QED
    BY <1>1, <1>2, <2>1, <2>2
<1> QED
  BY <1>3, <1>4, <1>5, <1>6, <1>7, <1>8, <1>9, Statements DEF Alters, Writes

\* The order of the statements.
LEMMA Order ==
  ASSUME IndInv, Next
  PROVE  /\ pc' \notin {"down", "certs"} => pc \notin {"down", "certs"} \/ (pc = "certs" /\ CreateTables)
         /\ pc' \in Late \ {"serial"} => pc \in Late
         /\ pc' \in Late \ {"serial"} /\ pc = "serial" => DropSerialUnique
         /\ pc' \in {"unique certs", "unique crls", "indexes", "open"} =>
              pc \in {"unique certs", "unique crls", "indexes", "open"} \/ RepairSHA1
         /\ pc' = "serial" => NextTable /\ pc = "fill" /\ table = "ocsp_responses"
         /\ pc' = "fill" => \/ QueryIds /\ pc = "ids"
                            \/ pc = "fill" /\ UNCHANGED table /\ ~NextTable
         /\ pc' \in {"sha", "ids", "fill"} =>
              \/ pc \in {"sha", "ids", "fill"} /\ (UNCHANGED table \/ NextTable)
              \/ table' = "certs"
<1> USE DEF Goto, tables, Locals, Late
<1>1. CASE Moves
  BY <1>1 DEF Moves, Start, ColumnsDone, QueryIds, NextTable, CreateIndexes, Interrupt, Stop, Steps
<1>2. CASE Alters
  BY <1>2 DEF Alters, CreateTables, CreateTable, AddColumn, AddSha, DropSerialUnique,
              UniqueIndex, NextTable
<1>3. CASE Writes
  BY <1>3 DEF Writes, FillRow, SplitCRLURLs, RepairSHA1, SaveCert, SetTrusted, NextTable
<1> QED
  BY <1>1, <1>2, <1>3, Statements

\* A table is passed by the loop when its last row has been filled.
LEMMA PassedStep ==
  ASSUME IndInv, Next, NEW t \in DerTables, Passed(t)'
  PROVE  Passed(t) \/ (NextTable /\ table = t)
<1> USE DEF Passed, DerTables
<1>1. table \in {"certs", "crls", "ocsp_responses"}
  BY DEF IndInv, TypeOK
<1>2. CASE pc' \in Late
  BY <1>1, <1>2, Order DEF Late
<1>3. CASE pc' \in {"sha", "ids", "fill"} /\ table' # "certs"
  <2>1. pc \in {"sha", "ids", "fill"} /\ (UNCHANGED table \/ NextTable)
    BY <1>3, Order
  <2>2. NextTable => \/ table = "certs" /\ table' = "crls"
                     \/ table' = "ocsp_responses" /\ table # "certs"
    BY DEF NextTable
  <2> QED
    BY <1>1, <1>3, <2>1, <2>2 DEF Late
<1> QED
  BY <1>2, <1>3

\* The schema that each statement may count on.
LEMMA SchemaStep ==
  ASSUME IndInv, Next
  PROVE  SchemaInv'
<1>1. SchemaInv
  BY DEF IndInv
<1>2. ASSUME NEW t, Has(t, "sha256") PROVE Has(t, "sha256")'
  BY <1>2, SchemaEffect DEF Has
<1>3. Has("certs", "table")' /\ ~Has("certs", "serial UNIQUE")' => Full("certs") \subseteq schema'
  <2>1. CASE /\ schema \subseteq schema'
             /\ Has("certs", "serial UNIQUE")' <=> Has("certs", "serial UNIQUE")
             /\ Has("certs", "table")' /\ ~Has("certs", "table") =>
                  Full("certs") \subseteq schema'
    BY <1>1, <2>1 DEF SchemaInv
  <2>2. CASE /\ Full("certs") \subseteq schema
             /\ schema' = schema \ {<<"certs", "serial UNIQUE">>, <<"certs", "index">>}
    BY <2>2, FullHas
  <2>3. CASE schema' = schema \ {<<"crls", "url">>, <<"crls", "index">>}
    <3>1. Has("certs", "table")' /\ ~Has("certs", "serial UNIQUE")' =>
            Has("certs", "table") /\ ~Has("certs", "serial UNIQUE")
      BY <2>3 DEF Has
    <3> QED
      BY <1>1, <2>3, <3>1, FullHas DEF SchemaInv
  <2> QED
    BY <2>1, <2>2, <2>3, SchemaEffect
<1>4. pc' \notin {"down", "certs"} => Has("certs", "table")'
  <2>1. Has("certs", "table") => Has("certs", "table")'
    BY SchemaEffect DEF Has
  <2>2. pc = "certs" /\ CreateTables => Has("certs", "table")'
    BY FullHas DEF CreateTables, CreateTable, Has
  <2> QED
    BY <1>1, <2>1, <2>2, Order DEF SchemaInv
<1>5. pc' \in Late \ {"serial"} => ~Has("certs", "serial UNIQUE")'
  <2>1. ~Has("certs", "serial UNIQUE") => ~Has("certs", "serial UNIQUE")'
    BY SchemaEffect DEF Has
  <2>2. DropSerialUnique /\ pc' # "down" => ~Has("certs", "serial UNIQUE")'
    BY DEF DropSerialUnique, SerialKept, Has, Goto
  <2> QED
    BY <1>1, <2>1, <2>2, Order DEF SchemaInv, Late
<1>6. pc' = "fill" => Has(table, "sha256")'
  <2>1. QueryIds /\ pc' = "fill" => Has(table, "sha256")'
    BY DEF QueryIds, Has, tables, Goto
  <2>2. ASSUME pc = "fill", table' = table PROVE Has(table, "sha256")'
    <3>1. Has(table, "sha256")
      BY <1>1, <2>2 DEF SchemaInv
    <3> QED
      BY <2>2, <3>1, SchemaEffect DEF Has
  <2> QED
    BY <2>1, <2>2, Order
<1>7. ASSUME NEW t \in DerTables, Passed(t)' PROVE Has(t, "sha256")'
  <2>1. Passed(t) => Has(t, "sha256")
    BY <1>1 DEF SchemaInv
  <2>2. NextTable /\ table = t => Has(t, "sha256")
    BY <1>1 DEF SchemaInv, NextTable
  <2> QED
    BY <1>2, <1>7, <2>1, <2>2, PassedStep
<1> QED
  BY <1>3, <1>4, <1>5, <1>6, <1>7 DEF SchemaInv

\* Outside splitCRLURLs no row is removed, and only SaveCert adds one.
LEMMA RowsEffect ==
  ASSUME IndInv, Next
  PROVE  \/ /\ stored' = stored /\ hashed \subseteq hashed'
            /\ ~SplitCRLURLs \/ ~Has("crls", "url")
         \/ \E c \in Certs : SaveCert(c) /\ stored' = stored \cup {c} /\ hashed' = hashed \cup {c}
         \/ /\ SplitCRLURLs /\ Has("crls", "url") /\ pc = "split"
            /\ stored' = (stored \ CrlIds) \cup NewestPerContent
            /\ hashed' = hashed \cap stored'
<1> USE DEF Locals, tables
<1>1. CASE Moves
  BY <1>1 DEF Moves, Start, ColumnsDone, QueryIds, NextTable, CreateIndexes, Interrupt, Stop,
              SplitCRLURLs
<1>2. CASE Alters
  BY <1>2 DEF Alters, CreateTables, CreateTable, AddColumn, AddSha, DropSerialUnique,
              UniqueIndex, SplitCRLURLs
<1>3. ASSUME NEW r \in Rows, FillRow(r)
      PROVE  stored' = stored /\ hashed \subseteq hashed' /\ ~SplitCRLURLs
  BY <1>3 DEF FillRow, SplitCRLURLs
<1>4. CASE SplitCRLURLs
  BY <1>4 DEF SplitCRLURLs
<1>5. CASE RepairSHA1
  BY <1>5 DEF RepairSHA1, SplitCRLURLs
<1>6. ASSUME NEW c \in Certs, SaveCert(c)
      PROVE  \/ stored' = stored /\ hashed' = hashed /\ ~SplitCRLURLs
             \/ stored' = stored \cup {c} /\ hashed' = hashed \cup {c}
  BY <1>6 DEF SaveCert, SplitCRLURLs
<1>7. ASSUME NEW c \in Certs, NEW t \in BOOLEAN, SetTrusted(c, t)
      PROVE  stored' = stored /\ hashed' = hashed /\ ~SplitCRLURLs
  BY <1>7 DEF SetTrusted, SplitCRLURLs
<1> QED
  BY <1>1, <1>2, <1>3, <1>4, <1>5, <1>6, <1>7, Statements DEF Writes

\* A table whose rows have all been hashed stays so.
LEMMA StaysHashed ==
  ASSUME IndInv, Next, NEW t \in DerTables, RowsOf(t) \subseteq hashed
  PROVE  (RowsOf(t) \subseteq hashed)'
<1> DEFINE K == CASE t = "certs" -> Certs [] t = "crls" -> CrlIds [] OTHER -> Ocsps
<1>1. RowsOf(t) = stored \cap K /\ RowsOf(t)' = stored' \cap K
  BY DEF RowsOf
<1> HIDE DEF K
<1>2. CASE stored' = stored /\ hashed \subseteq hashed'
  BY <1>1, <1>2
<1>3. ASSUME NEW c, stored' = stored \cup {c}, hashed' = hashed \cup {c}
      PROVE  RowsOf(t)' \subseteq hashed'
  BY <1>1, <1>3
<1>4. CASE /\ pc = "split" /\ stored' = (stored \ CrlIds) \cup NewestPerContent
           /\ hashed' = hashed \cap stored'
  <2>1. stored' \subseteq stored
    BY <1>4, SplitKeeps, RowsAre
  <2> QED
    BY <1>1, <1>4, <2>1
<1> QED
  BY <1>2, <1>3, <1>4, RowsEffect

\* The backfill leaves no row behind.
LEMMA HashStep ==
  ASSUME IndInv, Next
  PROVE  HashInv'
<1> USE DEF Goto, tables, Locals
<1>1. HashInv /\ table \in DerTables
  BY DEF IndInv, TypeOK
<1>2. ASSUME NEW t \in DerTables, Passed(t)' PROVE (RowsOf(t) \subseteq hashed)'
  <2>1. Passed(t) => RowsOf(t) \subseteq hashed
    BY <1>1 DEF HashInv
  <2>2. NextTable /\ table = t => RowsOf(t) \subseteq hashed
    BY <1>1 DEF HashInv, NextTable, Unhashed
  <2> QED
    BY <1>2, <2>1, <2>2, PassedStep, StaysHashed
<1>3. pc' = "fill" => (Unhashed(table) \subseteq ids)'
  <2>1. QueryIds /\ pc' = "fill" => (Unhashed(table) \subseteq ids)'
    BY DEF QueryIds, Unhashed, RowsOf
  <2>2. ASSUME pc = "fill", pc' = "fill", ~NextTable PROVE (Unhashed(table) \subseteq ids)'
    <3>1. \E r \in Rows : FillRow(r)
      <4>1. ~Moves
        BY <2>2 DEF Moves, Start, ColumnsDone, QueryIds, CreateIndexes, Interrupt, Stop
      <4>2. ~Alters
        BY <2>2 DEF Alters, CreateTables, CreateTable, AddColumn, AddSha, DropSerialUnique,
                    UniqueIndex
      <4> QED
        BY <2>2, <4>1, <4>2, Statements DEF Writes, SplitCRLURLs, RepairSHA1, SaveCert, SetTrusted
    <3>2. Unhashed(table) \subseteq ids
      BY <1>1, <2>2 DEF HashInv
    <3> QED
      BY <3>1, <3>2 DEF FillRow, Unhashed, RowsOf
  <2> QED
    BY <2>1, <2>2, Order
<1>4. pc' \in Late => ids' = {}
  <2>1. CASE Moves
    BY <1>1, <2>1 DEF HashInv, Late, Moves, Start, ColumnsDone, QueryIds, NextTable, CreateIndexes,
                      Interrupt, Stop
  <2>2. CASE Alters
    BY <1>1, <2>2 DEF HashInv, Late, Alters, CreateTables, CreateTable, AddColumn, AddSha,
                      DropSerialUnique, UniqueIndex
  <2>3. CASE Writes
    BY <1>1, <2>3 DEF HashInv, Late, Writes, FillRow, SplitCRLURLs, RepairSHA1, SaveCert, SetTrusted
  <2> QED
    BY <2>1, <2>2, <2>3, Statements
<1>5. ~Has("crls", "url")' => (RowsOf("crls") \subseteq hashed)'
  <2>1. CASE ~Has("crls", "url")
    BY <1>1, <2>1, StaysHashed DEF HashInv, DerTables
  <2>2. CASE Has("crls", "url") /\ ~Has("crls", "url")'
    <3>1. SplitCRLURLs
      <4>1. DropSerialUnique => (Has("crls", "url")' <=> Has("crls", "url"))
        BY DEF DropSerialUnique, Has
      <4> QED
        BY <2>2, <4>1, SchemaEffect
    <3>2. RowsOf("crls") \subseteq hashed
      BY <3>1, AllHashed, RowsAre DEF SplitCRLURLs, Late
    <3> QED
      BY <3>2, StaysHashed DEF DerTables
  <2> QED
    BY <2>1, <2>2
<1> QED
  BY <1>2, <1>3, <1>4, <1>5 DEF HashInv

\* The urls move from the column to the table at once.
LEMMA UrlStep ==
  ASSUME IndInv, Next
  PROVE  UrlInv'
<1>1. UrlInv
  BY DEF IndInv
<1>2. Has("crls", "url")' => Has("crls", "url")
  BY SchemaEffect DEF Has
<1>3. crlUrls' = crlUrls \/ (SplitCRLURLs /\ ~Has("crls", "url")')
  <2> USE DEF tables
  <2>1. Moves => crlUrls' = crlUrls
    BY DEF Moves, Start, ColumnsDone, QueryIds, NextTable, CreateIndexes, Interrupt, Stop
  <2>2. Alters => crlUrls' = crlUrls
    BY DEF Alters, CreateTables, CreateTable, AddColumn, AddSha, DropSerialUnique, UniqueIndex
  <2>3. SplitCRLURLs => crlUrls' = crlUrls \/ ~Has("crls", "url")'
    BY DEF SplitCRLURLs, Has
  <2>4. Writes => crlUrls' = crlUrls \/ SplitCRLURLs
    BY DEF Writes, FillRow, RepairSHA1, SaveCert, SetTrusted
  <2> QED
    BY <2>1, <2>2, <2>3, <2>4, Statements
<1> QED
  BY <1>1, <1>2, <1>3 DEF UrlInv

\* user_version is raised with the last thumbprint, and SaveCert sets its own.
LEMMA ThumbStep ==
  ASSUME IndInv, Next
  PROVE  ThumbInv'
<1> USE DEF Goto, tables, Locals
<1>1. ThumbInv
  BY DEF IndInv
<1>2. ASSUME version' = 1 PROVE (thumbed = RowsOf("certs"))'
  <2>1. RowsOf("certs") = stored \cap Certs /\ RowsOf("certs")' = stored' \cap Certs
    BY DEF RowsOf
  <2>2. CASE RepairSHA1
    BY <1>1, <1>2, <2>1, <2>2 DEF ThumbInv, RepairSHA1
  <2>3. ASSUME NEW c \in Certs, SaveCert(c) PROVE thumbed' = stored' \cap Certs
    <3>1. version = 1 /\ pc = "open"
      BY <1>2, <2>3 DEF SaveCert
    <3> QED
      BY <1>1, <2>1, <2>3, <3>1 DEF ThumbInv, SaveCert
  <2>4. ASSUME SplitCRLURLs PROVE stored' \cap Certs = stored \cap Certs
    <3>1. CASE stored' = (stored \ CrlIds) \cup NewestPerContent
      <4>1. NewestPerContent \subseteq CrlIds
        BY <2>4, SplitKeeps, RowsAre DEF SplitCRLURLs
      <4> QED
        BY <3>1, <4>1, KindsAssumption
    <3> QED
      BY <2>4, <3>1 DEF SplitCRLURLs
  <2>5. ASSUME ~RepairSHA1, ~\E c \in Certs : SaveCert(c)
        PROVE  version' = version /\ thumbed' = thumbed /\ stored' \cap Certs = stored \cap Certs
    <3>1. Moves => UNCHANGED <<version, thumbed, stored>>
      BY DEF Moves, Start, ColumnsDone, QueryIds, NextTable, CreateIndexes, Interrupt, Stop
    <3>2. Alters => UNCHANGED <<version, thumbed, stored>>
      BY DEF Alters, CreateTables, CreateTable, AddColumn, AddSha, DropSerialUnique, UniqueIndex
    <3>3. SplitCRLURLs => version' = version /\ thumbed' = thumbed
      BY DEF SplitCRLURLs
    <3>4. Writes => SplitCRLURLs \/ UNCHANGED <<version, thumbed, stored>>
      BY <2>5 DEF Writes, FillRow, SetTrusted
    <3> QED
      BY <2>4, <3>1, <3>2, <3>3, <3>4, Statements
  <2> QED
    BY <1>1, <1>2, <2>1, <2>2, <2>3, <2>5 DEF ThumbInv
<1>3. pc' \in {"unique certs", "unique crls", "indexes", "open"} => version' = 1
  <2>1. version \in 0..1 /\ version' \in 0..1
    BY TypeStep DEF IndInv, TypeOK
  <2>2. RepairSHA1 /\ pc' = "unique certs" => version' = 1
    <3>1. version >= 1 => version = 1
      BY <2>1
    <3>2. RepairSHA1 /\ pc' = "unique certs" =>
            (version >= 1 /\ version' = version) \/ version' = 1
      BY DEF RepairSHA1
    <3> QED
      BY <3>1, <3>2
  <2>3. version = 1 => version' = 1
    <3>1. Moves => version' = version
      BY DEF Moves, Start, ColumnsDone, QueryIds, NextTable, CreateIndexes, Interrupt, Stop
    <3>2. Alters => version' = version
      BY DEF Alters, CreateTables, CreateTable, AddColumn, AddSha, DropSerialUnique, UniqueIndex
    <3>3. Writes => version' = version \/ version' = 1
      BY DEF Writes, FillRow, SplitCRLURLs, RepairSHA1, SaveCert, SetTrusted
    <3> QED
      BY <3>1, <3>2, <3>3, Statements
  <2>4. RepairSHA1 => pc' \in {"unique certs", "down"}
    BY DEF RepairSHA1
  <2> QED
    BY <1>1, <2>2, <2>3, <2>4, Order DEF ThumbInv
<1> QED
  BY <1>2, <1>3 DEF ThumbInv

LEMMA NextIndInv == IndInv /\ [Next]_vars => IndInv'
<1>1. ASSUME IndInv, Next PROVE IndInv'
  BY <1>1, TypeStep, SchemaStep, HashStep, UrlStep, ThumbStep DEF IndInv
<1>2. ASSUME IndInv, UNCHANGED vars PROVE IndInv'
  <2>1. TypeOK'
    BY <1>2 DEF IndInv, vars, tables, TypeOK
  <2>2. SchemaInv' /\ UrlInv'
    BY <1>2 DEF IndInv, vars, tables, SchemaInv, Has, Passed, UrlInv
  <2>3. HashInv' /\ ThumbInv'
    BY <1>2 DEF IndInv, vars, tables, HashInv, Has, Passed, RowsOf, Unhashed, ThumbInv
  <2> QED
    BY <2>1, <2>2, <2>3 DEF IndInv
<1> QED
  BY <1>1, <1>2

LEMMA Invariance == Spec => []IndInv
BY InitIndInv, NextIndInv, PTL DEF Spec

\* The database and the variables of migrate keep their types.
THEOREM TypeCorrect == Spec => []TypeOK
<1>1. IndInv => TypeOK
  BY DEF IndInv
<1> QED
  BY <1>1, Invariance, PTL

\* Whatever ALTER TABLE failed unnoticed, and wherever migrate was interrupted,
\* a store that opens has every column.
THEOREM Complete == Spec => []SchemaComplete
<1>1. ASSUME IndInv PROVE SchemaComplete
  <2> SUFFICES ASSUME pc = "open"
               PROVE  Full("certs") \subseteq schema /\ \A t \in DerTables : Has(t, "sha256")
    BY DEF SchemaComplete
  <2> QED
    BY <1>1 DEF IndInv, SchemaInv, Passed, Late
<1> QED
  BY <1>1, Invariance, PTL

-----------------------------------------------------------------------------
(***************************************************************************)
(* The refinement of StoreContent.                                         *)
(***************************************************************************)

\* The rows of certs and ocsp_responses are their own DER.
LEMMA Ders ==
  /\ \A r \in Certs \cup Ocsps : DER(r) = r
  /\ \A i \in CrlIds : DER(i) = CrlRow[i].der /\ DER(i) \in Crls
BY KindsAssumption DEF DER, Crls

LEMMA RefinesInit == Init => Content!Init
<1> SUFFICES ASSUME Init PROVE Content!Init
  OBVIOUS
<1>1. TypeOK
  BY InitIndInv DEF IndInv
<1>2. pc # "open" /\ acked = {}
  BY DEF Init
<1>3. RowsOf("certs") \subseteq Certs /\ trusted \subseteq RowsOf("certs")
        /\ RowsOf("ocsp_responses") \subseteq Ocsps
  BY <1>1, RowsAre DEF TypeOK
<1>4. {DER(i) : i \in RowsOf("crls")} \subseteq Crls
  BY RowsAre, Ders
<1>5. UrlMap \subseteq CrlUrls \X {DER(i) : i \in RowsOf("crls")}
  <2>1. \A i \in RowsOf("crls") : CrlRow[i].url \in CrlUrls /\ CrlRow[i].der = DER(i)
    BY RowsAre, Ders DEF CrlUrls
  <2>2. CASE Has("crls", "url")
    BY <2>1, <2>2 DEF UrlMap
  <2>3. CASE ~Has("crls", "url")
    <3>1. UrlMap = {p \in crlUrls : \E i \in RowsOf("crls") : Sha(i) = p[2]}
      BY <2>3 DEF UrlMap
    <3>2. crlUrls \subseteq CrlUrls \X Crls
      BY <1>1 DEF TypeOK
    <3>3. \A i \in RowsOf("crls") : Sha(i) = DER(i)
      BY <2>3, InitIndInv DEF IndInv, HashInv, Sha
    <3> QED
      BY <3>1, <3>2, <3>3
  <2> QED
    BY <2>2, <2>3
<1> QED
  BY <1>2, <1>3, <1>4, <1>5 DEF Content!Init

\* FindFreshCRL finds the same after every statement.
LEMMA UrlMapKept ==
  ASSUME IndInv, Next
  PROVE  UrlMap' = UrlMap
<1>1. CASE SplitCRLURLs /\ Has("crls", "url")
  <2> DEFINE C == RowsOf("crls")
             W == {<<CrlRow[i].url, CrlRow[i].der>> :
                     i \in {j \in C : CrlRow[j].url \notin Uploads}}
  <2>1. /\ pc = "split" /\ crlUrls' = MappedUrls /\ ~Has("crls", "url")'
        /\ stored' = (stored \ CrlIds) \cup NewestPerContent
        /\ hashed' = hashed \cap stored'
    BY <1>1 DEF SplitCRLURLs, Has
  <2>2. UrlMap = W /\ crlUrls' = W
    BY <1>1, <2>1, SplitKeeps DEF UrlMap
  <2>3. /\ NewestPerContent \subseteq C /\ C \subseteq CrlIds /\ C \subseteq hashed
        /\ {DER(i) : i \in NewestPerContent} = {DER(i) : i \in C}
    BY <2>1, SplitKeeps, RowsAre, AllHashed DEF Late
  <2>4. RowsOf("crls")' = NewestPerContent
    BY <2>1, <2>3 DEF RowsOf
  <2>5. \A i \in NewestPerContent : Sha(i)' = DER(i)
    BY <2>1, <2>3 DEF Sha
  <2>6. UrlMap' = {p \in crlUrls' : \E i \in RowsOf("crls")' : Sha(i)' = p[2]}
    BY <2>1 DEF UrlMap
  <2>7. ASSUME NEW p \in W PROVE \E i \in NewestPerContent : Sha(i)' = p[2]
    <3>1. PICK j \in C : p = <<CrlRow[j].url, CrlRow[j].der>>
      OBVIOUS
    <3>2. p[2] = DER(j)
      BY <2>3, <3>1, Ders
    <3>3. PICK i \in NewestPerContent : DER(i) = DER(j)
      BY <2>3
    <3> QED
      BY <2>5, <3>2, <3>3
  <2> HIDE DEF W
  <2> QED
    BY <2>2, <2>4, <2>6, <2>7
<1>2. CASE ~(SplitCRLURLs /\ Has("crls", "url"))
  <2>1. Has("crls", "url")' <=> Has("crls", "url")
    <3>1. DropSerialUnique => (Has("crls", "url")' <=> Has("crls", "url"))
      BY DEF DropSerialUnique, Has
    <3> QED
      BY <1>2, <3>1, SchemaEffect
  <2>2. stored' \cap CrlIds = stored \cap CrlIds /\ hashed \subseteq hashed'
    BY <1>2, RowsEffect, KindsAssumption
  <2>3. RowsOf("crls")' = RowsOf("crls")
    BY <2>2 DEF RowsOf
  <2>4. crlUrls' = crlUrls
    <3> USE DEF tables
    <3>1. Moves => crlUrls' = crlUrls
      BY DEF Moves, Start, ColumnsDone, QueryIds, NextTable, CreateIndexes, Interrupt, Stop
    <3>2. Alters => crlUrls' = crlUrls
      BY DEF Alters, CreateTables, CreateTable, AddColumn, AddSha, DropSerialUnique, UniqueIndex
    <3>3. Writes => crlUrls' = crlUrls
      BY <1>2 DEF Writes, FillRow, RepairSHA1, SaveCert, SetTrusted, SplitCRLURLs
    <3> QED
      BY <3>1, <3>2, <3>3, Statements
  <2>5. CASE Has("crls", "url")
    BY <2>1, <2>3, <2>5 DEF UrlMap
  <2>6. CASE ~Has("crls", "url")
    <3>1. \A i \in RowsOf("crls") : i \in hashed /\ i \in hashed'
      BY <2>2, <2>6 DEF IndInv, HashInv
    <3>2. \A i \in RowsOf("crls") : Sha(i)' = Sha(i)
      BY <3>1 DEF Sha
    <3>3. /\ UrlMap = {p \in crlUrls : \E i \in RowsOf("crls") : Sha(i) = p[2]}
          /\ UrlMap' = {p \in crlUrls' : \E i \in RowsOf("crls")' : Sha(i)' = p[2]}
      BY <2>1, <2>6 DEF UrlMap
    <3> QED
      BY <2>3, <2>4, <3>2, <3>3
  <2> QED
    BY <2>5, <2>6
<1> QED
  BY <1>1, <1>2

\* A statement that neither opens nor closes the store shows nothing.
LEMMA RefinesQuiet ==
  ASSUME IndInv, Next, pc # "open", pc' # "open"
  PROVE  UNCHANGED Content!vars
<1> USE DEF tables
<1>1. UNCHANGED trusted /\ UNCHANGED acked
  <2>1. \A c \in Certs : ~SaveCert(c) /\ \A t \in BOOLEAN : ~SetTrusted(c, t)
    BY DEF SaveCert, SetTrusted
  <2>2. Start \/ Migrate \/ Interrupt \/ Stop => UNCHANGED trusted
    <3>1. Moves => UNCHANGED trusted
      BY DEF Moves, Start, ColumnsDone, QueryIds, NextTable, CreateIndexes, Interrupt, Stop
    <3>2. Alters => UNCHANGED trusted
      BY DEF Alters, CreateTables, CreateTable, AddColumn, AddSha, DropSerialUnique, UniqueIndex
    <3>3. Writes => UNCHANGED trusted
      BY <2>1 DEF Writes, FillRow, SplitCRLURLs, RepairSHA1
    <3> QED
      BY <3>1, <3>2, <3>3, Statements
  <2> QED
    BY <2>1, <2>2 DEF Next
<1>2. /\ RowsOf("certs")' = RowsOf("certs")
      /\ RowsOf("ocsp_responses")' = RowsOf("ocsp_responses")
      /\ {DER(i) : i \in RowsOf("crls")'} = {DER(i) : i \in RowsOf("crls")}
  <2>1. CASE stored' = stored
    BY <2>1 DEF RowsOf
  <2>2. CASE pc = "split" /\ stored' = (stored \ CrlIds) \cup NewestPerContent
    <3>1. /\ NewestPerContent \subseteq stored \cap CrlIds
          /\ {DER(i) : i \in NewestPerContent} = {DER(i) : i \in RowsOf("crls")}
      BY <2>2, SplitKeeps, RowsAre
    <3>2. /\ stored' \cap Certs = stored \cap Certs
          /\ stored' \cap Ocsps = stored \cap Ocsps
          /\ stored' \cap CrlIds = NewestPerContent
      BY <2>2, <3>1, KindsAssumption
    <3>3. /\ RowsOf("certs")' = stored' \cap Certs /\ RowsOf("crls")' = stored' \cap CrlIds
          /\ RowsOf("ocsp_responses")' = stored' \cap Ocsps
      BY DEF RowsOf
    <3> QED
      BY <3>1, <3>2, <3>3, RowsAre
  <2>3. \A c \in Certs : ~SaveCert(c)
    BY DEF SaveCert
  <2> QED
    BY <2>1, <2>2, <2>3, RowsEffect
<1> QED
  BY <1>1, <1>2, UrlMapKept DEF Content!vars

\* When the last index exists the store opens, with everything found by hash.
LEMMA RefinesOpen ==
  ASSUME IndInv, Next, pc # "open", pc' = "open"
  PROVE  Content!Open
<1> USE DEF Goto, tables, Locals
<1>1. CreateIndexes /\ UNCHANGED acked
  <2>1. \A c \in Certs : ~SaveCert(c) /\ \A t \in BOOLEAN : ~SetTrusted(c, t)
    BY DEF SaveCert, SetTrusted
  <2>2. Moves => CreateIndexes
    BY DEF Moves, Start, ColumnsDone, QueryIds, NextTable, Interrupt, Stop
  <2>3. ~Alters
    BY DEF Alters, CreateTables, CreateTable, AddColumn, AddSha, DropSerialUnique, UniqueIndex
  <2>4. ~Writes
    BY <2>1 DEF Writes, FillRow, SplitCRLURLs, RepairSHA1
  <2> QED
    BY <2>1, <2>2, <2>3, <2>4, Statements DEF Next
<1>2. pc = "indexes" /\ UNCHANGED <<stored, hashed, trusted, thumbed>>
  BY <1>1 DEF CreateIndexes
<1>3. \A t : RowsOf(t)' = RowsOf(t)
  BY <1>2 DEF RowsOf
<1>4. hashed = stored
  BY <1>2, AllHashed DEF Late
<1>5. {DER(r) : r \in hashed'} =
        RowsOf("certs") \cup {DER(i) : i \in RowsOf("crls")} \cup RowsOf("ocsp_responses")
  <2>1. hashed' = RowsOf("certs") \cup RowsOf("crls") \cup RowsOf("ocsp_responses")
    BY <1>2, <1>4, RowsAre DEF IndInv, TypeOK, Rows
  <2>2. \A r \in RowsOf("certs") \cup RowsOf("ocsp_responses") : DER(r) = r
    BY RowsAre, Ders
  <2> QED
    BY <2>1, <2>2
<1>6. thumbed' = RowsOf("certs")
  BY <1>2 DEF IndInv, ThumbInv
<1> QED
  BY <1>1, <1>2, <1>3, <1>5, <1>6, UrlMapKept DEF Content!Open

\* The open store: SaveCert keeps what it acknowledges.
LEMMA RefinesUse ==
  ASSUME IndInv, Next, pc = "open"
  PROVE  Content!Next
<1> USE DEF Goto, tables, Locals
<1>1. /\ \A r \in stored : Sha(r) = DER(r)
      /\ hashed = stored
  BY AllHashed DEF Late
<1>2. thumbed = RowsOf("certs") /\ ~Has("certs", "serial UNIQUE")
  BY DEF IndInv, ThumbInv, SchemaInv, Late
<1>3. CASE Stop /\ UNCHANGED acked
  <2>1. pc' = "down" /\ UNCHANGED <<stored, trusted>>
    BY <1>3 DEF Stop
  <2>2. \A t : RowsOf(t)' = RowsOf(t)
    BY <2>1 DEF RowsOf
  <2>3. Content!Close
    BY <1>3, <2>1, <2>2, UrlMapKept DEF Content!Close
  <2> QED
    BY <2>3 DEF Content!Next
<1>4. ASSUME NEW c \in Certs, SaveCert(c) PROVE Content!Next
  <2>1. /\ stored' = stored \cup {c} /\ hashed' = hashed \cup {c}
        /\ thumbed' = thumbed \cup {c}
        /\ pc' = "open" /\ acked' = acked \cup {c} /\ UNCHANGED trusted
    <3>1. CASE \E d \in RowsOf("certs") : Sha(d) = c
      <4>1. PICK d \in RowsOf("certs") : Sha(d) = c
        BY <3>1
      <4>2. c \in stored /\ c \in RowsOf("certs")
        BY <1>1, <4>1, RowsAre, Ders
      <4> QED
        BY <1>1, <1>2, <1>4, <4>2 DEF SaveCert
    <3> QED
      BY <1>2, <1>4, <3>1 DEF SaveCert
  <2>2. /\ RowsOf("certs")' = RowsOf("certs") \cup {c}
        /\ RowsOf("crls")' = RowsOf("crls")
        /\ RowsOf("ocsp_responses")' = RowsOf("ocsp_responses")
    <3>1. c \notin CrlIds /\ c \notin Ocsps
      BY KindsAssumption
    <3> QED
      BY <2>1, <3>1 DEF RowsOf
  <2>3. {DER(r) : r \in hashed'} = {DER(r) : r \in hashed} \cup {c}
    BY <2>1, Ders
  <2>4. Content!SaveCert(c)
    BY <2>1, <2>2, <2>3, UrlMapKept DEF Content!SaveCert
  <2> QED
    BY <2>4 DEF Content!Next
<1>5. ASSUME NEW c \in Certs, NEW t \in BOOLEAN, SetTrusted(c, t), UNCHANGED acked
      PROVE  Content!Next
  <2>1. /\ UNCHANGED <<stored, hashed, thumbed, pc>> /\ c \in stored \cap Certs
        /\ trusted' = IF t THEN trusted \cup {c} ELSE trusted \ {c}
    BY <1>5 DEF SetTrusted
  <2>2. \A u : RowsOf(u)' = RowsOf(u)
    BY <2>1 DEF RowsOf
  <2>3. Content!SetTrusted(c, t)
    BY <1>5, <2>1, <2>2, UrlMapKept, RowsAre DEF Content!SetTrusted
  <2> QED
    BY <2>3 DEF Content!Next
<1>6. ~Start /\ ~Interrupt /\ ~Migrate
  BY DEF Start, Interrupt, Steps, Migrate, CreateTables, CreateTable, AddColumn, ColumnsDone,
         AddSha, QueryIds, FillRow, NextTable, DropSerialUnique, SplitCRLURLs, RepairSHA1,
         UniqueIndex, CreateIndexes
<1> QED
  BY <1>3, <1>4, <1>5, <1>6 DEF Next

\* Interrupted and repeated migrations are invisible: the store with its schema
\* and its statements implements the store that merely keeps what it was given.
THEOREM Refinement == Spec => Preserved
<1>1. ASSUME IndInv, [Next]_vars PROVE [Content!Next]_(Content!vars)
  <2>1. CASE UNCHANGED vars
    <3>1. UNCHANGED Content!vars
      BY <2>1 DEF vars, tables, Content!vars, RowsOf, UrlMap, Has, Sha
    <3> QED
      BY <3>1
  <2>2. CASE Next
    BY <1>1, <2>2, RefinesQuiet, RefinesOpen, RefinesUse DEF Content!Next
  <2> QED
    BY <1>1, <2>1, <2>2
<1> QED
  BY <1>1, RefinesInit, Invariance, PTL DEF Spec, Preserved, Content!Spec

=============================================================================
