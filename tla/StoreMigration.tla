--------------------------- MODULE StoreMigration ---------------------------
(***************************************************************************)
(* store.Open on a database that an earlier version may have written: the  *)
(* statements of migrate in their order, each of which may fail or be the  *)
(* last one before the process dies.  main exits when Open fails, and the  *)
(* container starts it again.                                              *)
(*                                                                         *)
(* A row of certs or ocsp_responses is named by its DER, as no table holds *)
(* a DER twice there; a row of crls by its id, and CrlRow gives its url    *)
(* and DER.  SHA-256 is taken to be injective, so a hash is named by what  *)
(* it is the hash of.  schema is a set of pairs: tables, columns, indexes. *)
(***************************************************************************)
EXTENDS Integers

CONSTANTS Certs, Ocsps,  \* DERs
          CrlRow,        \* [ids of crls -> [url, der]]
          MaxId,         \* the largest rowid (2^63 - 1)
          Uploads,       \* urls of the form upload://...
          Serial,        \* [Certs -> serial numbers]
          None,          \* sha256 = ''
          MaxFaults      \* bound: failures and crashes during migrations

CrlIds == DOMAIN CrlRow
Crls == {CrlRow[i].der : i \in CrlIds}
CrlUrls == {CrlRow[i].url : i \in CrlIds}
Rows == Certs \cup CrlIds \cup Ocsps

ASSUME IdsAssumption == MaxId \in Nat /\ CrlIds \subseteq 1..MaxId
ASSUME KindsAssumption == /\ Certs \cap CrlIds = {} /\ Ocsps \cap CrlIds = {}
                          /\ Certs \cap Ocsps = {}
ASSUME HashAssumption == None \notin Certs \cup Crls \cup Ocsps
ASSUME FaultsAssumption == MaxFaults \in Nat

VARIABLES schema,    \* what exists
          stored,    \* rows of the three tables with a der
          hashed,    \* those whose sha256 is set
          trusted,   \* certs with trusted = 1
          thumbed,   \* certs whose thumbprint_sha1 is their own
          crlUrls,   \* table crl_urls: <<url, sha256>>
          version,   \* PRAGMA user_version
          pc,        \* the statement of migrate that is next; down; open
          table,     \* t of the loop over derTables
          column,    \* the column of certs that is next to be added
          ids,       \* the rows backfillSHA256 has still to update
          faults,
          acked      \* the certificates SaveCert has reported saved

tables == <<schema, stored, hashed, trusted, thumbed, crlUrls, version>>
vars == <<tables, pc, table, column, ids, faults, acked>>

Steps == {"certs", "crls", "rest", "columns", "sha", "ids", "fill", "serial", "split",
          "repair", "unique certs", "unique crls", "indexes"}

ColumnOrder == <<"ski", "aki", "subject_name_der", "trusted", "thumbprint_sha1", "pool">>
CertColumns == {ColumnOrder[i] : i \in 1..6}
Has(t, x) == <<t, x>> \in schema
Full(t) == {<<t, x>> : x \in CertColumns \cup {"table", "sha256"}}

DerTables == {"certs", "crls", "ocsp_responses"}
RowsOf(t) == stored \cap (CASE t = "certs" -> Certs [] t = "crls" -> CrlIds [] OTHER -> Ocsps)
DER(r) == IF r \in CrlIds THEN CrlRow[r].der ELSE r
Sha(r) == IF r \in hashed THEN DER(r) ELSE None

TypeOK ==
  /\ schema \subseteq Full("certs") \cup
       {<<"certs", "serial UNIQUE">>, <<"crls", "table">>, <<"crls", "url">>, <<"crls", "sha256">>,
        <<"rest", "table">>, <<"ocsp_responses", "sha256">>,
        <<"certs", "index">>, <<"crls", "index">>}
  /\ stored \subseteq Rows
  /\ hashed \subseteq stored
  /\ trusted \subseteq stored \cap Certs
  /\ thumbed \subseteq stored \cap Certs
  /\ crlUrls \subseteq CrlUrls \X Crls
  /\ version \in 0..1
  /\ pc \in Steps \cup {"down", "open"}
  /\ table \in DerTables
  /\ column \in 1..7
  /\ ids \subseteq stored
  /\ faults \in 0..MaxFaults
  /\ acked \subseteq Certs

-----------------------------------------------------------------------------
(***************************************************************************)
(* What the earlier versions wrote: nothing; certificates kept unique by   *)
(* serial and CRLs by url; the same with the later columns filled, some    *)
(* thumbprints being another certificate's; the present schema.            *)
(***************************************************************************)

Keyed == {<<"certs", "table">>, <<"certs", "serial UNIQUE">>,
          <<"crls", "table">>, <<"crls", "url">>}
Extended == Keyed \cup Full("certs") \cup
            {<<"crls", "sha256">>, <<"rest", "table">>, <<"ocsp_responses", "sha256">>}

SerialsDiffer(S) == \A c, d \in S : c # d => Serial[c] # Serial[d]
UrlsDiffer(S) == \A i, j \in S : i # j => CrlRow[i].url # CrlRow[j].url
DersDiffer(S) == \A i, j \in S : i # j => CrlRow[i].der # CrlRow[j].der

InitKeyed ==
  /\ \/ schema = Keyed /\ hashed = {} /\ trusted = {} /\ thumbed = {}
        /\ stored \cap Ocsps = {}
     \/ schema = Extended /\ hashed = stored
        /\ trusted \in SUBSET (stored \cap Certs) /\ thumbed \in SUBSET (stored \cap Certs)
  /\ SerialsDiffer(stored \cap Certs)
  /\ UrlsDiffer(stored \cap CrlIds)
  /\ crlUrls = {}
  /\ version = 0

InitPresent ==
  /\ schema = (Extended \cup {<<"certs", "index">>, <<"crls", "index">>})
                \ {<<"certs", "serial UNIQUE">>, <<"crls", "url">>}
  /\ hashed = stored
  /\ trusted \in SUBSET (stored \cap Certs)
  /\ thumbed = stored \cap Certs
  /\ DersDiffer(stored \cap CrlIds)
  /\ crlUrls \in SUBSET ((CrlUrls \ Uploads) \X Crls)
  /\ \A p, q \in crlUrls : p[1] = q[1] => p = q
  /\ version = 1

InitFresh ==
  /\ schema = {} /\ stored = {} /\ hashed = {} /\ trusted = {} /\ thumbed = {}
  /\ crlUrls = {} /\ version = 0

Init ==
  /\ stored \in SUBSET Rows
  /\ InitKeyed \/ InitPresent \/ InitFresh
  /\ pc = "down" /\ table = "certs" /\ column = 1 /\ ids = {} /\ faults = 0 /\ acked = {}

-----------------------------------------------------------------------------
(***************************************************************************)
(* migrate.  An operator named Bug... is a plausible defect of the         *)
(* definition that follows it, used only as its mutant.                    *)
(***************************************************************************)

Goto(l) == pc' = l
Locals == <<table, column, ids, faults>>

Start ==
  /\ pc = "down"
  /\ Goto("certs")
  /\ UNCHANGED <<tables, Locals>>

\* CREATE TABLE IF NOT EXISTS, three times.
CreateTable(step, t, made, next) ==
  /\ pc = step
  /\ schema' = IF Has(t, "table") THEN schema ELSE schema \cup made
  /\ Goto(next)
  /\ UNCHANGED <<stored, hashed, trusted, thumbed, crlUrls, version, table, ids, faults>>

CreateTables ==
  \/ CreateTable("certs", "certs", Full("certs"), "crls") /\ UNCHANGED column
  \/ CreateTable("crls", "crls", {<<"crls", "table">>, <<"crls", "sha256">>}, "rest")
     /\ UNCHANGED column
  \/ CreateTable("rest", "rest", {<<"rest", "table">>}, "columns") /\ column' = 1

\* One ALTER TABLE certs ADD COLUMN: its error is ignored, be it that the column
\* is there already or another.
AddColumn ==
  /\ pc = "columns" /\ column <= 6
  /\ column' = column + 1
  /\ \/ schema' = schema \cup {<<"certs", ColumnOrder[column]>>} /\ UNCHANGED faults
     \/ faults < MaxFaults /\ faults' = faults + 1 /\ UNCHANGED schema
  /\ UNCHANGED <<stored, hashed, trusted, thumbed, crlUrls, version, pc, table, ids>>

ColumnsDone ==
  /\ pc = "columns" /\ column = 7
  /\ Goto("sha") /\ table' = "certs"
  /\ UNCHANGED <<tables, column, ids, faults>>

\* The loop over derTables: ADD COLUMN sha256, again with its error ignored,
AddSha ==
  /\ pc = "sha"
  /\ \/ schema' = schema \cup {<<table, "sha256">>} /\ UNCHANGED faults
     \/ faults < MaxFaults /\ faults' = faults + 1 /\ UNCHANGED schema
  /\ Goto("ids")
  /\ UNCHANGED <<stored, hashed, trusted, thumbed, crlUrls, version, table, column, ids>>

BugUnhashed(t) == IF t = "crls" THEN {} ELSE RowsOf(t) \ hashed

\* The ids of the rows WHERE sha256 = ''.
Unhashed(t) == RowsOf(t) \ hashed

\* the query for the rows without it,
QueryIds ==
  /\ pc = "ids"
  /\ IF Has(table, "sha256")
     THEN Goto("fill") /\ ids' = Unhashed(table)
     ELSE Goto("down") /\ UNCHANGED ids
  /\ UNCHANGED <<tables, table, column, faults>>

\* and one UPDATE per row.
FillRow(r) ==
  /\ pc = "fill" /\ r \in ids
  /\ hashed' = hashed \cup {r}
  /\ ids' = ids \ {r}
  /\ UNCHANGED <<schema, stored, trusted, thumbed, crlUrls, version, pc, table, column, faults>>

NextTable ==
  /\ pc = "fill" /\ ids = {}
  /\ IF table = "ocsp_responses"
     THEN Goto("serial") /\ UNCHANGED table
     ELSE Goto("sha") /\ table' = IF table = "certs" THEN "crls" ELSE "ocsp_responses"
  /\ UNCHANGED <<tables, column, ids, faults>>

BugSerialKept == TRUE

SerialKept == ~Has("certs", "serial UNIQUE")

\* The transaction copies every column, so each must be there.
DropSerialUnique ==
  /\ pc = "serial"
  /\ \/ /\ SerialKept
        /\ Goto("split") /\ UNCHANGED schema
     \/ /\ ~SerialKept /\ Full("certs") \subseteq schema
        /\ schema' = schema \ {<<"certs", "serial UNIQUE">>, <<"certs", "index">>}
        /\ Goto("split")
     \/ /\ ~SerialKept /\ ~(Full("certs") \subseteq schema)
        /\ Goto("down") /\ UNCHANGED schema
  /\ UNCHANGED <<stored, hashed, trusted, thumbed, crlUrls, version, Locals>>

BugNewestPerContent == RowsOf("crls")

\* SELECT max(id) FROM crls GROUP BY sha256
NewestPerContent ==
  {i \in RowsOf("crls") : \A j \in RowsOf("crls") : Sha(j) = Sha(i) => j <= i}

\* INSERT OR REPLACE INTO crl_urls of the urls that are no uploads.
MappedUrls ==
  LET new == {<<CrlRow[i].url, Sha(i)>> : i \in {j \in RowsOf("crls") : CrlRow[j].url \notin Uploads}}
  IN  new \cup {p \in crlUrls : \A q \in new : q[1] # p[1]}

SplitCRLURLs ==
  /\ pc = "split"
  /\ Goto("repair")
  /\ \/ /\ ~Has("crls", "url")
        /\ UNCHANGED <<schema, stored, hashed, crlUrls>>
     \/ /\ Has("crls", "url")
        /\ crlUrls' = MappedUrls
        /\ stored' = (stored \ CrlIds) \cup NewestPerContent
        /\ hashed' = hashed \cap stored'
        /\ schema' = schema \ {<<"crls", "url">>, <<"crls", "index">>}
  /\ UNCHANGED <<trusted, thumbed, version, Locals>>

\* The updates and user_version = 1 are one transaction.
RepairSHA1 ==
  /\ pc = "repair"
  /\ \/ /\ version >= 1
        /\ Goto("unique certs") /\ UNCHANGED <<thumbed, version>>
     \/ /\ version = 0 /\ (RowsOf("certs") = {} \/ Has("certs", "thumbprint_sha1"))
        /\ thumbed' = RowsOf("certs") /\ version' = 1
        /\ Goto("unique certs")
     \/ /\ version = 0 /\ RowsOf("certs") # {} /\ ~Has("certs", "thumbprint_sha1")
        /\ Goto("down") /\ UNCHANGED <<thumbed, version>>
  /\ UNCHANGED <<schema, stored, hashed, trusted, crlUrls, Locals>>

\* CREATE UNIQUE INDEX IF NOT EXISTS idx_<t>_sha256: refused by two equal hashes.
UniqueIndex(step, t, next) ==
  /\ pc = step
  /\ IF Has(t, "index") \/ \A r, s \in RowsOf(t) : r # s => Sha(r) # Sha(s)
     THEN schema' = schema \cup {<<t, "index">>} /\ Goto(next)
     ELSE Goto("down") /\ UNCHANGED schema
  /\ UNCHANGED <<stored, hashed, trusted, thumbed, crlUrls, version, Locals>>

\* The columns of certs the other indexes name.
Indexed == {"subject_name_der", "ski", "thumbprint_sha1", "trusted", "pool"}

CreateIndexes ==
  /\ pc = "indexes"
  /\ Goto(IF \A x \in Indexed : Has("certs", x) THEN "open" ELSE "down")
  /\ UNCHANGED <<tables, Locals>>

Migrate ==
  \/ CreateTables \/ AddColumn \/ ColumnsDone
  \/ AddSha \/ QueryIds \/ (\E r \in Rows : FillRow(r)) \/ NextTable
  \/ DropSerialUnique \/ SplitCRLURLs \/ RepairSHA1
  \/ UniqueIndex("unique certs", "certs", "unique crls")
  \/ UniqueIndex("unique crls", "crls", "indexes") \/ CreateIndexes

\* A statement whose error is returned fails, or the process dies before or
\* after any statement: what was not committed is rolled back.
Interrupt ==
  /\ pc \in Steps
  /\ faults < MaxFaults
  /\ faults' = faults + 1
  /\ Goto("down")
  /\ UNCHANGED <<tables, table, column, ids>>

-----------------------------------------------------------------------------
(***************************************************************************)
(* The open store: the two writes that tell the schemas apart.             *)
(***************************************************************************)

\* INSERT OR IGNORE.
SaveCert(c) ==
  /\ pc = "open"
  /\ IF \/ \E d \in RowsOf("certs") : Has("certs", "index") /\ Sha(d) = c
        \/ \E d \in RowsOf("certs") : Has("certs", "serial UNIQUE") /\ Serial[d] = Serial[c]
     THEN UNCHANGED <<stored, hashed, thumbed>>
     ELSE /\ stored' = stored \cup {c}
          /\ hashed' = hashed \cup {c}
          /\ thumbed' = thumbed \cup {c}
  /\ acked' = acked \cup {c}
  /\ UNCHANGED <<schema, trusted, crlUrls, version, pc, Locals>>

SetTrusted(c, t) ==
  /\ pc = "open" /\ c \in stored \cap Certs
  /\ trusted' = IF t THEN trusted \cup {c} ELSE trusted \ {c}
  /\ UNCHANGED <<schema, stored, hashed, thumbed, crlUrls, version, pc, Locals>>

\* The process ends: stopped, crashed or upgraded.
Stop ==
  /\ pc = "open"
  /\ Goto("down")
  /\ UNCHANGED <<tables, Locals>>

Next ==
  \/ (Start \/ Migrate \/ Interrupt \/ Stop) /\ UNCHANGED acked
  \/ \E c \in Certs :
       SaveCert(c) \/ \E t \in BOOLEAN : SetTrusted(c, t) /\ UNCHANGED acked

Spec == Init /\ [][Next]_vars

\* Statements that run end, and the container starts the process again.
FairSpec == Spec /\ WF_vars(Start /\ UNCHANGED acked) /\ WF_vars(Migrate /\ UNCHANGED acked)

-----------------------------------------------------------------------------
(***************************************************************************)
(* Properties                                                              *)
(***************************************************************************)

\* What FindFreshCRL finds at the urls: by the url column, later by the join of
\* crl_urls and crls.
UrlMap ==
  IF Has("crls", "url")
  THEN {<<CrlRow[i].url, CrlRow[i].der>> :
          i \in {j \in RowsOf("crls") : CrlRow[j].url \notin Uploads}}
  ELSE {p \in crlUrls : \E i \in RowsOf("crls") : Sha(i) = p[2]}

Content == INSTANCE StoreContent
  WITH Urls <- CrlUrls, open <- pc = "open",
       certs <- RowsOf("certs"), crls <- {DER(i) : i \in RowsOf("crls")},
       ocsps <- RowsOf("ocsp_responses"), urls <- UrlMap,
       bySHA256 <- IF pc = "open" THEN {DER(r) : r \in hashed} ELSE {},
       bySHA1 <- IF pc = "open" THEN thumbed ELSE {}

\* Migrations, interrupted anywhere and started again, are invisible in what
\* the store holds: no certificate, trust decision, CRL or OCSP response is
\* lost, each url keeps its CRL, and an open store finds everything by hash.
Preserved == Content!Spec

\* An ALTER TABLE whose error was ignored never leads to an open store that
\* lacks the column: a later statement of migrate names it and is refused.
SchemaComplete ==
  pc = "open" => /\ Full("certs") \subseteq schema
                 /\ \A t \in DerTables : Has(t, "sha256")

\* No database makes every start fail: once interruptions end, the store opens.
StartSucceeds == (pc # "open") ~> (pc = "open")
=============================================================================
