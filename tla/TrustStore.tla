----------------------------- MODULE TrustStore -----------------------------
(***************************************************************************)
(* The trust decisions kept in the certs table of internal/store: the      *)
(* bundle import that every start of certview runs before it listens       *)
(* (internal/trustbundle), the administrator's toggle, and the two ways an *)
(* analysis writes certificates (archive, trustedPath).                    *)
(*                                                                         *)
(* One SQL statement is one action, and the process may die between any    *)
(* two.  A start may run another version of the program, with other        *)
(* bundles; Bundle[v][s] holds what version v parses of bundle s.          *)
(***************************************************************************)
EXTENDS Naturals

CONSTANTS Certs,
          Roots,      \* the self-signed ones
          Versions,
          Bundle,     \* [Versions -> [Sources -> SUBSET Certs]]
          Paths,      \* what pki.Verify accepts: [anchor, cas]
          None        \* no certificate

Sources == {"mozilla", "ru-gov"}

ASSUME RootsAssumption == Roots \subseteq Certs
ASSUME BundleAssumption == Bundle \in [Versions -> [Sources -> SUBSET Certs]]
ASSUME PathsAssumption == Paths \subseteq [anchor : Roots, cas : SUBSET Certs]
ASSUME NoneAssumption == None \notin Certs
\* No certificate is in both bundles of a version.
ASSUME DisjointAssumption ==
  \A v \in Versions : Bundle[v]["mozilla"] \cap Bundle[v]["ru-gov"] = {}

VARIABLES row,        \* the certs table
          phase,      \* of the process: down, importing its bundles, up
          version,    \* of the running (or last run) program
          source,     \* the bundle importBundle is at
          left,       \* the certificates it has not imported yet
          marked,     \* the one ImportTrustedCert has set pool for
          verified,   \* CAs that trustedPath has verified and will save
          failed,     \* certificates a failed import statement concerned
          firm,       \* untrusts of bundled roots that hold for certain
          loose,      \* untrusts of bundled roots that may still hold
          allowed,    \* certificates the administrator trusts
          recent      \* certificates that have been trusted since the last time
                      \* no save of a verified path was pending

vars == <<row, phase, version, source, left, marked, verified,
          failed, firm, loose, allowed, recent>>
history == <<failed, firm, loose, allowed>>
import == <<version, source, left, marked>>

\* A row's source_url, as far as the import tells values apart.
Row == [stored : BOOLEAN, trusted : BOOLEAN, pool : BOOLEAN,
        src : Sources \cup {"removed", "other"}]

Absent == [stored |-> FALSE, trusted |-> FALSE, pool |-> FALSE, src |-> "other"]

TypeOK ==
  /\ row \in [Certs -> Row]
  /\ \A c \in Certs : row[c].stored \/ row[c] = Absent
  /\ phase \in {"down", "import", "up"}
  /\ version \in Versions
  /\ source \in Sources
  /\ left \subseteq Certs
  /\ marked \in (left \cap Roots) \cup {None}
  /\ verified \subseteq Certs
  /\ failed \subseteq Certs
  /\ firm \subseteq Sources \X Certs
  /\ loose \subseteq Sources \X Certs
  /\ allowed \subseteq Certs
  /\ recent \subseteq Certs

Init ==
  /\ row = [c \in Certs |-> Absent]
  /\ phase = "down"
  /\ version \in Versions
  /\ source = "mozilla"
  /\ left = {}
  /\ marked = None
  /\ verified = {}
  /\ failed = {} /\ firm = {} /\ loose = {} /\ allowed = {} /\ recent = {}

\* The roots importBundle parses of a bundle: its variable roots at the end.
Kept(v, s) == Bundle[v][s] \cap Roots

-----------------------------------------------------------------------------
(***************************************************************************)
(* ImportDefaults.  An operator named Bug... is a plausible defect of the  *)
(* definition that follows it, used only as its mutant.                    *)
(***************************************************************************)

\* The untrusts of d that version v neither drops nor moves from their bundle.
Standing(d, v) ==
  {p \in d : \/ p[2] \in Bundle[v][p[1]]
             \/ Kept(v, p[1]) = {} /\ \A s \in Sources : p[2] \notin Bundle[v][s]}

Start(v) ==
  /\ phase = "down"
  /\ phase' = "import"
  /\ version' = v
  /\ source' = "mozilla"
  /\ left' = Bundle[v]["mozilla"]
  /\ marked' = None
  /\ failed' = {}
  /\ firm' = Standing(firm, v)
  /\ UNCHANGED <<row, verified, loose, allowed>>

BugMarkedRow(r) == [r EXCEPT !.pool = TRUE]

\* ImportTrustedCert, first statement: UPDATE of a row that may not exist.
MarkedRow(r) == IF r.stored THEN [r EXCEPT !.pool = TRUE] ELSE r

MarkPool(c) ==
  /\ phase = "import" /\ marked = None
  /\ c \in left \cap Roots
  /\ row' = [row EXCEPT ![c] = MarkedRow(@)]
  /\ marked' = c
  /\ UNCHANGED <<phase, version, source, left, verified, history>>

\* ImportTrustedCert, second statement: the row after its upsert.
TrustedRow(r, s) ==
  IF r.stored /\ r.src = s THEN r
  ELSE [stored |-> TRUE, trusted |-> TRUE, pool |-> ~r.stored \/ r.pool, src |-> s]

ImportTrustedCert(c) ==
  /\ phase = "import" /\ marked = c
  /\ row' = [row EXCEPT ![c] = TrustedRow(@, source)]
  /\ left' = left \ {c}
  /\ marked' = None
  /\ UNCHANGED <<phase, version, source, verified, history>>

\* SavePoolCert: the row after its upsert.
PoolRow(r, s) ==
  [r EXCEPT !.stored = TRUE, !.pool = TRUE, !.src = IF r.stored THEN @ ELSE s]

ImportIntermediate(c) ==
  /\ phase = "import"
  /\ c \in left \ Roots
  /\ row' = [row EXCEPT ![c] = PoolRow(@, source)]
  /\ left' = left \ {c}
  /\ UNCHANGED <<phase, version, source, marked, verified, history>>

\* A statement fails: it is logged and the loop continues.
ImportFails(c) ==
  /\ phase = "import"
  /\ c \in left /\ marked \in {c, None}
  /\ left' = left \ {c}
  /\ marked' = None
  /\ failed' = failed \cup {c}
  /\ UNCHANGED <<row, phase, version, source, verified, firm, loose, allowed>>

\* importBundle returns, with the import of f failed; after the last bundle the
\* listeners are started.
BundleDone(f) ==
  /\ failed' = f
  /\ \/ /\ source = "mozilla"
        /\ source' = "ru-gov"
        /\ left' = Bundle[version]["ru-gov"]
        /\ UNCHANGED <<phase, loose>>
     \/ /\ source = "ru-gov"
        /\ phase' = "up"
        /\ loose' = Standing(loose, version) \cup {p \in loose : p[2] \in f}
        /\ UNCHANGED <<source, left>>

\* The rows WithdrawBundleRoots updates.
Dropped(s) == {c \in Roots : row[c].stored /\ row[c].src = s /\ c \notin Kept(version, s)}

BugWithdrawnRow(r) == [r EXCEPT !.trusted = FALSE]

WithdrawnRow(r) == [r EXCEPT !.trusted = FALSE, !.src = "removed"]

BugSomeRoots(s) == TRUE

SomeRoots(s) == Kept(version, s) # {}

WithdrawBundleRoots ==
  /\ phase = "import" /\ left = {}
  /\ SomeRoots(source)
  /\ row' = [c \in Certs |-> IF c \in Dropped(source) THEN WithdrawnRow(row[c]) ELSE row[c]]
  /\ BundleDone(failed)
  /\ UNCHANGED <<version, marked, verified, firm, allowed>>

WithdrawFails ==
  /\ phase = "import" /\ left = {}
  /\ SomeRoots(source)
  /\ BundleDone(failed \cup Dropped(source))
  /\ UNCHANGED <<row, version, marked, verified, firm, allowed>>

NoRootsParsed ==
  /\ phase = "import" /\ left = {}
  /\ ~SomeRoots(source)
  /\ BundleDone(failed)
  /\ UNCHANGED <<row, version, marked, verified, firm, allowed>>

\* The process ends, between any two statements; the table is durable.
Crash ==
  /\ phase # "down"
  /\ phase' = "down"
  /\ left' = {}
  /\ marked' = None
  /\ verified' = {}
  /\ UNCHANGED <<row, version, source, history>>

-----------------------------------------------------------------------------
(***************************************************************************)
(* toggleTrust and the writes of an analysis                               *)
(***************************************************************************)

BugSavedRow(r) == [stored |-> TRUE, trusted |-> r.trusted, pool |-> r.pool, src |-> "other"]

\* SaveCert: INSERT OR IGNORE, with a source that is no bundle's.
SavedRow(r) == IF r.stored THEN r ELSE [Absent EXCEPT !.stored = TRUE]

SaveCert(c) ==
  /\ phase = "up"
  /\ row' = [row EXCEPT ![c] = SavedRow(@)]
  /\ UNCHANGED <<phase, verified, import, history>>

\* toggleTrust(true).  With der the certificate is stored first: a state
\* between the two statements is one that SaveCert leaves.
Trust(c, der) ==
  /\ phase = "up"
  /\ der \/ row[c].stored
  /\ row' = [row EXCEPT ![c] = [SavedRow(@) EXCEPT !.trusted = TRUE]]
  /\ allowed' = allowed \cup {c}
  /\ firm' = {p \in firm : p[2] # c}
  /\ loose' = {p \in loose : p[2] # c}
  /\ UNCHANGED <<phase, verified, failed, import>>

\* toggleTrust(false).
Untrust(c) ==
  LET In(s) == c \in Bundle[version][s] IN
  /\ phase = "up"
  /\ row[c].stored
  /\ row' = [row EXCEPT ![c].trusted = FALSE]
  /\ allowed' = allowed \ {c}
  /\ firm' = firm \cup {<<s, c>> : s \in {t \in Sources : In(t) /\ c \notin failed}}
  /\ loose' = loose \cup {<<s, c>> : s \in {t \in Sources :
                           In(t) \/ Kept(version, t) = {} \/ c \in failed}}
  /\ UNCHANGED <<phase, verified, failed, import>>

BugAnchors == {c \in Roots : row[c].stored}

\* The roots trustedPath takes as anchors.
Anchors == {c \in Roots : row[c].trusted}

\* Only non-transient CAs of the path, any set of them, will be saved.
TrustedPath(p) ==
  /\ phase = "up"
  /\ p.anchor \in Anchors
  /\ \E cas \in SUBSET p.cas : verified' = verified \cup cas
  /\ UNCHANGED <<row, phase, import, history>>

SavePoolCert(c) ==
  /\ phase = "up"
  /\ c \in verified
  /\ row' = [row EXCEPT ![c] = PoolRow(@, "other")]
  /\ verified' = verified \ {c}
  /\ UNCHANGED <<phase, import, history>>

SaveFails(c) ==
  /\ phase = "up"
  /\ c \in verified
  /\ verified' = verified \ {c}
  /\ UNCHANGED <<row, phase, import, history>>

\* Who has been trusted while a save is pending.
Trusted == {c \in Certs : row[c].trusted}

TrackTrust == recent' = IF verified' = {} THEN Trusted' ELSE recent \cup Trusted'

Step ==
  \/ \E v \in Versions : Start(v)
  \/ \E c \in Certs :
       \/ MarkPool(c) \/ ImportTrustedCert(c) \/ ImportIntermediate(c) \/ ImportFails(c)
       \/ SaveCert(c) \/ Untrust(c) \/ SavePoolCert(c) \/ SaveFails(c)
       \/ \E der \in BOOLEAN : Trust(c, der)
  \/ WithdrawBundleRoots \/ WithdrawFails \/ NoRootsParsed \/ Crash
  \/ \E p \in Paths : TrustedPath(p)

Next == Step /\ TrackTrust

Spec == Init /\ [][Next]_vars

-----------------------------------------------------------------------------
(***************************************************************************)
(* Properties                                                              *)
(***************************************************************************)

\* "an admin's untrust of a bundled root survives restarts" (trustbundle.go):
\* whatever crashes, failed statements and upgrades come between, as long as
\* the root stays in its bundle.
UntrustSurvives == \A p \in firm : ~row[p[2]].trusted

\* "roots dropped from a bundle lose trust": once the listeners are up, only
\* the administrator or the running version's bundles make a certificate
\* trusted.  A bundle that parsed no root at all withdraws none.
TrustJustified ==
  phase = "up" =>
    \A c \in Certs \ (failed \cup allowed) :
      row[c].trusted =>
        \E s \in Sources : \/ c \in Kept(version, s)
                           \/ /\ Kept(version, s) = {}
                              /\ \E v \in Versions : c \in Kept(v, s)

\* Every root of the running version's bundles is trusted, the ones seen
\* before only by upload and the ones that returned to their bundle included,
\* unless the administrator untrusted it there.
BundledTrusted ==
  phase = "up" =>
    \A s \in Sources : \A c \in Kept(version, s) \ failed :
      row[c].trusted \/ <<s, c>> \in loose

\* The pool that FindIssuers prefers takes in what the running bundles bring and
\* what was verified up to a root: being uploaded, or sent by a site, is never
\* enough.  An untrust of the root stops at once every save but those that were
\* pending when it came, which trustedPath makes without asking again.
PoolJustified ==
  [][\A c \in Certs :
       row'[c].pool /\ ~row[c].pool =>
         \/ phase = "import" /\ c \in Bundle[version][source]
         \/ phase = "up" /\ \E p \in Paths : c \in p.cas /\ p.anchor \in recent]_vars
=============================================================================
