----------------------------- MODULE RespCache -----------------------------
(***************************************************************************)
(* respCache of cmd/certview/respcache.go together with the trust toggle   *)
(* of the admin handler (toggleTrust), which changes what an analysis      *)
(* computes and then purges the caches of its listener.                    *)
(*                                                                         *)
(* What a response says is abstracted to the trust epoch its computation   *)
(* read: the number of SetTrusted calls before it.  Sections under c.mu    *)
(* are single actions; a request standing at                               *)
(*   wait      has looked up its entry and wants the entry's gate,         *)
(*   hold      owns the gate and is about to look at the cached response,  *)
(*   compute   runs compute(), with a gate or (entry = None) uncached,     *)
(*   computed  has read the trust state and will store its response.       *)
(* cleanupLoop treats every entry on its own, so one entry is one action.  *)
(***************************************************************************)
EXTENDS Integers, FiniteSets

CONSTANTS Requests,      \* goroutines inside get
          Admins,        \* goroutines inside toggleTrust
          Keys,
          Entries,       \* respCacheEntry identities; bounds the live ones
          None,          \* no entry, no key
          RespCacheMax,  \* respCacheMax
          MaxEpoch       \* bound: trust changes

ASSUME RespCacheMaxAssumption == RespCacheMax \in Nat
ASSUME MaxEpochAssumption == MaxEpoch \in Nat
ASSUME NoneAssumption == None \notin Entries \cup Keys

NoResp == -1
Epochs == 0..MaxEpoch

VARIABLES entries,    \* c.entries
          entry,      \* the entry objects: gate, resp, not yet expired
          pc, key, my, val,   \* of each request
          ret,        \* the response its last get returned
          since,      \* the toggles completed when its get began (history)
          epoch,      \* trust changes made in the store
          toggle,     \* the epoch an admin has set and not yet purged for
          completed   \* the latest epoch whose toggle has returned (history)

vars == <<entries, entry, pc, key, my, val, ret, since, epoch, toggle, completed>>

Entry == [gate : BOOLEAN, resp : Epochs \cup {NoResp}, fresh : BOOLEAN]

NewEntry == [gate |-> FALSE, resp |-> NoResp, fresh |-> FALSE]

TypeOK ==
  /\ entries \in [Keys -> Entries \cup {None}]
  /\ entry \in [Entries -> Entry]
  /\ pc \in [Requests -> {"idle", "wait", "hold", "compute", "computed"}]
  /\ key \in [Requests -> Keys \cup {None}]
  /\ my \in [Requests -> Entries \cup {None}]
  /\ \A r \in Requests : pc[r] \in {"wait", "hold"} => my[r] # None
  /\ val \in [Requests -> Epochs \cup {NoResp}]
  /\ ret \in [Requests -> Epochs \cup {NoResp}]
  /\ since \in [Requests -> Epochs]
  /\ epoch \in Epochs
  /\ toggle \in [Admins -> Epochs]
  /\ completed \in Epochs

Init ==
  /\ entries = [k \in Keys |-> None]
  /\ entry = [e \in Entries |-> NewEntry]
  /\ pc = [r \in Requests |-> "idle"]
  /\ key = [r \in Requests |-> None]
  /\ my = [r \in Requests |-> None]
  /\ val = [r \in Requests |-> NoResp]
  /\ ret = [r \in Requests |-> NoResp]
  /\ since = [r \in Requests |-> 0]
  /\ epoch = 0
  /\ toggle = [t \in Admins |-> 0]
  /\ completed = 0

Listed == {k \in Keys : entries[k] # None}
Unused(e) == (\A k \in Keys : entries[k] # e) /\ (\A r \in Requests : my[r] # e)

-----------------------------------------------------------------------------
(***************************************************************************)
(* get.  An operator named Bug... is a plausible defect of the definition  *)
(* that follows it, used only as its mutant.                               *)
(***************************************************************************)

Begin(r, k, l, e) ==
  /\ pc[r] = "idle"
  /\ pc' = [pc EXCEPT ![r] = l]
  /\ key' = [key EXCEPT ![r] = k]
  /\ my' = [my EXCEPT ![r] = e]
  /\ val' = [val EXCEPT ![r] = NoResp]
  /\ ret' = [ret EXCEPT ![r] = NoResp]
  /\ since' = [since EXCEPT ![r] = completed]
  /\ UNCHANGED <<epoch, toggle, completed>>

Find(r, k) ==
  /\ entries[k] # None
  /\ Begin(r, k, "wait", entries[k])
  /\ UNCHANGED <<entries, entry>>

Full == Cardinality(Listed) >= RespCacheMax

BugUncached(r, k) ==
  /\ entries[k] = None
  /\ Full
  /\ Begin(r, k, "wait", None)
  /\ UNCHANGED <<entries, entry>>

Uncached(r, k) ==
  /\ entries[k] = None
  /\ Full
  /\ Begin(r, k, "compute", None)
  /\ UNCHANGED <<entries, entry>>

Create(r, k, e) ==
  /\ entries[k] = None
  /\ ~Full
  /\ Unused(e)
  /\ Begin(r, k, "wait", e)
  /\ entries' = [entries EXCEPT ![k] = e]
  /\ entry' = [entry EXCEPT ![e] = NewEntry]

TakeGate(r) ==
  /\ pc[r] = "wait"
  /\ ~entry[my[r]].gate
  /\ entry' = [entry EXCEPT ![my[r]].gate = TRUE]
  /\ pc' = [pc EXCEPT ![r] = "hold"]
  /\ UNCHANGED <<entries, key, my, val, ret, since, epoch, toggle, completed>>

\* get returns v (NoResp: an error) and the deferred receive frees the gate.
Return(r, v) ==
  /\ pc' = [pc EXCEPT ![r] = "idle"]
  /\ key' = [key EXCEPT ![r] = None]
  /\ my' = [my EXCEPT ![r] = None]
  /\ val' = [val EXCEPT ![r] = NoResp]
  /\ ret' = [ret EXCEPT ![r] = v]
  /\ UNCHANGED <<entries, since, epoch, toggle, completed>>

\* The caller's context ends while it waits for the gate.
GiveUp(r) ==
  /\ pc[r] = "wait"
  /\ Return(r, NoResp)
  /\ UNCHANGED entry

Fresh(e) == entry[e].resp # NoResp /\ entry[e].fresh

Hit(r) ==
  LET e == my[r] IN
  /\ pc[r] = "hold"
  /\ Fresh(e)
  /\ entry' = [entry EXCEPT ![e].gate = FALSE]
  /\ Return(r, entry[e].resp)

Miss(r) ==
  /\ pc[r] = "hold"
  /\ ~Fresh(my[r])
  /\ pc' = [pc EXCEPT ![r] = "compute"]
  /\ UNCHANGED <<entries, entry, key, my, val, ret, since, epoch, toggle, completed>>

\* Inside compute(): the analysis reads IsCertTrusted from the store.
ReadTrust(r) ==
  /\ pc[r] = "compute"
  /\ val' = [val EXCEPT ![r] = epoch]
  /\ pc' = [pc EXCEPT ![r] = "computed"]
  /\ UNCHANGED <<entries, entry, key, my, ret, since, epoch, toggle, completed>>

BugReleased(e) == entry

\* The entries once the gate of e is free; uncached requests have none.
Released(e) == IF e = None THEN entry ELSE [entry EXCEPT ![e].gate = FALSE]

Fail(r) ==
  /\ pc[r] \in {"compute", "computed"}
  /\ entry' = Released(my[r])
  /\ Return(r, NoResp)

Store(r) ==
  LET e == my[r] IN
  /\ pc[r] = "computed"
  /\ entry' = IF e = None THEN entry
              ELSE [entry EXCEPT ![e] = [gate |-> FALSE, resp |-> val[r], fresh |-> TRUE]]
  /\ Return(r, val[r])

-----------------------------------------------------------------------------
(***************************************************************************)
(* Time, cleanupLoop, toggleTrust                                          *)
(***************************************************************************)

Expire(e) ==
  /\ entry[e].fresh
  /\ entry' = [entry EXCEPT ![e].fresh = FALSE]
  /\ UNCHANGED <<entries, pc, key, my, val, ret, since, epoch, toggle, completed>>

\* An entry that was never filled has a zero expiry: it counts as expired.
Cleanup(k) ==
  /\ entries[k] # None
  /\ ~entry[entries[k]].gate
  /\ ~entry[entries[k]].fresh
  /\ entries' = [entries EXCEPT ![k] = None]
  /\ UNCHANGED <<entry, pc, key, my, val, ret, since, epoch, toggle, completed>>

SetTrusted(t) ==
  /\ toggle[t] = 0
  /\ epoch < MaxEpoch
  /\ epoch' = epoch + 1
  /\ toggle' = [toggle EXCEPT ![t] = epoch + 1]
  /\ UNCHANGED <<entries, entry, pc, key, my, val, ret, since, completed>>

BugPurged == [k \in Keys |-> IF entries[k] # None /\ entry[entries[k]].gate
                             THEN entries[k] ELSE None]

Purged == [k \in Keys |-> None]

Purge(t) ==
  /\ toggle[t] # 0
  /\ entries' = Purged
  /\ toggle' = [toggle EXCEPT ![t] = 0]
  /\ completed' = IF toggle[t] > completed THEN toggle[t] ELSE completed
  /\ UNCHANGED <<entry, pc, key, my, val, ret, since, epoch>>

Step(r) ==
  Hit(r) \/ Miss(r) \/ ReadTrust(r) \/ Fail(r) \/ Store(r)

Next ==
  \/ \E r \in Requests :
       \/ \E k \in Keys : \/ Find(r, k) \/ Uncached(r, k)
                          \/ \E e \in Entries : Create(r, k, e)
       \/ TakeGate(r) \/ GiveUp(r) \/ Step(r)
  \/ \E e \in Entries : Expire(e)
  \/ \E k \in Keys : Cleanup(k)
  \/ \E t \in Admins : SetTrusted(t) \/ Purge(t)

Spec == Init /\ [][Next]_vars

(***************************************************************************)
(* compute() ends (guardAnalysis bounds it), and a goroutine blocked on a  *)
(* gate is woken in FIFO order.                                            *)
(***************************************************************************)
FairSpec ==
  /\ Spec
  /\ \A r \in Requests : WF_vars(Step(r)) /\ SF_vars(TakeGate(r))

-----------------------------------------------------------------------------
(***************************************************************************)
(* Properties                                                              *)
(***************************************************************************)

\* After an admin's toggle has returned, no get begun later answers from the
\* trust state before it: not from an entry filled earlier, not from one that
\* a computation begun earlier fills later.
FreshAfterToggle ==
  \A r \in Requests : ret[r] # NoResp => ret[r] >= since[r]

\* Waiting on a gate ends, whether computations succeed or fail.
GateIsReleased == \A r \in Requests : pc[r] = "wait" ~> pc[r] # "wait"

\* "Parallel callers on the same key wait for one computation" (lines 9-10),
\* for callers that use the cache.
OneComputation ==
  \A r, s \in Requests :
    /\ {pc[r], pc[s]} \subseteq {"compute", "computed"}
    /\ my[r] # None /\ my[s] # None
    /\ key[r] = key[s]
    => r = s
=============================================================================
