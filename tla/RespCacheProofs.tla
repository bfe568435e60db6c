-------------------------- MODULE RespCacheProofs --------------------------
(***************************************************************************)
(* A toggle that has returned is visible to every later get, for any       *)
(* number of requests, keys, entries and administrators.                   *)
(*                                                                         *)
(* A response may be filled into an entry long after it was computed, so   *)
(* the invariant speaks of what an entry holds and of what the requests    *)
(* that refer to it are about to put there: both are at least as new as    *)
(* every completed toggle while the entry is listed, and at least as new   *)
(* as what any request referring to the entry may expect, listed or not.   *)
(***************************************************************************)
EXTENDS RespCache, TLAPS

\* v is no response, or one computed at epoch n or later.
AtLeast(v, n) == v = NoResp \/ v >= n

\* Entry e and the responses on their way into it are of epoch n or later.
NewerThan(e, n) ==
  /\ AtLeast(entry[e].resp, n)
  /\ \A s \in Requests : my[s] = e => AtLeast(val[s], n)

HistoryInv ==
  /\ completed <= epoch
  /\ \A t \in Admins : toggle[t] <= epoch
  /\ \A r \in Requests : since[r] <= completed

ListedInv ==
  \A k \in Keys : entries[k] # None => NewerThan(entries[k], completed)

ReferredInv ==
  \A r \in Requests : my[r] # None => NewerThan(my[r], since[r])

ReturnInv ==
  \A r \in Requests : AtLeast(val[r], since[r]) /\ AtLeast(ret[r], since[r])

\* Only a request that has computed carries a response.
IdleInv == \A r \in Requests : pc[r] # "computed" => val[r] = NoResp

IndInv == TypeOK /\ HistoryInv /\ ListedInv /\ ReferredInv /\ ReturnInv /\ IdleInv

\* Setting one field of an entry keeps the entries well typed.
LEMMA FieldTyped ==
  ASSUME NEW f \in [Entries -> Entry], NEW e \in Entries, NEW b \in BOOLEAN
  PROVE  /\ [f EXCEPT ![e].gate = b] \in [Entries -> Entry]
         /\ [f EXCEPT ![e].fresh = b] \in [Entries -> Entry]
<1>1. [f[e] EXCEPT !.gate = b] \in Entry /\ [f[e] EXCEPT !.fresh = b] \in Entry
  BY DEF Entry
<1> QED
  BY <1>1

LEMMA InitIndInv == Init => IndInv
<1> USE MaxEpochAssumption DEF Init, Epochs, NoResp, Entry
<1>1. Init => TypeOK
  BY DEF TypeOK, NewEntry
<1>2. Init => HistoryInv /\ ListedInv /\ ReferredInv /\ ReturnInv /\ IdleInv
  BY DEF HistoryInv, ListedInv, ReferredInv, ReturnInv, IdleInv, AtLeast
<1> QED
  BY <1>1, <1>2 DEF IndInv

-----------------------------------------------------------------------------
(***************************************************************************)
(* get                                                                     *)
(***************************************************************************)

LEMMA BeginStep ==
  ASSUME IndInv, NEW r \in Requests, NEW k \in Keys,
         \/ Find(r, k)
         \/ Uncached(r, k)
         \/ \E e \in Entries : Create(r, k, e)
  PROVE  IndInv'
<1> USE MaxEpochAssumption, NoneAssumption DEF IndInv, Entry, Epochs, NoResp, NewEntry
<1>0. PICK l \in {"wait", "compute"}, e \in Entries \cup {None} :
        /\ Begin(r, k, l, e)
        /\ l = "wait" => e # None
        /\ \/ e = None /\ UNCHANGED <<entries, entry>>
           \/ e # None /\ e = entries[k] /\ UNCHANGED <<entries, entry>>
           \/ /\ e # None /\ Unused(e)
              /\ entries' = [entries EXCEPT ![k] = e]
              /\ entry' = [entry EXCEPT ![e] = NewEntry]
  BY DEF Find, Uncached, Create, TypeOK
<1>1. TypeOK'
  <2>1. NewEntry \in Entry
    OBVIOUS
  <2>2. /\ entries' \in [Keys -> Entries \cup {None}]
        /\ entry' \in [Entries -> Entry]
    <3> HIDE DEF Entry, NewEntry
    <3> QED BY <1>0, <2>1 DEF TypeOK
  <2>3. /\ pc' \in [Requests -> {"idle", "wait", "hold", "compute", "computed"}]
        /\ key' \in [Requests -> Keys \cup {None}]
        /\ my' \in [Requests -> Entries \cup {None}]
        /\ \A s \in Requests : pc'[s] \in {"wait", "hold"} => my'[s] # None
    BY <1>0 DEF TypeOK, Begin
  <2> QED
    BY <1>0, <2>2, <2>3 DEF TypeOK, Begin
<1>2. HistoryInv'
  BY <1>0 DEF HistoryInv, TypeOK, Begin
<1>3. ReturnInv' /\ IdleInv'
  BY <1>0 DEF ReturnInv, IdleInv, AtLeast, TypeOK, Begin
<1>4. ListedInv'
  BY <1>0 DEF ListedInv, NewerThan, AtLeast, TypeOK, Begin, Unused
<1>5. ReferredInv'
  BY <1>0 DEF ReferredInv, ListedInv, NewerThan, AtLeast, TypeOK, Begin, Unused,
              HistoryInv
<1> QED
  BY <1>1, <1>2, <1>3, <1>4, <1>5

LEMMA GateStep ==
  ASSUME IndInv, NEW r \in Requests, TakeGate(r) \/ Miss(r)
  PROVE  IndInv'
<1> USE NoneAssumption DEF IndInv, Entry, TakeGate, Miss
<1>1. TypeOK'
  <2>1. pc' \in [Requests -> {"idle", "wait", "hold", "compute", "computed"}]
    BY DEF TypeOK
  <2>2. entry' \in [Entries -> Entry]
    <3> HIDE DEF Entry
    <3>1. my[r] \in Entries /\ entry \in [Entries -> Entry]
      BY DEF TypeOK, IdleInv
    <3>2. [entry EXCEPT ![my[r]].gate = TRUE] \in [Entries -> Entry]
      BY <3>1, FieldTyped
    <3> QED
      BY <3>1, <3>2
  <2> QED
    BY <2>1, <2>2 DEF TypeOK
<1>2. HistoryInv' /\ ReturnInv' /\ IdleInv'
  BY DEF HistoryInv, ReturnInv, IdleInv, TypeOK
<1>3. \A e \in Entries : entry'[e].resp = entry[e].resp
  BY DEF TypeOK
<1>4. ListedInv' /\ ReferredInv'
  BY <1>3 DEF ListedInv, ReferredInv, NewerThan, TypeOK
<1> QED
  BY <1>1, <1>2, <1>4

LEMMA ReadStep ==
  ASSUME IndInv, NEW r \in Requests, ReadTrust(r)
  PROVE  IndInv'
<1> USE MaxEpochAssumption DEF IndInv, Entry, ReadTrust, Epochs, NoResp
<1>1. TypeOK'
  BY DEF TypeOK
<1>2. HistoryInv' /\ ReturnInv' /\ IdleInv'
  BY DEF HistoryInv, ReturnInv, IdleInv, AtLeast, TypeOK
<1>3. ListedInv' /\ ReferredInv'
  BY DEF ListedInv, ReferredInv, NewerThan, AtLeast, TypeOK, HistoryInv
<1> QED
  BY <1>1, <1>2, <1>3

\* get returns: the entry keeps its response or gets the one just computed.
LEMMA ReturnStep ==
  ASSUME IndInv, NEW r \in Requests, GiveUp(r) \/ Hit(r) \/ Fail(r) \/ Store(r)
  PROVE  IndInv'
<1> USE MaxEpochAssumption, NoneAssumption DEF IndInv, Entry, Epochs, NoResp
<1>0. PICK v \in Epochs \cup {NoResp} : Return(r, v) /\ AtLeast(v, since[r])
  BY DEF GiveUp, Hit, Fail, Store, TypeOK, IdleInv, ReturnInv, ReferredInv,
         NewerThan, AtLeast, Return
<1>1. TypeOK'
  <2>1. entry' \in [Entries -> Entry]
    <3>0. entry \in [Entries -> Entry]
      BY DEF TypeOK
    <3>1. CASE GiveUp(r) \/ Hit(r)
      <4> HIDE DEF Entry
      <4>1. my[r] \in Entries
        BY <3>1 DEF TypeOK, IdleInv, GiveUp, Hit
      <4>2. [entry EXCEPT ![my[r]].gate = FALSE] \in [Entries -> Entry]
        BY <3>0, <4>1, FieldTyped
      <4> QED
        BY <3>0, <3>1, <4>2 DEF GiveUp, Hit
    <3>2. CASE Fail(r)
      <4> HIDE DEF Entry
      <4>1. my[r] \in Entries \cup {None}
        BY DEF TypeOK
      <4> QED
        BY <3>0, <3>2, <4>1, FieldTyped DEF Fail, Released
    <3>3. CASE Store(r)
      BY <3>3 DEF TypeOK, Store
    <3> QED
      BY <3>1, <3>2, <3>3
  <2> QED
    BY <1>0, <2>1 DEF TypeOK, Return
<1>2. HistoryInv' /\ ReturnInv' /\ IdleInv'
  BY <1>0 DEF HistoryInv, ReturnInv, IdleInv, AtLeast, TypeOK, Return
<1>3. \A e \in Entries :
        \/ entry'[e].resp = entry[e].resp
        \/ my[r] = e /\ entry'[e].resp = val[r]
  BY DEF GiveUp, Hit, Fail, Store, TypeOK, Released, IdleInv
<1>4. \A e \in Entries, n \in Int : NewerThan(e, n) => NewerThan(e, n)'
  <2> SUFFICES ASSUME NEW e \in Entries, NEW n \in Int, NewerThan(e, n)
               PROVE  NewerThan(e, n)'
    OBVIOUS
  <2>1. AtLeast(entry'[e].resp, n)
    BY <1>3 DEF NewerThan
  <2>2. \A s \in Requests : my'[s] = e => AtLeast(val'[s], n)
    BY <1>0 DEF NewerThan, Return, TypeOK
  <2> QED
    BY <2>1, <2>2 DEF NewerThan, AtLeast
<1>5. ListedInv'
  BY <1>0, <1>4 DEF ListedInv, TypeOK, Return
<1>6. ReferredInv'
  BY <1>0, <1>4 DEF ReferredInv, TypeOK, Return
<1> QED
  BY <1>1, <1>2, <1>5, <1>6

-----------------------------------------------------------------------------
(***************************************************************************)
(* Time, cleanupLoop, toggleTrust                                          *)
(***************************************************************************)

LEMMA CleanStep ==
  ASSUME IndInv,
         \/ \E e \in Entries : Expire(e)
         \/ \E k \in Keys : Cleanup(k)
  PROVE  IndInv'
<1> USE NoneAssumption DEF IndInv, Entry
<1>1. TypeOK'
  <2>1. entry' \in [Entries -> Entry] /\ entries' \in [Keys -> Entries \cup {None}]
    <3> HIDE DEF Entry
    <3>1. \A e \in Entries : [entry EXCEPT ![e].fresh = FALSE] \in [Entries -> Entry]
      BY FieldTyped DEF TypeOK
    <3> QED
      BY <3>1 DEF TypeOK, Expire, Cleanup
  <2> QED
    BY <2>1 DEF TypeOK, Expire, Cleanup
<1>2. HistoryInv' /\ ReturnInv' /\ IdleInv'
  BY DEF HistoryInv, ReturnInv, IdleInv, TypeOK, Expire, Cleanup
<1>3. /\ \A e \in Entries : entry'[e].resp = entry[e].resp
      /\ \A k \in Keys : entries'[k] \in {entries[k], None}
      /\ UNCHANGED <<my, val, since, completed>>
  BY DEF TypeOK, Expire, Cleanup
<1>4. ListedInv' /\ ReferredInv'
  BY <1>3 DEF ListedInv, ReferredInv, NewerThan, TypeOK
<1> QED
  BY <1>1, <1>2, <1>4

LEMMA ToggleStep ==
  ASSUME IndInv, NEW t \in Admins, SetTrusted(t) \/ Purge(t)
  PROVE  IndInv'
<1> USE MaxEpochAssumption DEF IndInv, Entry, SetTrusted, Purge, Purged, Epochs
<1>1. TypeOK'
  BY DEF TypeOK
<1>2. HistoryInv'
  BY DEF HistoryInv, TypeOK
<1>3. ReturnInv' /\ IdleInv' /\ ReferredInv'
  BY DEF ReturnInv, IdleInv, ReferredInv, NewerThan
<1>4. ListedInv'
  BY DEF ListedInv, NewerThan
<1> QED
  BY <1>1, <1>2, <1>3, <1>4

LEMMA NextIndInv == IndInv /\ [Next]_vars => IndInv'
<1> SUFFICES ASSUME IndInv, [Next]_vars PROVE IndInv'
  OBVIOUS
<1>1. CASE UNCHANGED vars
  BY <1>1 DEF vars, IndInv, TypeOK, HistoryInv, ListedInv, ReferredInv, ReturnInv,
              IdleInv, NewerThan
<1> QED
  BY <1>1, BeginStep, GateStep, ReadStep, ReturnStep, CleanStep, ToggleStep
     DEF Next, Step

\* Type correctness of the cache.
THEOREM TypeCorrect == Spec => []TypeOK
<1>1. IndInv => TypeOK
  BY DEF IndInv
<1> QED
  BY <1>1, InitIndInv, NextIndInv, PTL DEF Spec

\* Once an admin's toggle has returned, every later get of that listener
\* answers from a trust state that includes it.
THEOREM ToggleIsVisible == Spec => []FreshAfterToggle
<1>1. IndInv => FreshAfterToggle
  BY DEF IndInv, ReturnInv, AtLeast, FreshAfterToggle
<1> QED
  BY <1>1, InitIndInv, NextIndInv, PTL DEF Spec
=============================================================================
