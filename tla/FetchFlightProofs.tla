------------------------- MODULE FetchFlightProofs --------------------------
(***************************************************************************)
(* Safety of FetchFlight for any number of analyses, keys and downloads.   *)
(* Everything rests on the count c.waiters: while the download is not over *)
(* it is the number of analyses that refer to the call, so that the one    *)
(* who finds it at 1 is really the last.                                   *)
(***************************************************************************)
EXTENDS FetchFlight, FiniteSetTheorems, TLAPS

\* An analysis refers to a call exactly while it waits or is about to leave.
CallerInvOf(a) ==
  /\ pc[a] \in {"idle", "lock"} => my[a] = None
  /\ pc[a] \in {"wait", "leave"} => my[a] \in Calls
  /\ pc[a] = "lock" => key[a] \in Keys
  /\ my[a] # None => call[my[a]].state # "free"

CallerInv == \A a \in Callers : CallerInvOf(a)

\* A call has a key from its start to its collection.
KeyInvOf(c) ==
  /\ call[c].state = "free" => call[c] = FreeCall
  /\ call[c].state # "free" => call[c].key \in Keys

KeyInv == \A c \in Calls : KeyInvOf(c)

\* c.waiters.  Those who receive from the closed channel do not count down.
WaitersInvOf(c) ==
  /\ call[c].state \in InFlight \cup {"published"} =>
       call[c].waiters = Cardinality(Watchers(c))
  /\ call[c].state = "closed" => call[c].waiters >= Cardinality(Watchers(c))

WaitersInv == \A c \in Calls : WaitersInvOf(c)

\* f.calls lists downloads of its keys that nobody has cancelled.
ListInvOf(k) ==
  calls[k] # None =>
    /\ call[calls[k]].key = k
    /\ call[calls[k]].state \in InFlight
    /\ call[calls[k]].fctx # "canceled"

ListInv == \A k \in Keys : ListInvOf(k)

\* A cancelled context has no waiter, and one without waiters is over.
CancelInvOf(c) ==
  /\ call[c].fctx = "canceled" => Watchers(c) = {}
  /\ call[c].state \in InFlight /\ Watchers(c) = {} => call[c].fctx # "live"

CancelInv == \A c \in Calls : CancelInvOf(c)

\* Only a cancelled context makes fetch report a cancellation.
OutInvOf(c) ==
  call[c].out = "canceled" =>
    /\ call[c].fctx = "canceled"
    /\ call[c].state \in {"judged", "published", "closed"} => call[c].abandoned

OutInv == \A c \in Calls : OutInvOf(c)

IndInv ==
  TypeOK /\ CallerInv /\ KeyInv /\ WaitersInv /\ ListInv /\ CancelInv /\ OutInv
    /\ OneDownloadPerKey

-----------------------------------------------------------------------------
(***************************************************************************)
(* Counting waiters.                                                       *)
(***************************************************************************)

\* A set of analyses that gains or loses one member grows or shrinks by one,
\* and the one member of a set of size one is the only one.
LEMMA Counting ==
  ASSUME NEW X \in SUBSET Callers, NEW a \in Callers
  PROVE  /\ Cardinality(X) \in Nat
         /\ a \notin X => Cardinality(X \cup {a}) = Cardinality(X) + 1
         /\ a \in X => /\ Cardinality(X \ {a}) = Cardinality(X) - 1
                       /\ Cardinality(X) > 0
                       /\ Cardinality(X) = 1 => X = {a}
                       /\ X = {a} => Cardinality(X) = 1
<1>1. IsFiniteSet(X) /\ IsFiniteSet(X \ {a})
  BY FS_Subset, CallersAssumption
<1>2. Cardinality(X) \in Nat
  BY <1>1, FS_CardinalityType
<1>3. a \notin X => Cardinality(X \cup {a}) = Cardinality(X) + 1
  BY <1>1, FS_AddElement
<1>4. a \in X => Cardinality(X \ {a}) = Cardinality(X) - 1
  BY <1>1, FS_RemoveElement
<1>5. a \in X => Cardinality(X) # 0
  BY <1>1, FS_EmptySet
<1>6. Cardinality(X \ {a}) = 0 <=> X \ {a} = {}
  BY <1>1, FS_EmptySet
<1>7. a \in X => (Cardinality(X) = 1 <=> X \ {a} = {})
  BY <1>2, <1>4, <1>6
<1> QED
  BY <1>2, <1>3, <1>4, <1>5, <1>7

\* What an analysis that is about to leave finds: the count includes it, it
\* is 1 only for the last, and a closed call counted down to 1 is collected.
LEMMA LeaverCounts ==
  ASSUME IndInv, NEW a \in Callers, pc[a] \in {"wait", "leave"}
  PROVE  LET c == my[a] IN
         /\ c \in Calls /\ a \in Watchers(c)
         /\ call[c].state # "free" /\ call[c].fctx # "canceled"
         /\ call[c].waiters \in Nat /\ call[c].waiters >= 1
         /\ call[c].waiters = 1 => Watchers(c) = {a}
         /\ call[c].state \in InFlight /\ call[c].waiters # 1 => Watchers(c) # {a}
<1> DEFINE c == my[a]
<1>1. c \in Calls /\ a \in Watchers(c) /\ c # None
  BY NoneAssumption DEF IndInv, CallerInv, CallerInvOf, Watchers
<1>2. call[c] \in FetchCall
  BY <1>1 DEF IndInv, TypeOK
<1>3. call[c].state # "free" /\ call[c].fctx # "canceled"
  BY <1>1 DEF IndInv, CallerInv, CallerInvOf, CancelInv, CancelInvOf
<1>4. Watchers(c) \in SUBSET Callers
  BY DEF Watchers
<1>5. /\ Cardinality(Watchers(c)) \in Nat
      /\ Cardinality(Watchers(c)) > 0
      /\ Cardinality(Watchers(c)) = 1 <=> Watchers(c) = {a}
  BY <1>1, <1>4, Counting
<1>6. /\ call[c].waiters \in Nat
      /\ call[c].waiters >= Cardinality(Watchers(c))
      /\ call[c].state \in InFlight => call[c].waiters = Cardinality(Watchers(c))
  BY <1>1, <1>2, <1>3, <1>5 DEF IndInv, WaitersInv, WaitersInvOf, FetchCall, InFlight
<1> QED
  BY <1>1, <1>3, <1>5, <1>6

-----------------------------------------------------------------------------

LEMMA InitIndInv == Init => IndInv
<1> SUFFICES ASSUME Init PROVE IndInv
  OBVIOUS
<1>1. FreeCall \in FetchCall
  BY DEF FreeCall, FetchCall, Outcomes, Failures, InFlight
<1>2. TypeOK
  BY <1>1, MaxFetchesAssumption DEF Init, TypeOK
<1>3. \A c \in Calls : /\ call[c] = FreeCall
                       /\ call[c].state = "free"
                       /\ call[c].fctx = "live"
                       /\ call[c].out = "none"
  BY DEF Init, FreeCall
<1>4. CallerInv /\ KeyInv /\ WaitersInv
  BY <1>3 DEF Init, CallerInv, CallerInvOf, KeyInv, KeyInvOf, WaitersInv,
              WaitersInvOf, InFlight
<1>5. ListInv /\ CancelInv /\ OutInv /\ OneDownloadPerKey
  BY <1>3 DEF Init, ListInv, ListInvOf, CancelInv, CancelInvOf, OutInv,
              OutInvOf, OneDownloadPerKey, InFlight
<1> QED
  BY <1>2, <1>4, <1>5 DEF IndInv

-----------------------------------------------------------------------------
(***************************************************************************)
(* One step, by what it touches.  Quiet steps change no reference, no list *)
(* and no call; the steps of a goroutine change its call alone.            *)
(***************************************************************************)

Quiet ==
  \/ \E a \in Callers : \/ NewAnalysis(a) \/ ContextEnds(a)
                        \/ \E k \in Keys : Ask(a, k)
                        \/ Refused(a) \/ OverBudget(a) \/ GiveUp(a)
  \/ \E t \in Targets : Expire(t)

LEMMA Steps ==
  Next <=> \/ Quiet
           \/ \E a \in Callers, c \in Calls : Join(a, c) \/ Start(a, c)
           \/ \E a \in Callers : Receive(a) \/ Leave(a)
           \/ \E c \in Calls : \/ DownloadTimeout(c) \/ Return(c) \/ Judge(c)
                               \/ Publish(c) \/ Close(c)
BY DEF Next, Quiet, Download

LEMMA LeftType ==
  ASSUME NEW c, call[c] \in FetchCall, call[c].waiters >= 1, NEW last \in BOOLEAN
  PROVE  Left(c, last) \in FetchCall
<1> DEFINE f == call[c]
           x == IF last THEN Canceled(f.fctx) ELSE f.fctx
<1>1. x \in {"live", "canceled", "expired"}
  BY DEF FetchCall, Canceled
<1>2. Left(c, last) = [f EXCEPT !.waiters = f.waiters - 1, !.fctx = x]
  BY DEF Left
<1>3. f.waiters - 1 \in Nat
  BY DEF FetchCall
<1> HIDE DEF x, f
<1>4. f \in FetchCall
  BY DEF f
<1> QED
  BY <1>1, <1>2, <1>3, <1>4 DEF FetchCall, InFlight, Outcomes, Failures

\* Each call keeps the fields of a fetchCall.
LEMMA CallTypeStep ==
  ASSUME IndInv, Next
  PROVE  call' \in [Calls -> FetchCall]
<1> USE DEF FetchCall, InFlight, Outcomes, Failures
<1>1. call \in [Calls -> FetchCall]
  BY DEF IndInv, TypeOK
<1>2. FreeCall \in FetchCall
  BY DEF FreeCall
<1>3. CASE Quiet
  BY <1>1, <1>3 DEF Quiet, NewAnalysis, ContextEnds, Ask, Refused, OverBudget,
                    GiveUp, Expire
<1>4. ASSUME NEW a \in Callers, NEW c \in Calls, Join(a, c) PROVE call' \in [Calls -> FetchCall]
  BY <1>1, <1>4 DEF Join
<1>5. ASSUME NEW a \in Callers, NEW c \in Calls, Start(a, c) PROVE call' \in [Calls -> FetchCall]
  <2>1. key[a] \in Keys
    BY <1>5 DEF IndInv, CallerInv, CallerInvOf, Start, WaitOn
  <2> QED
    BY <1>1, <1>5, <2>1 DEF Start, FreeCall
<1>6. ASSUME NEW a \in Callers, Receive(a) PROVE call' \in [Calls -> FetchCall]
  BY <1>1, <1>2, <1>6 DEF Receive
<1>7. ASSUME NEW a \in Callers, Leave(a) PROVE call' \in [Calls -> FetchCall]
  <2> DEFINE c == my[a]
             last == call[c].waiters = 1
  <2>1. /\ c \in Calls /\ call[c].waiters \in Nat /\ call[c].waiters >= 1
        /\ call[c] \in FetchCall
    BY <1>1, <1>7, LeaverCounts DEF Leave
  <2>2. Left(c, last) \in FetchCall
    BY <2>1, LeftType
  <2>3. \/ call' = [call EXCEPT ![c] = FreeCall]
        \/ call' = [call EXCEPT ![c] = Left(c, last)]
    BY <1>7 DEF Leave
  <2> HIDE DEF c, last
  <2> QED
    BY <1>1, <1>2, <2>1, <2>2, <2>3
<1>8. ASSUME NEW c \in Calls, DownloadTimeout(c) \/ Return(c) \/ Judge(c) \/ Publish(c)
      PROVE  call' \in [Calls -> FetchCall]
  BY <1>1, <1>8 DEF DownloadTimeout, Return, Judge, Publish
<1>9. ASSUME NEW c \in Calls, Close(c) PROVE call' \in [Calls -> FetchCall]
  BY <1>1, <1>2, <1>9 DEF Close
<1> QED
  BY <1>3, <1>4, <1>5, <1>6, <1>7, <1>8, <1>9, Steps

LEMMA TypeStep ==
  ASSUME IndInv, Next
  PROVE  TypeOK'
<1> USE DEF ToIdle, WaitOn, Spent, Forgotten
<1>1. TypeOK /\ CallerInv
  BY DEF IndInv
<1>2. call' \in [Calls -> FetchCall]
  BY CallTypeStep
<1>3. CASE Quiet
  <2>1. ASSUME NEW a \in Callers, NewAnalysis(a) \/ ContextEnds(a) \/ GiveUp(a)
        PROVE  TypeOK'
    <3>1. done' \in [Callers -> BOOLEAN]
      BY <1>1, <2>1 DEF TypeOK, NewAnalysis, ContextEnds, GiveUp
    <3>2. budget' \in [Callers -> -1..MaxFetches]
      BY <1>1, <2>1, MaxFetchesAssumption DEF TypeOK, NewAnalysis, ContextEnds, GiveUp
    <3>3. pc' \in [Callers -> {"idle", "lock", "wait", "leave"}]
      BY <1>1, <2>1 DEF TypeOK, NewAnalysis, ContextEnds, GiveUp
    <3>4. UNCHANGED <<key, my, calls, failed>>
      BY <2>1 DEF NewAnalysis, ContextEnds, GiveUp
    <3> QED
      BY <1>1, <1>2, <3>1, <3>2, <3>3, <3>4 DEF TypeOK
  <2>2. ASSUME NEW a \in Callers, NEW k \in Keys, Ask(a, k) PROVE TypeOK'
    BY <1>1, <1>2, <2>2 DEF TypeOK, Ask
  <2>3. ASSUME NEW a \in Callers, Refused(a) \/ OverBudget(a) PROVE TypeOK'
    <3>1. failed' \in [Targets -> {"none", "fresh", "expired"}]
      BY <1>1, <2>3 DEF TypeOK, Refused, OverBudget
    <3>2. budget' \in [Callers -> -1..MaxFetches]
      BY <1>1, <2>3, MaxFetchesAssumption DEF TypeOK, Refused, OverBudget
    <3>3. UNCHANGED <<my, done, calls>> /\ ToIdle(a)
      BY <2>3 DEF Refused, OverBudget
    <3> QED
      BY <1>1, <1>2, <3>1, <3>2, <3>3 DEF TypeOK
  <2>4. ASSUME NEW t \in Targets, Expire(t) PROVE TypeOK'
    BY <1>1, <1>2, <2>4 DEF TypeOK, Expire
  <2> QED
    BY <1>3, <2>1, <2>2, <2>3, <2>4 DEF Quiet
<1>4. ASSUME NEW a \in Callers, NEW c \in Calls, Join(a, c) \/ Start(a, c) PROVE TypeOK'
  BY <1>1, <1>2, <1>4, MaxFetchesAssumption DEF TypeOK, Join, Start
<1>5. ASSUME NEW a \in Callers, Receive(a) PROVE TypeOK'
  BY <1>1, <1>2, <1>5 DEF TypeOK, Receive
<1>6. ASSUME NEW a \in Callers, Leave(a) PROVE TypeOK'
  BY <1>1, <1>2, <1>6 DEF TypeOK, Leave, Dropped, Unlisted
<1>7. ASSUME NEW c \in Calls, DownloadTimeout(c) \/ Return(c) \/ Judge(c) \/ Close(c)
      PROVE TypeOK'
  BY <1>1, <1>2, <1>7 DEF TypeOK, DownloadTimeout, Return, Judge, Close
<1>8. ASSUME NEW c \in Calls, Publish(c) PROVE TypeOK'
  BY <1>1, <1>2, <1>8 DEF TypeOK, Publish, Deleted, Unlisted, Failed
<1> QED
  BY <1>3, <1>4, <1>5, <1>6, <1>7, <1>8, Steps

\* An analysis refers to a call only while it waits or leaves, and only to a
\* live one: what is referred to is not collected.
LEMMA CallerStep ==
  ASSUME IndInv, Next
  PROVE  CallerInv'
<1> SUFFICES ASSUME NEW b \in Callers PROVE CallerInvOf(b)'
  BY DEF CallerInv
<1> USE DEF ToIdle, WaitOn, CallerInvOf
<1>1. CallerInvOf(b) /\ (my[b] # None => my[b] \in Calls)
  BY DEF IndInv, CallerInv, TypeOK
<1>2. /\ pc \in [Callers -> {"idle", "lock", "wait", "leave"}]
      /\ key \in [Callers -> Keys \cup {None}]
      /\ my \in [Callers -> Calls \cup {None}]
      /\ call \in [Calls -> FetchCall]
  BY DEF IndInv, TypeOK
<1>3. CASE Quiet
  BY <1>1, <1>2, <1>3 DEF Quiet, NewAnalysis, ContextEnds, Ask, Refused, OverBudget,
                          GiveUp, Expire
<1>4. ASSUME NEW a \in Callers, NEW c \in Calls, Join(a, c) PROVE CallerInvOf(b)'
  <2>1. call[c].state # "free"
    BY <1>4, NoneAssumption DEF IndInv, ListInv, ListInvOf, CallerInv, Join, InFlight
  <2> QED
    BY <1>1, <1>2, <1>4, <2>1, NoneAssumption DEF Join, FetchCall
<1>5. ASSUME NEW a \in Callers, NEW c \in Calls, Start(a, c) PROVE CallerInvOf(b)'
  BY <1>1, <1>2, <1>5, NoneAssumption DEF Start, FreeCall
<1>6. ASSUME NEW a \in Callers, Receive(a) PROVE CallerInvOf(b)'
  <2>1. b # a /\ my[b] = my[a] => b \in Watchers(my[a])
    BY DEF Watchers
  <2> QED
    BY <1>1, <1>2, <1>6, <2>1, LeaverCounts DEF Receive, Collected
<1>7. ASSUME NEW a \in Callers, Leave(a) PROVE CallerInvOf(b)'
  <2>1. b # a /\ my[b] = my[a] => b \in Watchers(my[a])
    BY DEF Watchers
  <2>2. Left(my[a], call[my[a]].waiters = 1).state = call[my[a]].state
    BY <1>2, <1>7, LeaverCounts DEF Leave, Left, FetchCall
  <2> QED
    BY <1>1, <1>2, <1>7, <2>1, <2>2, LeaverCounts DEF Leave, Collected
<1>8. ASSUME NEW c \in Calls, DownloadTimeout(c) \/ Return(c) \/ Judge(c) \/ Publish(c)
      PROVE  CallerInvOf(b)'
  BY <1>1, <1>2, <1>8 DEF DownloadTimeout, Return, Judge, Publish, FetchCall
<1>9. ASSUME NEW c \in Calls, Close(c) PROVE CallerInvOf(b)'
  <2>1. my[b] = c => Watchers(c) # {}
    BY DEF Watchers
  <2> QED
    BY <1>1, <1>2, <1>9, <2>1 DEF Close, FetchCall
<1> QED
  BY <1>3, <1>4, <1>5, <1>6, <1>7, <1>8, <1>9, Steps

\* Who refers to which call after a step: a newcomer is added to the watchers
\* of its call, one who is done is taken out, the other calls keep theirs.
LEMMA WatchersStep ==
  ASSUME IndInv
  PROVE  /\ \A a \in Callers, c \in Calls : Join(a, c) \/ Start(a, c) =>
              /\ a \notin Watchers(c) /\ Watchers(c)' = Watchers(c) \cup {a}
              /\ \A d \in Calls \ {c} : Watchers(d)' = Watchers(d)
         /\ \A a \in Callers, c \in Calls : my[a] = c /\ (Receive(a) \/ Leave(a)) =>
              /\ a \in Watchers(c) /\ Watchers(c)' = Watchers(c) \ {a}
              /\ \A d \in Calls \ {c} : Watchers(d)' = Watchers(d)
         /\ my' = my => \A d \in Calls : Watchers(d)' = Watchers(d)
<1>1. my \in [Callers -> Calls \cup {None}]
  BY DEF IndInv, TypeOK
<1>2. ASSUME NEW a \in Callers, NEW c \in Calls, Join(a, c) \/ Start(a, c)
      PROVE  /\ a \notin Watchers(c) /\ Watchers(c)' = Watchers(c) \cup {a}
             /\ \A d \in Calls \ {c} : Watchers(d)' = Watchers(d)
  <2>1. my[a] = None /\ my' = [my EXCEPT ![a] = c]
    BY <1>2 DEF IndInv, CallerInv, CallerInvOf, Join, Start, WaitOn
  <2> QED
    BY <1>1, <2>1, NoneAssumption DEF Watchers
<1>3. ASSUME NEW a \in Callers, NEW c \in Calls, my[a] = c, Receive(a) \/ Leave(a)
      PROVE  /\ a \in Watchers(c) /\ Watchers(c)' = Watchers(c) \ {a}
             /\ \A d \in Calls \ {c} : Watchers(d)' = Watchers(d)
  <2>1. my' = [my EXCEPT ![a] = None]
    BY <1>3 DEF Receive, Leave
  <2> QED
    BY <1>1, <1>3, <2>1, NoneAssumption DEF Watchers
<1>4. my' = my => \A d \in Calls : Watchers(d)' = Watchers(d)
  BY DEF Watchers
<1> QED
  BY <1>2, <1>3, <1>4

\* The other calls are left alone by a step.
LEMMA CallStep ==
  ASSUME IndInv
  PROVE  /\ \A a \in Callers, c \in Calls : Join(a, c) \/ Start(a, c) =>
              \A d \in Calls \ {c} : call'[d] = call[d]
         /\ \A a \in Callers : Receive(a) \/ Leave(a) =>
              \A d \in Calls \ {my[a]} : call'[d] = call[d]
         /\ \A c \in Calls :
              DownloadTimeout(c) \/ Return(c) \/ Judge(c) \/ Publish(c) \/ Close(c) =>
                my' = my /\ \A d \in Calls \ {c} : call'[d] = call[d]
         /\ Quiet => UNCHANGED <<my, calls, call>>
<1>1. call \in [Calls -> FetchCall]
  BY DEF IndInv, TypeOK
<1>2. \A a \in Callers, c \in Calls : Join(a, c) \/ Start(a, c) =>
        \A d \in Calls \ {c} : call'[d] = call[d]
  BY <1>1 DEF Join, Start
<1>3. \A a \in Callers : Receive(a) \/ Leave(a) =>
        \A d \in Calls \ {my[a]} : call'[d] = call[d]
  BY <1>1 DEF Receive, Leave
<1>4. \A c \in Calls :
        DownloadTimeout(c) \/ Return(c) \/ Judge(c) \/ Publish(c) \/ Close(c) =>
          my' = my /\ \A d \in Calls \ {c} : call'[d] = call[d]
  BY <1>1 DEF DownloadTimeout, Return, Judge, Publish, Close
<1>5. Quiet => UNCHANGED <<my, calls, call>>
  BY DEF Quiet, NewAnalysis, ContextEnds, Ask, Refused, OverBudget, GiveUp, Expire
<1> QED
  BY <1>2, <1>3, <1>4, <1>5

\* What the call of an analysis that leaves becomes.  Either it is collected,
\* or it is cancelled and dropped by its last waiter, or others wait on.
LEMMA LeaveEffect ==
  ASSUME IndInv, NEW a \in Callers, NEW c \in Calls, my[a] = c, Leave(a)
  PROVE  \/ /\ call[c].state = "closed" /\ Watchers(c) = {a}
            /\ call'[c] = FreeCall /\ calls' \in {calls, Unlisted(c)}
         \/ /\ call[c].state \in InFlight \cup {"published"}
            /\ Watchers(c) = {a} /\ call[c].waiters = 1
            /\ call'[c] = [call[c] EXCEPT !.waiters = 0,
                                          !.fctx = Canceled(call[c].fctx)]
            /\ calls' = Unlisted(c)
         \/ /\ call[c].state # "free" /\ Watchers(c) # {a}
            /\ call'[c] = [call[c] EXCEPT !.waiters = call[c].waiters - 1]
            /\ calls' = calls
<1> DEFINE last == call[c].waiters = 1
<1>1. call \in [Calls -> FetchCall] /\ call[c] \in FetchCall
  BY DEF IndInv, TypeOK
<1>2. /\ a \in Watchers(c) /\ call[c].state # "free"
      /\ call[c].waiters \in Nat /\ call[c].waiters >= 1
      /\ last => Watchers(c) = {a}
      /\ call[c].state \in InFlight /\ ~last => Watchers(c) # {a}
  BY LeaverCounts DEF Leave
<1>3. call[c].state = "published" /\ ~last => Watchers(c) # {a}
  <2>1. call[c].state = "published" => call[c].waiters = Cardinality(Watchers(c))
    BY DEF IndInv, WaitersInv, WaitersInvOf
  <2>2. Watchers(c) \in SUBSET Callers
    BY DEF Watchers
  <2> QED
    BY <1>2, <2>1, <2>2, Counting
<1>4. call[c].state \in InFlight \cup {"published", "closed"}
  BY <1>1, <1>2 DEF FetchCall
<1>5. /\ call'[c] = IF Collected(c, a) THEN FreeCall ELSE Left(c, last)
      /\ calls' = IF last THEN Unlisted(c) ELSE calls
  BY <1>1 DEF Leave, Dropped
<1>6. CASE Collected(c, a)
  BY <1>2, <1>5, <1>6 DEF Collected
<1>7. CASE last /\ ~Collected(c, a)
  <2>1. Left(c, last) = [call[c] EXCEPT !.waiters = 0, !.fctx = Canceled(call[c].fctx)]
    BY <1>7 DEF Left
  <2>2. call[c].state # "closed"
    BY <1>2, <1>7 DEF Collected
  <2> QED
    BY <1>2, <1>4, <1>5, <1>7, <2>1, <2>2
<1>8. CASE ~last /\ ~Collected(c, a)
  <2>1. Left(c, last) = [call[c] EXCEPT !.waiters = call[c].waiters - 1]
    BY <1>1, <1>8 DEF Left, FetchCall
  <2>2. call[c].state = "closed" => Watchers(c) # {a}
    BY <1>8 DEF Collected
  <2> QED
    BY <1>2, <1>3, <1>4, <1>5, <1>8, <2>1, <2>2
<1> QED
  BY <1>6, <1>7, <1>8

\* The same, field by field.
LEMMA LeaveFields ==
  ASSUME IndInv, NEW a \in Callers, NEW c \in Calls, my[a] = c, Leave(a)
  PROVE  \/ /\ call[c].state = "closed" /\ call'[c] = FreeCall
         \/ /\ call[c].state # "free"
            /\ call'[c].state = call[c].state /\ call'[c].key = call[c].key
            /\ call'[c].out = call[c].out /\ call'[c].abandoned = call[c].abandoned
            /\ \/ /\ call[c].state \in InFlight \cup {"published"}
                  /\ Watchers(c) = {a} /\ call'[c].waiters = 0
                  /\ call'[c].fctx = Canceled(call[c].fctx) /\ calls' = Unlisted(c)
               \/ /\ Watchers(c) # {a} /\ call'[c].waiters = call[c].waiters - 1
                  /\ call'[c].fctx = call[c].fctx /\ calls' = calls
<1> DEFINE f == call[c]
<1>1. f \in FetchCall
  BY DEF IndInv, TypeOK
<1>2. ASSUME NEW w, NEW x
      PROVE  LET g == [f EXCEPT !.waiters = w, !.fctx = x]
             IN  /\ g.state = f.state /\ g.key = f.key /\ g.out = f.out
                 /\ g.abandoned = f.abandoned /\ g.waiters = w /\ g.fctx = x
  BY <1>1 DEF FetchCall
<1>3. ASSUME NEW w
      PROVE  LET g == [f EXCEPT !.waiters = w]
             IN  /\ g.state = f.state /\ g.key = f.key /\ g.out = f.out
                 /\ g.abandoned = f.abandoned /\ g.waiters = w /\ g.fctx = f.fctx
  BY <1>1 DEF FetchCall
<1>4. CASE call[c].state = "closed" /\ call'[c] = FreeCall
  BY <1>4
<1>5. CASE /\ call[c].state \in InFlight \cup {"published"} /\ Watchers(c) = {a}
           /\ call'[c] = [call[c] EXCEPT !.waiters = 0, !.fctx = Canceled(call[c].fctx)]
           /\ calls' = Unlisted(c)
  BY <1>2, <1>5 DEF InFlight
<1>6. CASE /\ call[c].state # "free" /\ Watchers(c) # {a}
           /\ call'[c] = [call[c] EXCEPT !.waiters = call[c].waiters - 1]
           /\ calls' = calls
  BY <1>3, <1>6
<1> QED
  BY <1>4, <1>5, <1>6, LeaveEffect

\* What the call of an analysis that is served becomes.
LEMMA ReceiveEffect ==
  ASSUME IndInv, NEW a \in Callers, NEW c \in Calls, my[a] = c, Receive(a)
  PROVE  /\ call[c].state = "closed" /\ calls' = calls
         /\ \/ call'[c] = call[c]
            \/ call'[c] = FreeCall
<1>1. call \in [Calls -> FetchCall]
  BY DEF IndInv, TypeOK
<1> QED
  BY <1>1 DEF Receive

\* A step either leaves a call and its watchers alone or is a step of it.
LEMMA OneCall ==
  ASSUME IndInv, Next, NEW d \in Calls
  PROVE  \/ call'[d] = call[d] /\ Watchers(d)' = Watchers(d)
         \/ \E a \in Callers : Join(a, d) \/ Start(a, d)
         \/ \E a \in Callers : my[a] = d /\ (Receive(a) \/ Leave(a))
         \/ /\ Watchers(d)' = Watchers(d)
            /\ DownloadTimeout(d) \/ Return(d) \/ Judge(d) \/ Publish(d) \/ Close(d)
<1> DEFINE P == call'[d] = call[d] /\ Watchers(d)' = Watchers(d)
<1>1. Quiet => P
  BY WatchersStep, CallStep
<1>2. ASSUME NEW a \in Callers, NEW c \in Calls, Join(a, c) \/ Start(a, c), c # d PROVE P
  BY <1>2, WatchersStep, CallStep
<1>3. ASSUME NEW a \in Callers, Receive(a) \/ Leave(a), my[a] # d PROVE P
  <2>1. my[a] \in Calls
    BY <1>3, LeaverCounts DEF Receive, Leave
  <2> QED
    BY <1>3, <2>1, WatchersStep, CallStep
<1>4. ASSUME NEW c \in Calls,
             DownloadTimeout(c) \/ Return(c) \/ Judge(c) \/ Publish(c) \/ Close(c)
      PROVE  Watchers(d)' = Watchers(d) /\ (c # d => P)
  BY <1>4, WatchersStep, CallStep
<1> QED
  BY <1>1, <1>2, <1>3, <1>4, Steps

\* A call has a key from its start to its collection.
LEMMA KeyStep ==
  ASSUME IndInv, Next
  PROVE  KeyInv'
<1> SUFFICES ASSUME NEW d \in Calls PROVE KeyInvOf(d)'
  BY DEF KeyInv
<1> USE DEF KeyInvOf
<1>1. KeyInvOf(d) /\ call \in [Calls -> FetchCall]
  BY DEF IndInv, KeyInv, TypeOK
<1>2. FreeCall.state = "free"
  BY DEF FreeCall
<1>3. CASE call'[d] = call[d]
  BY <1>1, <1>3
<1>4. ASSUME NEW a \in Callers, Join(a, d) PROVE KeyInvOf(d)'
  <2>1. call[d].state # "free"
    BY <1>4, NoneAssumption DEF IndInv, ListInv, ListInvOf, CallerInv, CallerInvOf, Join, WaitOn, InFlight
  <2> QED
    BY <1>1, <1>4, <2>1 DEF Join, FetchCall
<1>5. ASSUME NEW a \in Callers, Start(a, d) PROVE KeyInvOf(d)'
  BY <1>1, <1>5 DEF IndInv, CallerInv, CallerInvOf, Start, WaitOn, FreeCall
<1>6. ASSUME NEW a \in Callers, my[a] = d, Receive(a) PROVE KeyInvOf(d)'
  BY <1>1, <1>2, <1>6, ReceiveEffect
<1>7. ASSUME NEW a \in Callers, my[a] = d, Leave(a) PROVE KeyInvOf(d)'
  <2>1. \/ call'[d] = FreeCall
        \/ /\ call[d].state # "free"
           /\ call'[d].state = call[d].state /\ call'[d].key = call[d].key
    BY <1>1, <1>7, LeaveFields
  <2> QED
    BY <1>1, <1>2, <2>1
<1>8. CASE DownloadTimeout(d) \/ Return(d) \/ Judge(d) \/ Publish(d)
  BY <1>1, <1>8 DEF DownloadTimeout, Return, Judge, Publish, FetchCall
<1>9. CASE Close(d)
  BY <1>1, <1>2, <1>9 DEF Close, FetchCall
<1> QED
  BY <1>3, <1>4, <1>5, <1>6, <1>7, <1>8, <1>9, OneCall

\* c.waiters counts the analyses that refer to the call.
LEMMA WaitersStep ==
  ASSUME IndInv, Next
  PROVE  WaitersInv'
<1> SUFFICES ASSUME NEW d \in Calls PROVE WaitersInvOf(d)'
  BY DEF WaitersInv
<1> DEFINE n == Cardinality(Watchers(d))
<1> USE DEF WaitersInvOf
<1>1. WaitersInvOf(d) /\ call \in [Calls -> FetchCall]
  BY DEF IndInv, WaitersInv, TypeOK
<1>2. Watchers(d) \in SUBSET Callers
  BY DEF Watchers
<1>3. CASE call'[d] = call[d] /\ Watchers(d)' = Watchers(d)
  BY <1>1, <1>3
<1>4. ASSUME NEW a \in Callers, Join(a, d) PROVE WaitersInvOf(d)'
  <2>1. call[d].state \in InFlight
    BY <1>4, NoneAssumption DEF IndInv, ListInv, ListInvOf, CallerInv, CallerInvOf, Join, WaitOn
  <2>2. Cardinality(Watchers(d)') = n + 1
    BY <1>2, <1>4, WatchersStep, Counting
  <2>3. call'[d].waiters = call[d].waiters + 1 /\ call'[d].state = call[d].state
    BY <1>1, <1>4 DEF Join, FetchCall
  <2> QED
    BY <1>1, <2>1, <2>2, <2>3 DEF InFlight
<1>5. ASSUME NEW a \in Callers, Start(a, d) PROVE WaitersInvOf(d)'
  <2>1. call[d].state = "free" /\ call'[d].waiters = 1 /\ call'[d].state = "fetching"
    BY <1>1, <1>5 DEF Start, FreeCall
  <2>2. Watchers(d) = {}
    BY <2>1, NoneAssumption DEF Watchers, IndInv, CallerInv, CallerInvOf
  <2>3. Watchers(d)' = {a}
    BY <1>5, <2>2, WatchersStep
  <2>4. Cardinality(Watchers(d)') = 1
    BY <2>3, Counting
  <2> QED
    BY <2>1, <2>4
<1>6. ASSUME NEW a \in Callers, my[a] = d, Receive(a) \/ Leave(a) PROVE WaitersInvOf(d)'
  <2>1. /\ n \in Nat /\ n > 0
        /\ Cardinality(Watchers(d)') = n - 1
        /\ Watchers(d) = {a} => n = 1
    <3>1. a \in Watchers(d) /\ Watchers(d)' = Watchers(d) \ {a}
      BY <1>6, WatchersStep
    <3> QED
      BY <1>2, <3>1, Counting
  <2>2. call[d].waiters \in Nat
    BY <1>1 DEF FetchCall
  <2>3. CASE Receive(a)
    <3>1. call[d].state = "closed" /\ (call'[d] = call[d] \/ call'[d] = FreeCall)
      BY <1>6, <2>3, ReceiveEffect
    <3> QED
      BY <1>1, <2>1, <2>2, <3>1 DEF FreeCall, InFlight
  <2>4. CASE Leave(a)
    <3>1. \/ call'[d] = FreeCall
          \/ /\ call[d].state \in InFlight \cup {"published"}
             /\ call'[d].state = call[d].state
             /\ call'[d].waiters = 0 /\ n = 1
          \/ /\ call'[d].state = call[d].state /\ call[d].state # "free"
             /\ call'[d].waiters = call[d].waiters - 1
      BY <1>6, <2>1, <2>4, LeaveFields
    <3> QED
      BY <1>1, <2>1, <2>2, <3>1 DEF FreeCall, InFlight
  <2> QED
    BY <1>6, <2>3, <2>4
<1>7. ASSUME Watchers(d)' = Watchers(d),
             DownloadTimeout(d) \/ Return(d) \/ Judge(d) \/ Publish(d) \/ Close(d)
      PROVE  WaitersInvOf(d)'
  <2>1. n \in Nat
    BY <1>2, FS_Subset, FS_CardinalityType, CallersAssumption
  <2>2. \/ call'[d] = FreeCall
        \/ /\ call[d].state \in InFlight \cup {"published"}
           /\ call'[d].waiters = call[d].waiters
    BY <1>1, <1>7 DEF DownloadTimeout, Return, Judge, Publish, Close, FetchCall, InFlight
  <2> QED
    BY <1>1, <1>7, <2>1, <2>2 DEF FreeCall, InFlight
<1> QED
  BY <1>3, <1>4, <1>5, <1>6, <1>7, OneCall

\* A waiter joins only what is not cancelled, and the last one cancels.
LEMMA CancelStep ==
  ASSUME IndInv, Next
  PROVE  CancelInv'
<1> SUFFICES ASSUME NEW d \in Calls PROVE CancelInvOf(d)'
  BY DEF CancelInv
<1> USE DEF CancelInvOf
<1>1. CancelInvOf(d) /\ call \in [Calls -> FetchCall]
  BY DEF IndInv, CancelInv, TypeOK
<1>2. FreeCall.state = "free" /\ FreeCall.fctx = "live"
  BY DEF FreeCall
<1>3. CASE call'[d] = call[d] /\ Watchers(d)' = Watchers(d)
  BY <1>1, <1>3
<1>4. ASSUME NEW a \in Callers, Join(a, d) PROVE CancelInvOf(d)'
  <2>1. call[d].fctx # "canceled"
    BY <1>4, NoneAssumption DEF IndInv, ListInv, ListInvOf, CallerInv, CallerInvOf, Join, WaitOn
  <2>2. a \in Watchers(d)'
    BY <1>4, WatchersStep
  <2>3. call'[d].fctx = call[d].fctx
    BY <1>1, <1>4 DEF Join, FetchCall
  <2> QED
    BY <2>1, <2>2, <2>3
<1>5. ASSUME NEW a \in Callers, Start(a, d) PROVE CancelInvOf(d)'
  <2>1. a \in Watchers(d)'
    BY <1>5, WatchersStep
  <2>2. call'[d].fctx = "live"
    BY <1>1, <1>5 DEF Start, FreeCall
  <2> QED
    BY <2>1, <2>2
<1>6. ASSUME NEW a \in Callers, my[a] = d, Receive(a) PROVE CancelInvOf(d)'
  <2>1. Watchers(d)' = Watchers(d) \ {a}
    BY <1>6, WatchersStep
  <2> QED
    BY <1>1, <1>2, <1>6, <2>1, ReceiveEffect DEF InFlight
<1>7. ASSUME NEW a \in Callers, my[a] = d, Leave(a) PROVE CancelInvOf(d)'
  <2>1. a \in Watchers(d) /\ Watchers(d)' = Watchers(d) \ {a}
    BY <1>7, WatchersStep
  <2>2. call[d].fctx \in {"live", "expired"}
    BY <1>1, <2>1 DEF FetchCall
  <2>3. CASE call'[d] = FreeCall
    BY <1>2, <2>3 DEF InFlight
  <2>4. CASE Watchers(d) = {a} /\ call'[d].fctx = Canceled(call[d].fctx)
    BY <2>1, <2>2, <2>4 DEF Canceled
  <2>5. CASE Watchers(d) # {a} /\ call'[d].fctx = call[d].fctx
    BY <2>1, <2>2, <2>5
  <2> QED
    BY <1>7, <2>3, <2>4, <2>5, LeaveFields
<1>8. ASSUME Watchers(d)' = Watchers(d),
             DownloadTimeout(d) \/ Return(d) \/ Judge(d) \/ Publish(d) \/ Close(d)
      PROVE  CancelInvOf(d)'
  <2>1. \/ call'[d] = FreeCall
        \/ call'[d].fctx = "expired"
        \/ /\ call'[d].fctx = call[d].fctx
           /\ call'[d].state \in InFlight => call[d].state \in InFlight
    BY <1>1, <1>8 DEF DownloadTimeout, Return, Judge, Publish, Close, FetchCall, InFlight
  <2> QED
    BY <1>1, <1>2, <1>8, <2>1 DEF InFlight
<1> QED
  BY <1>3, <1>4, <1>5, <1>6, <1>7, <1>8, OneCall

\* Only fetch sets the outcome, and line 440 reads the context after it.
LEMMA OutStep ==
  ASSUME IndInv, Next
  PROVE  OutInv'
<1> SUFFICES ASSUME NEW d \in Calls PROVE OutInvOf(d)'
  BY DEF OutInv
<1> USE DEF OutInvOf
<1>1. OutInvOf(d) /\ call \in [Calls -> FetchCall]
  BY DEF IndInv, OutInv, TypeOK
<1>2. FreeCall.out = "none"
  BY DEF FreeCall
<1>3. CASE call'[d] = call[d]
  BY <1>1, <1>3
<1>4. ASSUME NEW a \in Callers, Join(a, d) PROVE OutInvOf(d)'
  BY <1>1, <1>4 DEF Join, FetchCall
<1>5. ASSUME NEW a \in Callers, Start(a, d) PROVE OutInvOf(d)'
  BY <1>1, <1>5 DEF Start, FreeCall
<1>6. ASSUME NEW a \in Callers, my[a] = d, Receive(a) PROVE OutInvOf(d)'
  BY <1>1, <1>2, <1>6, ReceiveEffect
<1>7. ASSUME NEW a \in Callers, my[a] = d, Leave(a) PROVE OutInvOf(d)'
  BY <1>1, <1>2, <1>7, LeaveFields DEF Canceled
<1>8. CASE DownloadTimeout(d) \/ Return(d) \/ Judge(d)
  BY <1>1, <1>8 DEF DownloadTimeout, Return, Judge, FetchCall
<1>9. CASE Publish(d) \/ Close(d)
  BY <1>1, <1>2, <1>9 DEF Publish, Close, FetchCall
<1> QED
  BY <1>3, <1>4, <1>5, <1>6, <1>7, <1>8, <1>9, OneCall

\* A download in flight stays what it is until it is published or dropped.
LEMMA StaysInFlight ==
  ASSUME IndInv, Next, NEW d \in Calls,
         call[d].state \in InFlight, call[d].fctx # "canceled",
         ~Publish(d), calls' # Unlisted(d)
  PROVE  /\ call'[d].key = call[d].key
         /\ call'[d].state \in InFlight
         /\ call'[d].fctx # "canceled"
<1>1. call \in [Calls -> FetchCall]
  BY DEF IndInv, TypeOK
<1>2. CASE call'[d] = call[d]
  BY <1>2
<1>3. ASSUME NEW a \in Callers, Join(a, d)
      PROVE  call'[d].key = call[d].key /\ call'[d].state = call[d].state
               /\ call'[d].fctx = call[d].fctx
  BY <1>1, <1>3 DEF Join, FetchCall
<1>4. ASSUME NEW a \in Callers PROVE ~Start(a, d)
  BY DEF Start, InFlight
<1>5. ASSUME NEW a \in Callers, my[a] = d PROVE ~Receive(a)
  BY <1>5 DEF Receive, InFlight
<1>6. ASSUME NEW a \in Callers, my[a] = d, Leave(a)
      PROVE  call'[d].key = call[d].key /\ call'[d].state = call[d].state
               /\ call'[d].fctx = call[d].fctx
  BY <1>6, LeaveFields DEF InFlight
<1>7. ASSUME DownloadTimeout(d) \/ Return(d) \/ Judge(d)
      PROVE  /\ call'[d].key = call[d].key
             /\ call'[d].state \in InFlight
             /\ call'[d].fctx # "canceled"
  BY <1>1, <1>7 DEF DownloadTimeout, Return, Judge, FetchCall, InFlight
<1>8. ~Close(d)
  BY DEF Close, InFlight
<1> QED
  BY <1>2, <1>3, <1>4, <1>5, <1>6, <1>7, <1>8, OneCall

\* How f.calls changes: a new download is entered under its key, and only the
\* download itself, whatever has become of the key, is taken out.
LEMMA CallsStep ==
  ASSUME IndInv, Next
  PROVE  \/ calls' = calls /\ \A c \in Calls : ~Publish(c)
         \/ \E a \in Callers, c \in Calls : Start(a, c)
         \/ \E c \in Calls :
              /\ calls' = Unlisted(c)
              /\ \A d \in Calls \ {c} : call'[d] = call[d]
              /\ call'[c].state \notin InFlight \/ call'[c].fctx # "live"
<1> DEFINE P(c) == /\ calls' = Unlisted(c)
                   /\ \A d \in Calls \ {c} : call'[d] = call[d]
                   /\ call'[c].state \notin InFlight \/ call'[c].fctx # "live"
<1>1. call \in [Calls -> FetchCall]
  BY DEF IndInv, TypeOK
<1>2. ASSUME NEW c \in Calls, Publish(c) PROVE P(c)
  <2>1. call'[c].state = "published" /\ calls' = Unlisted(c)
    BY <1>1, <1>2 DEF Publish, Deleted, FetchCall
  <2> QED
    BY <1>2, <2>1, CallStep DEF InFlight
<1>3. ASSUME NEW a \in Callers, Leave(a) PROVE calls' = calls \/ \E c \in Calls : P(c)
  <2> DEFINE c == my[a]
  <2>1. c \in Calls /\ call[c] \in FetchCall
    BY <1>1, <1>3, LeaverCounts DEF Leave
  <2>2. \A d \in Calls \ {c} : call'[d] = call[d]
    BY <1>3, CallStep
  <2>3. CASE calls' = Unlisted(c) /\ call'[c] = FreeCall
    BY <2>1, <2>2, <2>3 DEF FreeCall, InFlight
  <2>4. CASE calls' = Unlisted(c) /\ call'[c].fctx = Canceled(call[c].fctx)
    <3>1. call'[c].fctx # "live"
      BY <2>4 DEF Canceled
    <3> QED
      BY <2>1, <2>2, <2>4, <3>1
  <2> QED
    BY <1>3, <2>1, <2>3, <2>4, LeaveEffect, LeaveFields
<1>4. ASSUME NEW c \in Calls, \/ DownloadTimeout(c) \/ Return(c) \/ Judge(c) \/ Close(c)
      PROVE calls' = calls
  BY <1>4 DEF DownloadTimeout, Return, Judge, Close
<1>5. ASSUME NEW a \in Callers, \/ Receive(a) \/ \E c \in Calls : Join(a, c)
      PROVE calls' = calls
  BY <1>5 DEF Receive, Join
<1>6. Quiet => calls' = calls
  BY CallStep
<1> QED
  BY <1>2, <1>3, <1>4, <1>5, <1>6, Steps

\* f.calls lists downloads in flight under their own keys.
LEMMA ListStep ==
  ASSUME IndInv, Next
  PROVE  ListInv'
<1> SUFFICES ASSUME NEW k \in Keys, calls'[k] # None PROVE ListInvOf(k)'
  BY DEF ListInv, ListInvOf
<1> USE DEF ListInvOf
<1>1. ListInvOf(k) /\ calls \in [Keys -> Calls \cup {None}] /\ call \in [Calls -> FetchCall]
  BY DEF IndInv, ListInv, TypeOK
<1>2. CASE calls' = calls /\ \A c \in Calls : ~Publish(c)
  <2> DEFINE d == calls[k]
  <2>1. d \in Calls /\ calls'[k] = d /\ d # None
    BY <1>1, <1>2
  <2>2. Unlisted(d)[k] = None
    BY <1>1, <2>1 DEF Unlisted
  <2>3. calls' # Unlisted(d)
    BY <2>1, <2>2
  <2>4. call[d].state \in InFlight /\ call[d].fctx # "canceled" /\ call[d].key = k
    BY <1>1, <2>1
  <2>5. /\ call'[d].key = k
        /\ call'[d].state \in InFlight
        /\ call'[d].fctx # "canceled"
    BY <1>2, <2>1, <2>3, <2>4, StaysInFlight
  <2> QED
    BY <2>1, <2>5
<1>3. ASSUME NEW a \in Callers, NEW c \in Calls, Start(a, c) PROVE ListInvOf(k)'
  <2>1. /\ call[c].state = "free" /\ key[a] \in Keys
        /\ calls' = [calls EXCEPT ![key[a]] = c]
    BY <1>3 DEF Start, WaitOn, IndInv, CallerInv, CallerInvOf
  <2>2. call'[c].key = key[a] /\ call'[c].state = "fetching" /\ call'[c].fctx = "live"
    BY <1>1, <1>3 DEF Start, FreeCall
  <2>3. CASE k = key[a]
    BY <1>1, <2>1, <2>2, <2>3 DEF InFlight
  <2>4. CASE k # key[a]
    <3>1. calls'[k] = calls[k] /\ calls[k] \in Calls \ {c}
      BY <1>1, <2>1, <2>4 DEF InFlight
    <3>2. call'[calls[k]] = call[calls[k]]
      BY <1>3, <3>1, CallStep
    <3> QED
      BY <1>1, <3>1, <3>2
  <2> QED
    BY <2>3, <2>4
<1>4. ASSUME NEW c \in Calls, calls' = Unlisted(c),
             \A d \in Calls \ {c} : call'[d] = call[d]
      PROVE  ListInvOf(k)'
  <2>1. calls'[k] = calls[k] /\ calls[k] \in Calls \ {c}
    BY <1>1, <1>4 DEF Unlisted
  <2> QED
    BY <1>1, <1>4, <2>1
<1> QED
  BY <1>2, <1>3, <1>4, CallsStep

\* A download in flight and not over was so before the step, unless it starts.
LEMMA WasLive ==
  ASSUME IndInv, Next, NEW d \in Calls,
         call'[d].state \in InFlight, call'[d].fctx = "live",
         \A a \in Callers : ~Start(a, d)
  PROVE  call[d].state \in InFlight /\ call[d].fctx = "live" /\ call'[d].key = call[d].key
<1> USE DEF InFlight
<1>1. call \in [Calls -> FetchCall]
  BY DEF IndInv, TypeOK
<1>2. CASE call'[d] = call[d]
  BY <1>2
<1>3. ASSUME NEW a \in Callers, Join(a, d)
      PROVE  call'[d].key = call[d].key /\ call'[d].state = call[d].state
               /\ call'[d].fctx = call[d].fctx
  BY <1>1, <1>3 DEF Join, FetchCall
<1>4. ASSUME NEW a \in Callers, my[a] = d PROVE ~Receive(a)
  BY <1>4, ReceiveEffect DEF FreeCall
<1>5. ASSUME NEW a \in Callers, my[a] = d, Leave(a)
      PROVE  call'[d].key = call[d].key /\ call'[d].state = call[d].state
               /\ call'[d].fctx = call[d].fctx
  BY <1>5, LeaveFields DEF FreeCall, Canceled
<1>6. CASE DownloadTimeout(d) \/ Return(d) \/ Judge(d) \/ Publish(d)
  BY <1>1, <1>6 DEF DownloadTimeout, Return, Judge, Publish, FetchCall
<1>7. ~Close(d)
  BY <1>1 DEF Close, FreeCall, FetchCall
<1> QED
  BY <1>2, <1>3, <1>4, <1>5, <1>6, <1>7, OneCall

\* At most one download per key that has not ended, and it is listed.
LEMMA OneDownloadStep ==
  ASSUME IndInv, Next
  PROVE  OneDownloadPerKey'
<1> SUFFICES ASSUME NEW d \in Calls, call'[d].state \in InFlight, call'[d].fctx = "live"
             PROVE  calls'[call'[d].key] = d
  BY DEF OneDownloadPerKey, InFlight
<1>1. calls \in [Keys -> Calls \cup {None}] /\ call \in [Calls -> FetchCall]
  BY DEF IndInv, TypeOK
<1>2. ASSUME NEW a \in Callers, Start(a, d) PROVE calls'[call'[d].key] = d
  <2>1. key[a] \in Keys /\ calls' = [calls EXCEPT ![key[a]] = d]
    BY <1>2 DEF Start, WaitOn, IndInv, CallerInv, CallerInvOf
  <2>2. call'[d].key = key[a]
    BY <1>1, <1>2 DEF Start, FreeCall
  <2> QED
    BY <1>1, <2>1, <2>2
<1>3. CASE \A a \in Callers : ~Start(a, d)
  <2>1. call[d].state \in InFlight /\ call[d].fctx = "live" /\ call'[d].key = call[d].key
    BY <1>3, WasLive
  <2>2. call[d].key \in Keys /\ calls[call[d].key] = d
    BY <2>1 DEF IndInv, KeyInv, KeyInvOf, OneDownloadPerKey, InFlight
  <2>3. CASE calls' = calls
    BY <2>1, <2>2, <2>3
  <2>4. ASSUME NEW a \in Callers, NEW c \in Calls, Start(a, c)
        PROVE  calls'[call'[d].key] = d
    <3>1. calls[key[a]] = None /\ calls' = [calls EXCEPT ![key[a]] = c]
      BY <2>4 DEF Start
    <3> QED
      BY <1>1, <2>1, <2>2, <3>1, NoneAssumption
  <2>5. ASSUME NEW c \in Calls, calls' = Unlisted(c), c # d PROVE calls'[call'[d].key] = d
    BY <1>1, <2>1, <2>2, <2>5 DEF Unlisted
  <2> QED
    BY <2>3, <2>4, <2>5, CallsStep
<1> QED
  BY <1>2, <1>3

-----------------------------------------------------------------------------

LEMMA NextIndInv == IndInv /\ [Next]_vars => IndInv'
<1>1. ASSUME IndInv, Next PROVE IndInv'
  BY <1>1, TypeStep, CallerStep, KeyStep, WaitersStep, ListStep, CancelStep, OutStep,
     OneDownloadStep DEF IndInv
<1>2. ASSUME IndInv, UNCHANGED vars PROVE IndInv'
  <2>1. \A c : Watchers(c)' = Watchers(c)
    BY <1>2 DEF vars, Watchers
  <2>2. TypeOK' /\ CallerInv' /\ KeyInv'
    BY <1>2 DEF IndInv, vars, TypeOK, CallerInv, CallerInvOf, KeyInv, KeyInvOf
  <2>3. WaitersInv' /\ CancelInv'
    BY <1>2, <2>1 DEF IndInv, vars, WaitersInv, WaitersInvOf, CancelInv, CancelInvOf
  <2>4. ListInv' /\ OutInv' /\ OneDownloadPerKey'
    BY <1>2 DEF IndInv, vars, ListInv, ListInvOf, OutInv, OutInvOf, OneDownloadPerKey
  <2> QED
    BY <2>2, <2>3, <2>4 DEF IndInv
<1> QED
  BY <1>1, <1>2

LEMMA Invariance == Spec => []IndInv
BY InitIndInv, NextIndInv, PTL DEF Spec

\* Every variable of do keeps its type; in particular c.waiters is never
\* counted below zero and the budget never below its exhausted value.
THEOREM TypeCorrect == Spec => []TypeOK
<1>1. IndInv => TypeOK
  BY DEF IndInv
<1> QED
  BY <1>1, Invariance, PTL

\* No waiting analysis is handed the cancellation of a shared download,
\* however many analyses join and leave it.
THEOREM Uncollateral == Spec => []NoCollateralCancel
<1>1. ASSUME IndInv PROVE NoCollateralCancel
  <2> SUFFICES ASSUME NEW a \in Callers, pc[a] = "wait", call[my[a]].out = "canceled"
               PROVE  FALSE
    BY DEF NoCollateralCancel
  <2>1. my[a] \in Calls /\ call[my[a]].fctx # "canceled"
    BY <1>1, LeaverCounts
  <2> QED
    BY <1>1, <2>1 DEF IndInv, OutInv, OutInvOf
<1> QED
  BY <1>1, Invariance, PTL

\* A download in flight whose context has not ended is the only such one of
\* its key, and it is the one f.calls offers to newcomers.
THEOREM Shared == Spec => []OneDownloadPerKey
<1>1. IndInv => OneDownloadPerKey
  BY DEF IndInv
<1> QED
  BY <1>1, Invariance, PTL

\* No download runs on that nobody waits for.
THEOREM Watched == Spec => []NoUnwatchedDownload
<1>1. IndInv => NoUnwatchedDownload
  BY DEF IndInv, CancelInv, CancelInvOf, NoUnwatchedDownload, InFlight
<1> QED
  BY <1>1, Invariance, PTL

\* The failure memory blames a URL or an endpoint only for a download that
\* failed by itself, never for one that its clients left.
THEOREM Unblamed == Spec => LeavingNeverBlacklists
<1> DEFINE A == \A t \in Targets : failed'[t] = "fresh" /\ failed[t] # "fresh"
                  => \E c \in Calls : LET f == call[c] IN
                       /\ f.state = "judged"
                       /\ f.out \in {"err", "unreachable"}
                       /\ t = f.key \/ (t = EndpointOf[f.key] /\ f.out = "unreachable")
<1>1. ASSUME IndInv, Next PROVE A
  <2> SUFFICES ASSUME NEW t \in Targets, failed'[t] = "fresh", failed[t] # "fresh"
               PROVE  \E c \in Calls : LET f == call[c] IN
                        /\ f.state = "judged"
                        /\ f.out \in {"err", "unreachable"}
                        /\ t = f.key \/ (t = EndpointOf[f.key] /\ f.out = "unreachable")
    OBVIOUS
  <2>1. failed \in [Targets -> {"none", "fresh", "expired"}]
    BY <1>1 DEF IndInv, TypeOK
  <2>2. ASSUME NEW a \in Callers,
               \/ Refused(a) \/ OverBudget(a) \/ \E c \in Calls : Join(a, c) \/ Start(a, c)
        PROVE  FALSE
    <3>1. failed' = Forgotten(key[a])
      BY <2>2 DEF Refused, OverBudget, Join, Start, WaitOn
    <3> QED
      BY <2>1, <3>1 DEF Forgotten
  <2>3. ASSUME NEW u \in Targets, Expire(u) PROVE FALSE
    BY <2>1, <2>3 DEF Expire
  <2>4. ASSUME NEW c \in Calls, Publish(c)
        PROVE  LET f == call[c] IN
                 /\ f.state = "judged"
                 /\ f.out \in {"err", "unreachable"}
                 /\ t = f.key \/ (t = EndpointOf[f.key] /\ f.out = "unreachable")
    <3>1. PICK sweep \in BOOLEAN :
            failed' = IF Remembers(c) THEN Failed(c, sweep) ELSE failed
      BY <2>4 DEF Publish
    <3>2. Remembers(c) /\ failed' = Failed(c, sweep)
      BY <3>1
    <3>3. t \in Marked(c)
      BY <2>1, <3>2 DEF Failed
    <3>4. call[c].state = "judged" /\ call[c].out # "canceled"
      BY <1>1, <2>4, <3>2 DEF Publish, Remembers, IndInv, OutInv, OutInvOf
    <3>5. call[c].out \in {"err", "unreachable"}
      BY <3>2, <3>4 DEF Remembers, Failures
    <3> QED
      BY <3>3, <3>4, <3>5 DEF Marked
  <2>5. failed' # failed
    OBVIOUS
  <2> QED
    BY <1>1, <2>2, <2>3, <2>4, <2>5
       DEF Next, Download, NewAnalysis, ContextEnds, Ask, Receive, GiveUp, Leave,
           DownloadTimeout, Return, Judge, Close
<1>2. ASSUME IndInv, [Next]_vars PROVE [A]_vars
  BY <1>1, <1>2
<1> QED
  BY <1>2, Invariance, PTL DEF Spec, LeavingNeverBlacklists

=============================================================================
