---------------------------- MODULE FetchFlight ----------------------------
(***************************************************************************)
(* fetchFlight of cmd/certview/guard.go: concurrent analyses that want the *)
(* same URL share one download, a download nobody waits for any more is    *)
(* cancelled, and failures of a URL or of its endpoint are remembered.     *)
(*                                                                         *)
(* f.mu is held over each critical section, so each is one action.  What   *)
(* happens between two sections (the context check of line 412, the fetch, *)
(* the reading of fctx.Err() in line 440, close(c.done)) interleaves.      *)
(*                                                                         *)
(* An analysis: idle -> lock (412 passed) -> wait -> idle, or wait ->      *)
(* leave (ctx.Done() chosen) -> idle.  A fetchCall: free -> fetching ->    *)
(* returned -> judged -> published -> closed, and free again (collected)   *)
(* once no analysis refers to it.                                          *)
(***************************************************************************)
EXTENDS Integers, FiniteSets

CONSTANTS Callers,      \* analyses
          Keys,         \* URLs (OCSP: URL and request)
          Endpoints,    \* scheme://host:port
          EndpointOf,   \* the endpoint of each key
          Calls,        \* fetchCall identities; bounds the downloads alive
          None,         \* no call, no key
          MaxFetches,   \* fetch budget of an analysis
          SweepAt       \* size of failed that triggers a sweep (4096)

ASSUME CallersAssumption == IsFiniteSet(Callers)
ASSUME EndpointAssumption == EndpointOf \in [Keys -> Endpoints]
ASSUME DisjointAssumption == Keys \cap Endpoints = {}
ASSUME NoneAssumption == None \notin Calls \cup Keys
ASSUME MaxFetchesAssumption == MaxFetches \in Nat
ASSUME SweepAtAssumption == SweepAt \in Nat

VARIABLES pc,         \* where each analysis stands in do
          key,        \* the key it asked for
          my,         \* the call it waits on
          done,       \* its context has ended
          budget,     \* its budget counter; -1 stands for exhausted
          calls,      \* f.calls
          failed,     \* f.failed: fresh until failTTL passes, then expired
          call        \* the fetchCall objects and the locals of their goroutines

vars == <<pc, key, my, done, budget, calls, failed, call>>

Targets == Keys \cup Endpoints
Failures == {"err", "unreachable", "canceled"}
Outcomes == {"none", "ok"} \cup Failures
InFlight == {"fetching", "returned", "judged"}

FetchCall ==
  [state     : {"free", "published", "closed"} \cup InFlight,
   key       : Keys \cup {None},
   waiters   : Nat,
   fctx      : {"live", "canceled", "expired"},   \* the first end wins
   out       : Outcomes,                          \* what fetch returned
   abandoned : BOOLEAN]                           \* the local of line 440

FreeCall == [state |-> "free", key |-> None, waiters |-> 0, fctx |-> "live",
             out |-> "none", abandoned |-> FALSE]

TypeOK ==
  /\ pc \in [Callers -> {"idle", "lock", "wait", "leave"}]
  /\ key \in [Callers -> Keys \cup {None}]
  /\ my \in [Callers -> Calls \cup {None}]
  /\ done \in [Callers -> BOOLEAN]
  /\ budget \in [Callers -> -1..MaxFetches]
  /\ calls \in [Keys -> Calls \cup {None}]
  /\ failed \in [Targets -> {"none", "fresh", "expired"}]
  /\ call \in [Calls -> FetchCall]

Init ==
  /\ pc = [a \in Callers |-> "idle"]
  /\ key = [a \in Callers |-> None]
  /\ my = [a \in Callers |-> None]
  /\ done = [a \in Callers |-> FALSE]
  /\ budget = [a \in Callers |-> MaxFetches]
  /\ calls = [k \in Keys |-> None]
  /\ failed = [t \in Targets |-> "none"]
  /\ call = [c \in Calls |-> FreeCall]

Watchers(c) == {a \in Callers : my[a] = c}

\* A closed call that no analysis but (possibly) a refers to is collected.
Collected(c, a) == call[c].state = "closed" /\ Watchers(c) \subseteq {a}

ToIdle(a) ==
  /\ pc' = [pc EXCEPT ![a] = "idle"]
  /\ key' = [key EXCEPT ![a] = None]

-----------------------------------------------------------------------------
(***************************************************************************)
(* The environment: new analyses, contexts, the failure TTL.               *)
(***************************************************************************)

NewAnalysis(a) ==
  /\ pc[a] = "idle"
  /\ done[a] \/ budget[a] # MaxFetches
  /\ done' = [done EXCEPT ![a] = FALSE]
  /\ budget' = [budget EXCEPT ![a] = MaxFetches]
  /\ UNCHANGED <<pc, key, my, calls, failed, call>>

ContextEnds(a) ==
  /\ pc[a] # "idle"
  /\ ~done[a]
  /\ done' = [done EXCEPT ![a] = TRUE]
  /\ UNCHANGED <<pc, key, my, budget, calls, failed, call>>

Expire(t) ==
  /\ failed[t] = "fresh"
  /\ failed' = [failed EXCEPT ![t] = "expired"]
  /\ UNCHANGED <<pc, key, my, done, budget, calls, call>>

\* kind.timeout ends the download's context.
DownloadTimeout(c) ==
  /\ call[c].state = "fetching"
  /\ call[c].fctx = "live"
  /\ call' = [call EXCEPT ![c].fctx = "expired"]
  /\ UNCHANGED <<pc, key, my, done, budget, calls, failed>>

-----------------------------------------------------------------------------
(***************************************************************************)
(* do, the caller's side.  An operator named Bug... is a plausible defect  *)
(* of the definition that follows it, used only as its mutant.             *)
(***************************************************************************)

Ask(a, k) ==
  /\ pc[a] = "idle"
  /\ ~done[a]
  /\ pc' = [pc EXCEPT ![a] = "lock"]
  /\ key' = [key EXCEPT ![a] = k]
  /\ UNCHANGED <<my, done, budget, calls, failed, call>>

Blocked(k) == failed[k] = "fresh" \/ failed[EndpointOf[k]] = "fresh"

\* The key is looked up before the endpoint, and an expired entry is deleted
\* when the lookup gets to it.
Forgotten(k) ==
  [t \in Targets |->
     IF /\ failed[t] = "expired"
        /\ t = k \/ (t = EndpointOf[k] /\ failed[k] # "fresh")
     THEN "none" ELSE failed[t]]

Refused(a) ==
  /\ pc[a] = "lock"
  /\ Blocked(key[a])
  /\ failed' = Forgotten(key[a])
  /\ ToIdle(a)
  /\ UNCHANGED <<my, done, budget, calls, call>>

Spent(a) == IF budget[a] < 0 THEN -1 ELSE budget[a] - 1

OverBudget(a) ==
  /\ pc[a] = "lock"
  /\ ~Blocked(key[a])
  /\ Spent(a) < 0
  /\ failed' = Forgotten(key[a])
  /\ budget' = [budget EXCEPT ![a] = Spent(a)]
  /\ ToIdle(a)
  /\ UNCHANGED <<my, done, calls, call>>

\* Lines 426-467 for an analysis that goes on to wait on call c.
WaitOn(a, c) ==
  /\ pc[a] = "lock"
  /\ ~Blocked(key[a])
  /\ Spent(a) >= 0
  /\ failed' = Forgotten(key[a])
  /\ budget' = [budget EXCEPT ![a] = Spent(a)]
  /\ my' = [my EXCEPT ![a] = c]
  /\ pc' = [pc EXCEPT ![a] = "wait"]
  /\ UNCHANGED <<key, done>>

BugJoin(a, c) == WaitOn(a, c) /\ calls[key[a]] = c /\ UNCHANGED <<call, calls>>

Join(a, c) ==
  /\ WaitOn(a, c)
  /\ calls[key[a]] = c
  /\ call' = [call EXCEPT ![c].waiters = @ + 1]
  /\ UNCHANGED calls

Start(a, c) ==
  /\ WaitOn(a, c)
  /\ calls[key[a]] = None
  /\ call[c].state = "free"
  /\ call' = [call EXCEPT ![c] = [FreeCall EXCEPT !.state = "fetching",
                                                  !.key = key[a],
                                                  !.waiters = 1]]
  /\ calls' = [calls EXCEPT ![key[a]] = c]

Receive(a) ==
  LET c == my[a] IN
  /\ pc[a] = "wait"
  /\ call[c].state = "closed"
  /\ call' = IF Collected(c, a) THEN [call EXCEPT ![c] = FreeCall] ELSE call
  /\ my' = [my EXCEPT ![a] = None]
  /\ ToIdle(a)
  /\ UNCHANGED <<done, budget, calls, failed>>

\* select takes the <-ctx.Done() branch, perhaps with c.done closed as well.
GiveUp(a) ==
  /\ pc[a] = "wait"
  /\ done[a]
  /\ pc' = [pc EXCEPT ![a] = "leave"]
  /\ UNCHANGED <<key, my, done, budget, calls, failed, call>>

Canceled(f) == IF f = "live" THEN "canceled" ELSE f

BugLeft(c, last) == [call[c] EXCEPT !.waiters = @ - 1]

\* The call after one waiter has left: the last one cancels the download.
Left(c, last) ==
  [call[c] EXCEPT !.waiters = @ - 1, !.fctx = IF last THEN Canceled(@) ELSE @]

\* f.calls without c: only the call itself is deleted, not a successor.
Unlisted(c) ==
  [k \in Keys |-> IF k = call[c].key /\ calls[k] = c THEN None ELSE calls[k]]

BugDropped(c) == calls

\* The last waiter takes the call out of f.calls: nobody may join it.
Dropped(c) == Unlisted(c)

Leave(a) ==
  LET c == my[a]
      last == call[c].waiters = 1
  IN
  /\ pc[a] = "leave"
  /\ call' = [call EXCEPT ![c] = IF Collected(c, a) THEN FreeCall ELSE Left(c, last)]
  /\ calls' = IF last THEN Dropped(c) ELSE calls
  /\ my' = [my EXCEPT ![a] = None]
  /\ ToIdle(a)
  /\ UNCHANGED <<done, budget, failed>>

-----------------------------------------------------------------------------
(***************************************************************************)
(* do, the download's goroutine                                            *)
(***************************************************************************)

\* fetch returns.  Only a cancelled context makes it report cancellation,
\* and a cancelled download may still have just ended in another way.
Return(c) ==
  /\ call[c].state = "fetching"
  /\ \E o \in Outcomes \ {"none"} :
       /\ o = "canceled" => call[c].fctx = "canceled"
       /\ call' = [call EXCEPT ![c].state = "returned", ![c].out = o]
  /\ UNCHANGED <<pc, key, my, done, budget, calls, failed>>

Judge(c) ==
  /\ call[c].state = "returned"
  /\ call' = [call EXCEPT ![c].state = "judged",
                          ![c].abandoned = (call[c].fctx = "canceled")]
  /\ UNCHANGED <<pc, key, my, done, budget, calls, failed>>

BugRemembers(c) == call[c].out \in Failures

Remembers(c) == call[c].out \in Failures /\ ~call[c].abandoned

Marked(c) ==
  {call[c].key} \cup
    (IF call[c].out = "unreachable" THEN {EndpointOf[call[c].key]} ELSE {})

\* f.failed after c has failed.  A full map is swept of expired entries, at
\* most every ten seconds.
Failed(c, sweep) ==
  [t \in Targets |-> IF t \in Marked(c) THEN "fresh"
                     ELSE IF sweep /\ failed[t] = "expired" THEN "none"
                     ELSE failed[t]]

BugDeleted(c) == [k \in Keys |-> IF k = call[c].key THEN None ELSE calls[k]]

Deleted(c) == Unlisted(c)

Publish(c) ==
  /\ call[c].state = "judged"
  /\ calls' = Deleted(c)
  /\ \E sweep \in BOOLEAN :
       /\ sweep => Cardinality({t \in Targets : failed[t] # "none"}) >= SweepAt
       /\ failed' = IF Remembers(c) THEN Failed(c, sweep) ELSE failed
  /\ call' = [call EXCEPT ![c].state = "published"]
  /\ UNCHANGED <<pc, key, my, done, budget>>

BugClose(c) ==
  /\ call[c].state = "published" /\ call[c].waiters < 2
  /\ call' = [call EXCEPT ![c].state = "closed"]
  /\ UNCHANGED <<pc, key, my, done, budget, calls, failed>>

Close(c) ==
  /\ call[c].state = "published"
  /\ call' = IF Watchers(c) = {} THEN [call EXCEPT ![c] = FreeCall]
                                 ELSE [call EXCEPT ![c].state = "closed"]
  /\ UNCHANGED <<pc, key, my, done, budget, calls, failed>>

Download(c) == Return(c) \/ Judge(c) \/ Publish(c) \/ Close(c)

Next ==
  \/ \E a \in Callers : \/ NewAnalysis(a) \/ ContextEnds(a)
                        \/ \E k \in Keys : Ask(a, k)
                        \/ Refused(a) \/ OverBudget(a)
                        \/ \E c \in Calls : Join(a, c) \/ Start(a, c)
                        \/ Receive(a) \/ GiveUp(a) \/ Leave(a)
  \/ \E t \in Targets : Expire(t)
  \/ \E c \in Calls : DownloadTimeout(c) \/ Download(c)

Spec == Init /\ [][Next]_vars

(***************************************************************************)
(* The guarded client bounds every download by size and time, so a         *)
(* goroutine of do returns; goroutines that can run do run.                *)
(***************************************************************************)
FairSpec ==
  /\ Spec
  /\ \A c \in Calls : WF_vars(Download(c))
  /\ \A a \in Callers : WF_vars(Receive(a)) /\ WF_vars(Leave(a))

-----------------------------------------------------------------------------
(***************************************************************************)
(* Properties                                                              *)
(***************************************************************************)

\* "one leaving client does not fail the others": no waiting analysis is
\* handed the cancellation of the download it shares.
NoCollateralCancel ==
  \A a \in Callers :
    pc[a] = "wait" /\ call[my[a]].state = "closed" => call[my[a]].out # "canceled"

\* "shares one download per key": a download in flight whose context has not
\* ended is the only such one of its key, and newcomers find it in f.calls.
OneDownloadPerKey ==
  \A c \in Calls :
    call[c].state \in InFlight /\ call[c].fctx = "live" => calls[call[c].key] = c

\* "A shared download is cancelled when its last waiter leaves": none runs on
\* unwatched, so abandoned requests do not pile up downloads.
NoUnwatchedDownload ==
  \A c \in Calls :
    call[c].state = "fetching" /\ call[c].fctx = "live" => Watchers(c) # {}

\* A failure enters the memory only by a download that failed by itself, and
\* marks its endpoint only if that could not be connected to: the client that
\* leaves never makes a URL or an endpoint refused for others.
LeavingNeverBlacklists ==
  [][\A t \in Targets : failed'[t] = "fresh" /\ failed[t] # "fresh"
       => \E c \in Calls : LET f == call[c] IN
            /\ f.state = "judged"
            /\ f.out \in {"err", "unreachable"}
            /\ t = f.key \/ (t = EndpointOf[f.key] /\ f.out = "unreachable")]_vars

\* Every waiter is released: by the download it shares or by its own context.
WaiterReturns == \A a \in Callers : pc[a] = "wait" ~> pc[a] # "wait"
=============================================================================
