--------------------------- MODULE AnalysisGuard ---------------------------
(***************************************************************************)
(* The concurrency guard of cmd/certview/guard.go: analysis slots, the     *)
(* memory gate for big CRLs, the queue whose members lend their slot, and  *)
(* the watchdog that exits the process when an analysis hangs.             *)
(*                                                                         *)
(* A Go channel used as a semaphore is the number of tokens in it.  One    *)
(* analysis is one goroutine; pc[a] is the statement it stands at:         *)
(*                                                                         *)
(*   idle    no request                 slot    select in guardAnalysis    *)
(*   start   analyzeData entry          run     between two ctx checks     *)
(*   open    acquireCRLMemory entry     queue   select on crlQueue         *)
(*   give    about to give the slot     gate    first wait for bigCRL      *)
(*   try     gate held, slot wanted     drop    release() of line 172      *)
(*   reslot  wait for a slot again      regate  wait for the gate again    *)
(*   leftOK / leftErr   the deferred receive from crlQueue                 *)
(*   parse   a big CRL is open                                             *)
(***************************************************************************)
EXTENDS Integers, FiniteSets

CONSTANTS Analyses,      \* the request goroutines
          NumCPU,        \* capacity of slots: runtime.NumCPU()
          BigCRLQueue,   \* capacity of crlQueue: bigCRLQueue
          MaxOpens       \* bound: CRLs one analysis opens

ASSUME AnalysesAssumption == IsFiniteSet(Analyses)
ASSUME NumCPUAssumption == NumCPU \in Nat \ {0}
ASSUME BigCRLQueueAssumption == BigCRLQueue \in Nat
ASSUME MaxOpensAssumption == MaxOpens \in Nat

VARIABLES pc,        \* where each analysis stands
          slots,     \* len(slots)
          bigCRL,    \* len(bigCRL), capacity 1
          crlQueue,  \* len(crlQueue)
          held,      \* slotHold.held of each analysis
          queued,    \* it joined crlQueue, so hold # nil in acquireCRLMemory
          done,      \* its context has ended (client gone or deadline)
          running,   \* keys of the running map
          opens,     \* CRLs it has opened
          hung       \* stuck inside C code

vars == <<pc, slots, bigCRL, crlQueue, held, queued, done, running, opens, hung>>

GateHolder == {"try", "drop", "leftOK", "parse"}

Locations == {"idle", "slot", "start", "run", "open", "queue", "give", "gate",
              "reslot", "regate", "leftErr"} \cup GateHolder

TypeOK ==
  /\ pc \in [Analyses -> Locations]
  /\ slots \in 0..NumCPU
  /\ bigCRL \in 0..1
  /\ crlQueue \in 0..BigCRLQueue
  /\ held \in [Analyses -> BOOLEAN]
  /\ queued \in [Analyses -> BOOLEAN]
  /\ done \in [Analyses -> BOOLEAN]
  /\ running \in SUBSET Analyses
  /\ opens \in [Analyses -> 0..MaxOpens]
  /\ hung \in [Analyses -> BOOLEAN]

Init ==
  /\ pc = [a \in Analyses |-> "idle"]
  /\ slots = 0
  /\ bigCRL = 0
  /\ crlQueue = 0
  /\ held = [a \in Analyses |-> FALSE]
  /\ queued = [a \in Analyses |-> FALSE]
  /\ done = [a \in Analyses |-> FALSE]
  /\ running = {}
  /\ opens = [a \in Analyses |-> 0]
  /\ hung = [a \in Analyses |-> FALSE]

At(a, l) == pc[a] = l /\ ~hung[a]

Goto(a, l) == pc' = [pc EXCEPT ![a] = l]

-----------------------------------------------------------------------------
(***************************************************************************)
(* The environment of an analysis: its request, its context, C code.       *)
(***************************************************************************)

Arrive(a) ==
  /\ At(a, "idle")
  /\ Goto(a, "slot")
  /\ done' = [done EXCEPT ![a] = FALSE]
  /\ opens' = [opens EXCEPT ![a] = 0]
  /\ UNCHANGED <<slots, bigCRL, crlQueue, held, queued, running, hung>>

\* The client leaves, or analyzeTimeout passes.
ContextEnds(a) ==
  /\ pc[a] # "idle"
  /\ ~done[a]
  /\ done' = [done EXCEPT ![a] = TRUE]
  /\ UNCHANGED <<pc, slots, bigCRL, crlQueue, held, queued, running, opens, hung>>

\* A call into OpenSSL never returns.
Hang(a) ==
  /\ pc[a] \in {"run", "parse"}
  /\ ~hung[a]
  /\ hung' = [hung EXCEPT ![a] = TRUE]
  /\ UNCHANGED <<pc, slots, bigCRL, crlQueue, held, queued, done, running, opens>>

-----------------------------------------------------------------------------
(***************************************************************************)
(* guardAnalysis.  An operator named Bug... is a plausible defect of the   *)
(* definition that follows it; no action uses it, and each is the mutant   *)
(* against which a property is tried.                                      *)
(***************************************************************************)

BugSlotFree == slots <= NumCPU

SlotFree == slots < NumCPU

BugTakeSlot(a) ==
  /\ At(a, "slot") /\ SlotFree
  /\ slots' = slots + 1
  /\ held' = [held EXCEPT ![a] = TRUE]
  /\ Goto(a, "start")
  /\ UNCHANGED <<bigCRL, crlQueue, queued, done, running, opens, hung>>

TakeSlot(a) ==
  /\ At(a, "slot")
  /\ SlotFree
  /\ slots' = slots + 1
  /\ running' = running \cup {a}
  /\ held' = [held EXCEPT ![a] = TRUE]
  /\ Goto(a, "start")
  /\ UNCHANGED <<bigCRL, crlQueue, queued, done, opens, hung>>

\* errBusy after slotWait, or the context's error.
Refuse(a) ==
  /\ At(a, "slot")
  /\ Goto(a, "idle")
  /\ UNCHANGED <<slots, bigCRL, crlQueue, held, queued, done, running, opens, hung>>

BugOwnsSlot(a) == TRUE

OwnsSlot(a) == held[a]

\* The release function of guardAnalysis; a failed ctx check returns here too.
Finish(a) ==
  /\ At(a, "run")
  /\ running' = running \ {a}
  /\ slots' = IF OwnsSlot(a) THEN slots - 1 ELSE slots
  /\ held' = [held EXCEPT ![a] = FALSE]
  /\ Goto(a, "idle")
  /\ UNCHANGED <<bigCRL, crlQueue, queued, done, opens, hung>>

-----------------------------------------------------------------------------
(***************************************************************************)
(* analyzeData as the guard sees it.  Its first openCRL follows no context *)
(* check; every later one does, and so does the next analyzeData of a      *)
(* site with several results.                                              *)
(***************************************************************************)

OpenInput(a) ==
  /\ At(a, "start")
  /\ Goto(a, "open")
  /\ UNCHANGED <<slots, bigCRL, crlQueue, held, queued, done, running, opens, hung>>

BugContextChecked(a) == TRUE

ContextChecked(a) == ~done[a]

OpenNext(a) ==
  /\ At(a, "run")
  /\ ContextChecked(a)
  /\ opens[a] < MaxOpens
  /\ opens' = [opens EXCEPT ![a] = @ + 1]
  /\ \E l \in {"open", "start"} : Goto(a, l)
  /\ UNCHANGED <<slots, bigCRL, crlQueue, held, queued, done, running, hung>>

CloseCRL(a) ==
  /\ At(a, "parse")
  /\ bigCRL' = bigCRL - 1
  /\ Goto(a, "run")
  /\ UNCHANGED <<slots, crlQueue, held, queued, done, running, opens, hung>>

-----------------------------------------------------------------------------
(***************************************************************************)
(* acquireCRLMemory                                                        *)
(***************************************************************************)

PassSmall(a) ==
  /\ At(a, "open")
  /\ Goto(a, "run")
  /\ UNCHANGED <<slots, bigCRL, crlQueue, held, queued, done, running, opens, hung>>

TryGate(a) ==
  /\ At(a, "open")
  /\ \/ /\ bigCRL = 0
        /\ bigCRL' = 1
        /\ Goto(a, "parse")
     \/ /\ bigCRL = 1
        /\ Goto(a, "queue")
        /\ UNCHANGED bigCRL
  /\ UNCHANGED <<slots, crlQueue, held, queued, done, running, opens, hung>>

BugKeepSlot(a) == Goto(a, "give")

\* A full queue sets hold = nil: the analysis keeps its slot while it waits.
KeepSlot(a) == Goto(a, "gate")

TryQueue(a) ==
  /\ At(a, "queue")
  /\ \/ /\ crlQueue < BigCRLQueue
        /\ crlQueue' = crlQueue + 1
        /\ queued' = [queued EXCEPT ![a] = TRUE]
        /\ Goto(a, "give")
     \/ /\ crlQueue = BigCRLQueue
        /\ KeepSlot(a)
        /\ UNCHANGED <<crlQueue, queued>>
  /\ UNCHANGED <<slots, bigCRL, held, done, running, opens, hung>>

GiveSlot(a) ==
  /\ At(a, "give")
  /\ held' = [held EXCEPT ![a] = FALSE]
  /\ slots' = slots - 1
  /\ Goto(a, "gate")
  /\ UNCHANGED <<bigCRL, crlQueue, queued, done, running, opens, hung>>

TakeGate(a) ==
  /\ At(a, "gate")
  /\ bigCRL = 0
  /\ bigCRL' = 1
  /\ Goto(a, IF queued[a] THEN "try" ELSE "parse")
  /\ UNCHANGED <<slots, crlQueue, held, queued, done, running, opens, hung>>

BugTrySlot(a) ==
  /\ At(a, "try") /\ SlotFree
  /\ slots' = slots + 1
  /\ held' = [held EXCEPT ![a] = TRUE]
  /\ Goto(a, "leftOK")
  /\ UNCHANGED <<bigCRL, crlQueue, queued, done, running, opens, hung>>

TrySlot(a) ==
  /\ At(a, "try")
  /\ \/ /\ SlotFree
        /\ slots' = slots + 1
        /\ held' = [held EXCEPT ![a] = TRUE]
        /\ Goto(a, "leftOK")
     \/ /\ slots = NumCPU
        /\ Goto(a, "drop")
        /\ UNCHANGED <<slots, held>>
  /\ UNCHANGED <<bigCRL, crlQueue, queued, done, running, opens, hung>>

BugDropGate(a) ==
  /\ At(a, "drop")
  /\ Goto(a, "reslot")
  /\ UNCHANGED <<slots, bigCRL, crlQueue, held, queued, done, running, opens, hung>>

DropGate(a) ==
  /\ At(a, "drop")
  /\ bigCRL' = bigCRL - 1
  /\ Goto(a, "reslot")
  /\ UNCHANGED <<slots, crlQueue, held, queued, done, running, opens, hung>>

RetakeSlot(a) ==
  /\ At(a, "reslot")
  /\ SlotFree
  /\ slots' = slots + 1
  /\ held' = [held EXCEPT ![a] = TRUE]
  /\ Goto(a, "regate")
  /\ UNCHANGED <<bigCRL, crlQueue, queued, done, running, opens, hung>>

RetakeGate(a) ==
  /\ At(a, "regate")
  /\ bigCRL = 0
  /\ bigCRL' = 1
  /\ Goto(a, "leftOK")
  /\ UNCHANGED <<slots, crlQueue, held, queued, done, running, opens, hung>>

\* The <-ctx.Done() branch of the three blocking selects.
GiveUp(a) ==
  /\ \E l \in {"gate", "reslot", "regate"} : At(a, l)
  /\ done[a]
  /\ Goto(a, IF queued[a] THEN "leftErr" ELSE "run")
  /\ UNCHANGED <<slots, bigCRL, crlQueue, held, queued, done, running, opens, hung>>

\* The deferred receive from crlQueue, on return with or without an error.
LeaveQueue(a) ==
  /\ At(a, "leftOK") \/ At(a, "leftErr")
  /\ crlQueue' = crlQueue - 1
  /\ queued' = [queued EXCEPT ![a] = FALSE]
  /\ Goto(a, IF pc[a] = "leftOK" THEN "parse" ELSE "run")
  /\ UNCHANGED <<slots, bigCRL, held, done, running, opens, hung>>

-----------------------------------------------------------------------------
(***************************************************************************)
(* runWatchdog.  Only a hung analysis outlives hardTimeout: each wait ends *)
(* with the context, which analyzeTimeout ends, and the rest is bounded    *)
(* computation.  os.Exit drops every request; the container restarts the   *)
(* process with empty channels.                                            *)
(***************************************************************************)

Watchdog ==
  /\ \E a \in running : hung[a]
  /\ pc' = [a \in Analyses |-> "idle"]
  /\ slots' = 0
  /\ bigCRL' = 0
  /\ crlQueue' = 0
  /\ held' = [a \in Analyses |-> FALSE]
  /\ queued' = [a \in Analyses |-> FALSE]
  /\ done' = [a \in Analyses |-> FALSE]
  /\ running' = {}
  /\ opens' = [a \in Analyses |-> 0]
  /\ hung' = [a \in Analyses |-> FALSE]

Compute(a) ==
  \/ OpenInput(a) \/ OpenNext(a) \/ CloseCRL(a) \/ Finish(a)
  \/ PassSmall(a) \/ TryGate(a) \/ TryQueue(a) \/ GiveSlot(a)
  \/ TrySlot(a) \/ DropGate(a) \/ LeaveQueue(a)

Acquire(a) == TakeSlot(a) \/ TakeGate(a) \/ RetakeSlot(a) \/ RetakeGate(a)

Next ==
  \/ \E a \in Analyses : \/ Arrive(a) \/ ContextEnds(a) \/ Hang(a) \/ Refuse(a)
                         \/ Compute(a) \/ Acquire(a) \/ GiveUp(a)
  \/ Watchdog

Spec == Init /\ [][Next]_vars

(***************************************************************************)
(* A goroutine that is not blocked runs; a goroutine blocked on a channel  *)
(* is woken in FIFO order by the Go runtime, so it is not overtaken for    *)
(* ever (strong fairness); the watchdog ticks.  Neither the client leaving *)
(* nor the deadline is assumed to come to the rescue.                      *)
(***************************************************************************)
FairSpec ==
  /\ Spec
  /\ \A a \in Analyses : WF_vars(Compute(a)) /\ SF_vars(Acquire(a))
  /\ WF_vars(Watchdog)

-----------------------------------------------------------------------------
(***************************************************************************)
(* Properties                                                              *)
(***************************************************************************)

\* The tokens in slots are exactly those of the analyses whose slotHold says
\* held: the slot lent in acquireCRLMemory is returned once, never twice by
\* the release function of guardAnalysis and never after another took it.
SlotAccounting == slots = Cardinality({a \in Analyses : held[a]})

\* Whoever computes owns a slot: an analysis without one is waiting, or its
\* context has ended and it only unwinds ("it holds one of NumCPU slots").
WorksOnSlot ==
  \A a \in Analyses :
    pc[a] \in {"start", "open", "queue", "parse"} \/ (pc[a] = "run" /\ ~done[a])
      => held[a]

\* Big CRLs are parsed one at a time: the gate's token belongs to exactly one
\* analysis between taking it and closing the CRL or giving it back.
OneBigCRL == bigCRL = Cardinality({a \in Analyses : pc[a] \in GateHolder})

\* Analyses that may hold a raw CRL: admitted, and not unwinding after an
\* acquireCRLMemory that failed.
RawHolders ==
  {a \in Analyses : /\ pc[a] \notin {"idle", "slot", "leftErr"}
                    /\ pc[a] = "run" => held[a]}

\* "raw CRLs held in memory stay bounded by slots plus that queue": a slot is
\* lent by no more than bigCRLQueue analyses at a time, however the lenders, the
\* borrowers and the cancelled take turns.
RawCRLBound ==
  /\ Cardinality({a \in RawHolders : ~held[a]}) <= BigCRLQueue
  /\ Cardinality(RawHolders) <= NumCPU + BigCRLQueue

\* Slots and gate cannot be waited for in a circle: an analysis that has
\* entered acquireCRLMemory leaves it, even if no context ever ends.
AcquireReturns ==
  \A a \in Analyses :
    (pc[a] \in {"queue", "give", "gate", "try", "drop", "reslot", "regate",
                "leftOK", "leftErr"}) ~> (pc[a] \in {"parse", "run", "idle"})

\* The way out of a hang inside C code: a hung analysis never keeps its slot
\* and the gate for ever, the watchdog ends the process.
HangIsRestarted == \A a \in Analyses : hung[a] ~> ~hung[a]
=============================================================================
