------------------------ MODULE AnalysisGuardProofs ------------------------
(***************************************************************************)
(* Safety of AnalysisGuard for any number of requests, slots and queue     *)
(* places.  The invariants of the module are not inductive by themselves:  *)
(* that a token is returned once depends on where each analysis stands,    *)
(* which Ownership records.                                                *)
(***************************************************************************)
EXTENDS AnalysisGuard, FiniteSetTheorems, TLAPS

Holders == {a \in Analyses : held[a]}
Gaters  == {a \in Analyses : pc[a] \in GateHolder}
Queuers == {a \in Analyses : queued[a]}

\* The places of crlQueue belong to the analyses that registered the defer.
QueueAccounting == crlQueue = Cardinality(Queuers)

\* What an analysis owns at each statement.
OwnershipOf(a) ==
  /\ pc[a] \in {"idle", "slot"} => ~held[a] /\ ~queued[a]
  /\ pc[a] \in {"start", "open", "queue", "parse"} => held[a] /\ ~queued[a]
  /\ pc[a] = "give" => held[a] /\ queued[a]
  /\ pc[a] = "gate" => (queued[a] <=> ~held[a])
  /\ pc[a] \in {"try", "drop", "reslot"} => ~held[a] /\ queued[a]
  /\ pc[a] \in {"regate", "leftOK"} => held[a] /\ queued[a]
  /\ pc[a] = "leftErr" => queued[a] /\ done[a]
  /\ pc[a] = "run" => ~queued[a] /\ (held[a] \/ done[a])

Ownership == \A a \in Analyses : OwnershipOf(a)

IndInv == TypeOK /\ SlotAccounting /\ OneBigCRL /\ QueueAccounting /\ Ownership

-----------------------------------------------------------------------------

\* A set of analyses that gains or loses one member grows or shrinks by one.
LEMMA Counting ==
  ASSUME NEW X \in SUBSET Analyses, NEW a \in Analyses
  PROVE  /\ Cardinality(X) \in Nat
         /\ a \notin X => Cardinality(X \cup {a}) = Cardinality(X) + 1
         /\ a \in X => /\ Cardinality(X \ {a}) = Cardinality(X) - 1
                       /\ Cardinality(X) > 0
<1>1. IsFiniteSet(X)
  BY FS_Subset, AnalysesAssumption
<1>2. Cardinality(X) \in Nat
  BY <1>1, FS_CardinalityType
<1>3. a \notin X => Cardinality(X \cup {a}) = Cardinality(X) + 1
  BY <1>1, FS_AddElement
<1>4. a \in X => Cardinality(X \ {a}) = Cardinality(X) - 1
  BY <1>1, FS_RemoveElement
<1>5. a \in X => Cardinality(X) # 0
  BY <1>1, FS_EmptySet
<1> QED
  BY <1>2, <1>3, <1>4, <1>5

\* The counters are the sizes of the three sets of owners.
LEMMA Sets ==
  /\ SlotAccounting <=> slots = Cardinality(Holders)
  /\ OneBigCRL <=> bigCRL = Cardinality(Gaters)
BY DEF SlotAccounting, OneBigCRL, Holders, Gaters

LEMMA InitIndInv == Init => IndInv
<1> SUFFICES ASSUME Init PROVE IndInv
  OBVIOUS
<1>1. TypeOK
  BY NumCPUAssumption, BigCRLQueueAssumption, MaxOpensAssumption
     DEF Init, TypeOK, Locations
<1>2. Holders = {} /\ Gaters = {} /\ Queuers = {}
  BY DEF Init, Holders, Gaters, Queuers, GateHolder
<1>3. SlotAccounting /\ OneBigCRL /\ QueueAccounting
  BY <1>2, Sets, FS_EmptySet DEF Init, QueueAccounting
<1>4. Ownership
  BY DEF Init, Ownership, OwnershipOf
<1> QED
  BY <1>1, <1>3, <1>4 DEF IndInv

-----------------------------------------------------------------------------
(***************************************************************************)
(* One step of one analysis, concern by concern.                           *)
(***************************************************************************)

Step(a) ==
  \/ Arrive(a) \/ ContextEnds(a) \/ Hang(a) \/ Refuse(a)
  \/ Compute(a) \/ Acquire(a) \/ GiveUp(a)

\* Each step leaves an analysis owning what its next statement assumes.
LEMMA OwnershipStep ==
  ASSUME IndInv, NEW a \in Analyses, Step(a)
  PROVE  Ownership'
<1> SUFFICES ASSUME NEW b \in Analyses PROVE OwnershipOf(b)'
  BY DEF Ownership
<1> USE DEF At, Goto
<1>1. OwnershipOf(a) /\ OwnershipOf(b)
  BY DEF IndInv, Ownership
<1>2. /\ pc \in [Analyses -> Locations]
      /\ held \in [Analyses -> BOOLEAN]
      /\ queued \in [Analyses -> BOOLEAN]
      /\ done \in [Analyses -> BOOLEAN]
  BY DEF IndInv, TypeOK
<1>3. CASE Arrive(a) \/ ContextEnds(a) \/ Hang(a) \/ Refuse(a)
  BY <1>1, <1>2, <1>3 DEF OwnershipOf, Arrive, ContextEnds, Hang, Refuse
<1>4. CASE OpenInput(a) \/ OpenNext(a) \/ CloseCRL(a) \/ Finish(a)
  BY <1>1, <1>2, <1>4
     DEF OwnershipOf, OpenInput, OpenNext, CloseCRL, Finish, ContextChecked
<1>5. CASE PassSmall(a) \/ TryGate(a) \/ TryQueue(a) \/ GiveSlot(a)
  BY <1>1, <1>2, <1>5
     DEF OwnershipOf, PassSmall, TryGate, TryQueue, GiveSlot, KeepSlot
<1>6. CASE TrySlot(a) \/ DropGate(a) \/ LeaveQueue(a)
  BY <1>1, <1>2, <1>6 DEF OwnershipOf, TrySlot, DropGate, LeaveQueue
<1>7. CASE Acquire(a)
  BY <1>1, <1>2, <1>7
     DEF OwnershipOf, Acquire, TakeSlot, TakeGate, RetakeSlot, RetakeGate
<1>8. CASE GiveUp(a)
  BY <1>1, <1>2, <1>8 DEF OwnershipOf, GiveUp
<1> QED
  BY <1>3, <1>4, <1>5, <1>6, <1>7, <1>8 DEF Step, Compute

\* A slot token appears and disappears with the held flag of its analysis.
LEMMA SlotStep ==
  ASSUME IndInv, NEW a \in Analyses, Step(a)
  PROVE  slots' \in 0..NumCPU /\ SlotAccounting'
<1> USE DEF At, Goto
<1>1. /\ OwnershipOf(a)
      /\ slots = Cardinality(Holders)
      /\ slots \in 0..NumCPU
      /\ held \in [Analyses -> BOOLEAN]
      /\ Holders \in SUBSET Analyses
  BY Sets DEF IndInv, Ownership, TypeOK, Holders
<1>2. SlotAccounting' <=> slots' = Cardinality(Holders')
  BY DEF SlotAccounting, Holders
<1>3. CASE TakeSlot(a) \/ RetakeSlot(a) \/ (TrySlot(a) /\ slots < NumCPU)
  <2>1. /\ slots < NumCPU /\ slots' = slots + 1
        /\ ~held[a] /\ held' = [held EXCEPT ![a] = TRUE]
    BY <1>1, <1>3 DEF TakeSlot, RetakeSlot, TrySlot, SlotFree, OwnershipOf
  <2>2. a \notin Holders /\ Holders' = Holders \cup {a}
    BY <1>1, <2>1 DEF Holders
  <2> QED
    BY <1>1, <1>2, <2>1, <2>2, Counting, NumCPUAssumption
<1>4. CASE GiveSlot(a) \/ (Finish(a) /\ held[a])
  <2>1. /\ slots' = slots - 1
        /\ held[a] /\ held' = [held EXCEPT ![a] = FALSE]
    BY <1>1, <1>4 DEF GiveSlot, Finish, OwnsSlot, OwnershipOf
  <2>2. a \in Holders /\ Holders' = Holders \ {a}
    BY <1>1, <2>1 DEF Holders
  <2> QED
    BY <1>1, <1>2, <2>1, <2>2, Counting, NumCPUAssumption
<1>5. CASE UNCHANGED <<slots, held>>
  BY <1>1, <1>2, <1>5 DEF Holders
<1>6. CASE Finish(a) /\ ~held[a]
  <2>1. slots' = slots /\ held' = held
    BY <1>1, <1>6 DEF Finish, OwnsSlot
  <2> QED
    BY <1>1, <1>2, <2>1 DEF Holders
<1>7. \/ TakeSlot(a) \/ RetakeSlot(a) \/ TrySlot(a) \/ GiveSlot(a) \/ Finish(a)
      \/ UNCHANGED <<slots, held>>
  BY DEF Step, Compute, Acquire, Arrive, ContextEnds, Hang, Refuse, OpenInput,
         OpenNext, CloseCRL, PassSmall, TryGate, TryQueue, DropGate,
         LeaveQueue, TakeGate, RetakeGate, GiveUp
<1>8. TrySlot(a) => slots < NumCPU \/ UNCHANGED <<slots, held>>
  BY DEF TrySlot, SlotFree
<1> QED
  BY <1>3, <1>4, <1>5, <1>6, <1>7, <1>8

\* The gate's token appears and disappears as analyses enter and leave the
\* statements that hold it.
LEMMA GateStep ==
  ASSUME IndInv, NEW a \in Analyses, Step(a)
  PROVE  bigCRL' \in 0..1 /\ OneBigCRL'
<1> USE DEF At, Goto
<1>1. /\ bigCRL = Cardinality(Gaters)
      /\ bigCRL \in 0..1
      /\ pc \in [Analyses -> Locations]
      /\ Gaters \in SUBSET Analyses
  BY Sets DEF IndInv, TypeOK, Gaters
<1>2. OneBigCRL' <=> bigCRL' = Cardinality(Gaters')
  BY DEF OneBigCRL, Gaters
<1>3. ASSUME bigCRL = 0, bigCRL' = 1, pc[a] \notin GateHolder,
             NEW l \in GateHolder, pc' = [pc EXCEPT ![a] = l]
      PROVE  bigCRL' \in 0..1 /\ OneBigCRL'
  <2>1. a \notin Gaters /\ Gaters' = Gaters \cup {a}
    BY <1>1, <1>3 DEF Gaters
  <2>2. Cardinality(Gaters') = bigCRL + 1
    BY <1>1, <2>1, Counting
  <2> QED
    BY <1>2, <1>3, <2>2
<1>4. ASSUME bigCRL' = bigCRL - 1, pc[a] \in GateHolder,
             NEW l, l \notin GateHolder, pc' = [pc EXCEPT ![a] = l]
      PROVE  bigCRL' \in 0..1 /\ OneBigCRL'
  <2>1. a \in Gaters /\ Gaters' = Gaters \ {a}
    BY <1>1, <1>4 DEF Gaters
  <2>2. Cardinality(Gaters) > 0 /\ Cardinality(Gaters') = Cardinality(Gaters) - 1
    BY <1>1, <2>1, Counting
  <2> QED
    BY <1>1, <1>2, <1>4, <2>2
<1>5. ASSUME bigCRL' = bigCRL, NEW l, pc' = [pc EXCEPT ![a] = l],
             l \in GateHolder <=> pc[a] \in GateHolder
      PROVE  bigCRL' \in 0..1 /\ OneBigCRL'
  <2>1. Gaters' = Gaters
    BY <1>1, <1>5 DEF Gaters
  <2> QED
    BY <1>1, <1>2, <1>5, <2>1
<1>6. CASE UNCHANGED <<bigCRL, pc>>
  BY <1>1, <1>2, <1>6 DEF Gaters
<1>7. CASE ContextEnds(a) \/ Hang(a)
  BY <1>6, <1>7 DEF ContextEnds, Hang
<1>8. CASE TryGate(a) \/ TakeGate(a) \/ RetakeGate(a)
  BY <1>3, <1>5, <1>8 DEF TryGate, TakeGate, RetakeGate, GateHolder
<1>9. CASE CloseCRL(a) \/ DropGate(a)
  BY <1>4, <1>9 DEF CloseCRL, DropGate, GateHolder
<1>10. CASE Arrive(a) \/ Refuse(a) \/ OpenInput(a) \/ OpenNext(a) \/ Finish(a)
  BY <1>5, <1>10 DEF Arrive, Refuse, OpenInput, OpenNext, Finish, GateHolder
<1>11. CASE PassSmall(a) \/ TryQueue(a) \/ GiveSlot(a) \/ LeaveQueue(a)
  BY <1>5, <1>11 DEF PassSmall, TryQueue, GiveSlot, LeaveQueue, KeepSlot, GateHolder
<1>12. CASE TrySlot(a) \/ TakeSlot(a) \/ RetakeSlot(a) \/ GiveUp(a)
  BY <1>5, <1>12 DEF TrySlot, TakeSlot, RetakeSlot, GiveUp, GateHolder
<1> QED
  BY <1>7, <1>8, <1>9, <1>10, <1>11, <1>12 DEF Step, Compute, Acquire

\* A queue place is taken with the defer and returned by it.
LEMMA QueueStep ==
  ASSUME IndInv, NEW a \in Analyses, Step(a)
  PROVE  crlQueue' \in 0..BigCRLQueue /\ QueueAccounting'
<1> USE DEF At, Goto
<1>1. /\ OwnershipOf(a)
      /\ crlQueue = Cardinality(Queuers)
      /\ crlQueue \in 0..BigCRLQueue
      /\ queued \in [Analyses -> BOOLEAN]
      /\ Queuers \in SUBSET Analyses
  BY DEF IndInv, Ownership, TypeOK, Queuers, QueueAccounting
<1>2. CASE UNCHANGED <<crlQueue, queued>>
  BY <1>1, <1>2 DEF Queuers, QueueAccounting
<1>3. CASE TryQueue(a) /\ crlQueue < BigCRLQueue
  <2>1. /\ crlQueue' = crlQueue + 1
        /\ ~queued[a] /\ queued' = [queued EXCEPT ![a] = TRUE]
    BY <1>1, <1>3 DEF TryQueue, OwnershipOf
  <2>2. a \notin Queuers /\ Queuers' = Queuers \cup {a}
    BY <1>1, <2>1 DEF Queuers
  <2> QED
    BY <1>1, <1>3, <2>1, <2>2, Counting, BigCRLQueueAssumption DEF QueueAccounting
<1>4. CASE LeaveQueue(a)
  <2>1. /\ crlQueue' = crlQueue - 1
        /\ queued[a] /\ queued' = [queued EXCEPT ![a] = FALSE]
    BY <1>1, <1>4 DEF LeaveQueue, OwnershipOf
  <2>2. a \in Queuers /\ Queuers' = Queuers \ {a}
    BY <1>1, <2>1 DEF Queuers
  <2>3. /\ Cardinality(Queuers) > 0
        /\ Cardinality(Queuers') = Cardinality(Queuers) - 1
    BY <1>1, <2>2, Counting
  <2> QED
    BY <1>1, <2>1, <2>3, BigCRLQueueAssumption DEF QueueAccounting
<1>5. TryQueue(a) \/ LeaveQueue(a) \/ UNCHANGED <<crlQueue, queued>>
  BY DEF Step, Compute, Acquire, Arrive, ContextEnds, Hang, Refuse, OpenInput,
         OpenNext, CloseCRL, Finish, PassSmall, TryGate, GiveSlot, TrySlot,
         DropGate, TakeSlot, RetakeSlot, TakeGate, RetakeGate, GiveUp
<1>6. TryQueue(a) => crlQueue < BigCRLQueue \/ UNCHANGED <<crlQueue, queued>>
  BY DEF TryQueue
<1> QED
  BY <1>2, <1>3, <1>4, <1>5, <1>6

-----------------------------------------------------------------------------

\* The remaining conjuncts of the type invariant.
LEMMA TypeStep ==
  ASSUME IndInv, NEW a \in Analyses, Step(a)
  PROVE  TypeOK'
<1> USE DEF At, Goto
<1>1. /\ slots' \in 0..NumCPU
      /\ bigCRL' \in 0..1
      /\ crlQueue' \in 0..BigCRLQueue
  BY SlotStep, GateStep, QueueStep
<1>2. TypeOK
  BY DEF IndInv
<1>3. pc' \in [Analyses -> Locations]
  <2>1. \/ pc' = pc
        \/ \E l \in Locations : pc' = [pc EXCEPT ![a] = l]
    BY DEF Step, Compute, Acquire, Arrive, ContextEnds, Hang, Refuse, OpenInput,
           OpenNext, CloseCRL, Finish, PassSmall, TryGate, TryQueue, KeepSlot,
           GiveSlot, TrySlot, DropGate, LeaveQueue, TakeSlot, RetakeSlot,
           TakeGate, RetakeGate, GiveUp, Locations, GateHolder
  <2> QED
    BY <1>2, <2>1 DEF TypeOK
<1>4. /\ held' \in [Analyses -> BOOLEAN]
      /\ queued' \in [Analyses -> BOOLEAN]
      /\ done' \in [Analyses -> BOOLEAN]
      /\ hung' \in [Analyses -> BOOLEAN]
      /\ running' \in SUBSET Analyses
  BY <1>2
     DEF TypeOK, Step, Compute, Acquire, Arrive, ContextEnds, Hang, Refuse,
         OpenInput, OpenNext, CloseCRL, Finish, PassSmall, TryGate, TryQueue,
         GiveSlot, TrySlot, DropGate, LeaveQueue, TakeSlot, RetakeSlot,
         TakeGate, RetakeGate, GiveUp
<1>5. opens' \in [Analyses -> 0..MaxOpens]
  <2>1. \/ opens' = opens
        \/ opens' = [opens EXCEPT ![a] = 0]
        \/ opens[a] < MaxOpens /\ opens' = [opens EXCEPT ![a] = @ + 1]
    BY DEF Step, Compute, Acquire, Arrive, ContextEnds, Hang, Refuse, OpenInput,
           OpenNext, CloseCRL, Finish, PassSmall, TryGate, TryQueue, GiveSlot,
           TrySlot, DropGate, LeaveQueue, TakeSlot, RetakeSlot, TakeGate,
           RetakeGate, GiveUp
  <2> QED
    BY <1>2, <2>1, MaxOpensAssumption DEF TypeOK
<1> QED
  BY <1>1, <1>3, <1>4, <1>5 DEF TypeOK

\* A restart by the watchdog is a fresh process.
LEMMA RestartIndInv ==
  ASSUME Watchdog
  PROVE  IndInv'
<1>1. TypeOK'
  BY NumCPUAssumption, BigCRLQueueAssumption, MaxOpensAssumption
     DEF Watchdog, TypeOK, Locations
<1>2. Holders' = {} /\ Gaters' = {} /\ Queuers' = {}
  BY DEF Watchdog, Holders, Gaters, Queuers, GateHolder
<1>3. slots' = Cardinality(Holders') /\ bigCRL' = Cardinality(Gaters')
      /\ crlQueue' = Cardinality(Queuers')
  BY <1>2, FS_EmptySet DEF Watchdog
<1>4. Ownership'
  BY DEF Watchdog, Ownership, OwnershipOf
<1> QED
  BY <1>1, <1>3, <1>4
     DEF IndInv, SlotAccounting, OneBigCRL, QueueAccounting, Holders, Gaters

LEMMA NextIndInv == IndInv /\ [Next]_vars => IndInv'
<1> SUFFICES ASSUME IndInv, [Next]_vars PROVE IndInv'
  OBVIOUS
<1>1. ASSUME NEW a \in Analyses, Step(a) PROVE IndInv'
  BY <1>1, OwnershipStep, SlotStep, GateStep, QueueStep, TypeStep DEF IndInv
<1>2. CASE Watchdog
  BY <1>2, RestartIndInv
<1>3. CASE UNCHANGED vars
  BY <1>3 DEF vars, IndInv, TypeOK, SlotAccounting, OneBigCRL, QueueAccounting,
              Ownership, OwnershipOf, Queuers
<1> QED
  BY <1>1, <1>2, <1>3 DEF Next, Step

LEMMA Invariance == Spec => []IndInv
BY InitIndInv, NextIndInv, PTL DEF Spec

-----------------------------------------------------------------------------

\* Type correctness: no channel overflows its capacity or goes below zero.
THEOREM TypeCorrect == Spec => []TypeOK
<1>1. IndInv => TypeOK
  BY DEF IndInv
<1> QED
  BY <1>1, Invariance, PTL

\* Lending and retaking slots in acquireCRLMemory never duplicates or loses a
\* token, whatever the order of cancellations.
THEOREM TokensAccounted == Spec => []SlotAccounting
<1>1. IndInv => SlotAccounting
  BY DEF IndInv
<1> QED
  BY <1>1, Invariance, PTL

\* The gate of acquireCRLMemory admits one big CRL at a time, through every
\* taking, dropping and retaking of it.
THEOREM BigCRLsInTurn == Spec => []OneBigCRL
<1>1. IndInv => OneBigCRL
  BY DEF IndInv
<1> QED
  BY <1>1, Invariance, PTL

\* No analysis computes without a slot, although it may have lent its own.
THEOREM NoWorkWithoutSlot == Spec => []WorksOnSlot
<1>1. IndInv => WorksOnSlot
  BY DEF IndInv, Ownership, OwnershipOf, WorksOnSlot
<1> QED
  BY <1>1, Invariance, PTL

\* Those who hold a raw CRL without a slot are members of the queue; so all who
\* hold one number at most slots plus queue.
THEOREM RawCRLsBounded == Spec => []RawCRLBound
<1>1. ASSUME IndInv PROVE RawCRLBound
  <2>1. RawHolders \subseteq Holders \cup Queuers
    BY <1>1 DEF IndInv, TypeOK, Locations, GateHolder, Ownership, OwnershipOf,
                RawHolders, Holders, Queuers
  <2>2. IsFiniteSet(Holders) /\ IsFiniteSet(Queuers)
    BY AnalysesAssumption, FS_Subset DEF Holders, Queuers
  <2>3. /\ IsFiniteSet(Holders \cup Queuers)
        /\ Cardinality(Holders \cup Queuers) =
             Cardinality(Holders) + Cardinality(Queuers)
               - Cardinality(Holders \cap Queuers)
    BY <2>2, FS_Union
  <2>4. Cardinality(Holders \cap Queuers) \in Nat
    <3>1. IsFiniteSet(Holders \cap Queuers)
      BY <2>2, FS_Intersection
    <3> QED
      BY <3>1, FS_CardinalityType
  <2>5. Cardinality(RawHolders) <= Cardinality(Holders \cup Queuers)
    BY <2>1, <2>3, FS_Subset
  <2>6. Cardinality(RawHolders) \in Nat
    BY <2>1, <2>3, FS_Subset, FS_CardinalityType
  <2>7. /\ Cardinality(Holders) \in 0..NumCPU
        /\ Cardinality(Queuers) \in 0..BigCRLQueue
    BY <1>1, Sets DEF IndInv, TypeOK, QueueAccounting
  <2>8. {a \in RawHolders : ~held[a]} \subseteq Queuers
    BY <2>1 DEF Holders, RawHolders
  <2>9. /\ Cardinality({a \in RawHolders : ~held[a]}) <= Cardinality(Queuers)
        /\ IsFiniteSet({a \in RawHolders : ~held[a]})
    BY <2>8, <2>2, FS_Subset
  <2>10. Cardinality({a \in RawHolders : ~held[a]}) \in Nat
    BY <2>9, FS_CardinalityType
  <2> QED
    BY <2>3, <2>4, <2>5, <2>6, <2>7, <2>9, <2>10, NumCPUAssumption, BigCRLQueueAssumption
       DEF RawCRLBound
<1> QED
  BY <1>1, Invariance, PTL
=============================================================================
