------------------------ MODULE TemplateRefillProofs ------------------------
(***************************************************************************)
(* No wake-up of a start that waits for the pool is lost, for any number   *)
(* of starts, refills and askers.  NoLostWakeup is not inductive by        *)
(* itself: a start parks because it read a count that is not zero, so that *)
(* the count must be that of the refills that are still to end, and a      *)
(* notification reaches only starts that have subscribed.                  *)
(***************************************************************************)
EXTENDS TemplateRefill, FiniteSetTheorems, TLAPS

\* A parked start has subscribed.
ParkedWaits == \A s \in Starts : start[s].pc = "parked" => start[s].waiting

RefillInv == RefillTypeOK /\ InFlightExact /\ ParkedWaits /\ NoLostWakeup

\* The refills that are counted are finitely many.
LEMMA CountedFinite == Counted \in SUBSET Refills /\ IsFiniteSet(Counted)
<1>1. Counted \subseteq Refills
  BY DEF Counted
<1>. QED
  BY <1>1, RefillConstants, FS_Subset

\* The invariant holds when the pool is loaded.
LEMMA RefillStarts == RefillInit => RefillInv
<1>. SUFFICES ASSUME RefillInit PROVE RefillInv
  OBVIOUS
<1>1. RefillTypeOK
  BY RefillConstants
  DEF RefillInit, RefillTypeOK, IdleStart, IdleAsker, StartPcs, RefillPcs
<1>2. Counted = {}
  BY DEF RefillInit, Counted
<1>3. InFlightExact
  BY <1>2, FS_EmptySet DEF RefillInit, InFlightExact
<1>4. ParkedWaits /\ NoLostWakeup
  BY DEF RefillInit, IdleStart, ParkedWaits, NoLostWakeup
<1>. QED
  BY <1>1, <1>3, <1>4 DEF RefillInv

\* The steps of a start leave the refills alone; it parks only when the count is not
\* zero, and then a refill is still to end.
LEMMA StartKeeps ==
  ASSUME RefillInv, NEW s \in Starts,
         StartLooks(s) \/ StartProceeds(s) \/ Timeout(s)
  PROVE  RefillInv'
<1>. USE DEF RefillInv
<1>1. UNCHANGED <<depth, inFlight, refill, asker>>
  BY DEF StartLooks, StartProceeds, Look, Take, CountRefills, Subscribe, Wake, Timeout
<1>2. PICK x \in [pc : StartPcs, waiting : BOOLEAN, changed : BOOLEAN] :
        /\ start' = [start EXCEPT ![s] = x]
        /\ x.pc = "parked" => x.waiting /\ inFlight > 0
  <2>1. start[s] \in [pc : StartPcs, waiting : BOOLEAN, changed : BOOLEAN]
    BY DEF RefillTypeOK
  <2>2. CASE CountRefills(s)
    <3>1. CASE inFlight = 0
      BY <2>1, <2>2, <3>1 DEF CountRefills, StartReturns, IdleStart, StartPcs
    <3>2. CASE inFlight # 0
      <4>. DEFINE y == [start[s] EXCEPT !.pc = IF start[s].waiting THEN "parked" ELSE "subscribe"]
      <4>1. start' = [start EXCEPT ![s] = y]
        BY <2>1, <2>2, <3>2 DEF CountRefills, StartGoto, RefillTypeOK
      <4>2. y \in [pc : StartPcs, waiting : BOOLEAN, changed : BOOLEAN]
        BY <2>1 DEF StartPcs
      <4>3. y.pc = "parked" => y.waiting /\ inFlight > 0
        BY <2>1, <3>2 DEF RefillTypeOK
      <4>. QED
        BY <4>1, <4>2, <4>3
    <3>. QED
      BY <3>1, <3>2
  <2>3. CASE StartLooks(s) \/ Look(s) \/ (Take(s) /\ ~(depth > 0))
    <3>1. PICK pc \in {"look", "take", "count"} : start' = [start EXCEPT ![s].pc = pc]
      BY <2>3 DEF StartLooks, Look, Take, StartGoto
    <3>. DEFINE y == [start[s] EXCEPT !.pc = pc]
    <3>2. start' = [start EXCEPT ![s] = y]
      BY <3>1 DEF RefillTypeOK
    <3>3. y \in [pc : StartPcs, waiting : BOOLEAN, changed : BOOLEAN] /\ y.pc # "parked"
      BY <2>1 DEF StartPcs
    <3>. QED
      BY <3>2, <3>3
  <2>4. CASE (Take(s) /\ depth > 0) \/ Timeout(s)
    <3>1. start' = [start EXCEPT ![s] = IdleStart]
      BY <2>4 DEF Take, Timeout, StartReturns
    <3>2. /\ IdleStart \in [pc : StartPcs, waiting : BOOLEAN, changed : BOOLEAN]
          /\ IdleStart.pc # "parked"
      BY DEF IdleStart, StartPcs
    <3>. QED
      BY <3>1, <3>2
  <2>5. CASE Subscribe(s)
    <3>. DEFINE y == [pc |-> "look", waiting |-> TRUE, changed |-> FALSE]
    <3>1. start' = [start EXCEPT ![s] = y]
      BY <2>5 DEF Subscribe
    <3>2. y \in [pc : StartPcs, waiting : BOOLEAN, changed : BOOLEAN] /\ y.pc # "parked"
      BY DEF StartPcs
    <3>. QED
      BY <3>1, <3>2
  <2>6. CASE Wake(s)
    <3>. DEFINE y == [start[s] EXCEPT !.pc = "look", !.changed = FALSE]
    <3>1. start' = [start EXCEPT ![s] = y]
      BY <2>1, <2>6 DEF Wake, RefillTypeOK
    <3>2. y \in [pc : StartPcs, waiting : BOOLEAN, changed : BOOLEAN] /\ y.pc # "parked"
      BY <2>1 DEF StartPcs
    <3>. QED
      BY <3>1, <3>2
  <2>. QED
    BY <2>2, <2>3, <2>4, <2>5, <2>6 DEF StartProceeds
<1>3. RefillTypeOK'
  BY <1>1, <1>2 DEF RefillTypeOK
<1>4. Counted' = Counted /\ InFlightExact'
  BY <1>1 DEF Counted, InFlightExact
<1>5. ParkedWaits'
  BY <1>2 DEF ParkedWaits, RefillTypeOK
<1>6. inFlight > 0 => \E r \in Refills : refill[r] # "none"
  <2>1. ASSUME inFlight > 0 PROVE Counted # {}
    BY <2>1, FS_EmptySet DEF InFlightExact
  <2>. QED
    BY <2>1 DEF Counted
<1>7. NoLostWakeup'
  BY <1>1, <1>2, <1>6 DEF NoLostWakeup, RefillTypeOK
<1>. QED
  BY <1>3, <1>4, <1>5, <1>7

\* After a notification every start that has subscribed has something to see.
LEMMA Notified ==
  ASSUME RefillInv, SendModify
  PROVE  /\ start' \in [Starts -> [pc : StartPcs, waiting : BOOLEAN, changed : BOOLEAN]]
         /\ ParkedWaits'
         /\ \A s \in Starts : start'[s].pc = "parked" => start'[s].changed
<1>. USE DEF RefillInv
<1>1. ASSUME NEW s \in Starts
      PROVE  /\ start'[s] \in [pc : StartPcs, waiting : BOOLEAN, changed : BOOLEAN]
             /\ start'[s].pc = start[s].pc /\ start'[s].waiting = start[s].waiting
             /\ start[s].waiting => start'[s].changed
  <2>1. start[s] \in [pc : StartPcs, waiting : BOOLEAN, changed : BOOLEAN]
    BY DEF RefillTypeOK
  <2>2. start'[s] = [start[s] EXCEPT !.changed = start[s].changed \/ start[s].waiting]
    BY DEF SendModify
  <2>. QED
    BY <2>1, <2>2
<1>2. start' = [s \in Starts |-> start'[s]]
  BY DEF SendModify
<1>. QED
  BY <1>1, <1>2 DEF ParkedWaits

\* A refill is uncounted before it notifies, and is gone only after.
LEMMA RefillKeeps ==
  ASSUME RefillInv, NEW r \in Refills, RefillProceeds(r)
  PROVE  RefillInv'
<1>. USE DEF RefillInv
<1>1. refill \in [Refills -> RefillPcs] /\ depth \in Nat /\ inFlight \in Nat
  BY DEF RefillTypeOK
<1>2. CASE WorkerFails(r) \/ AddMakesRoom(r) \/ AddPushes(r)
  <2>1. PICK pc \in {"end", "push", "ready"} : refill' = [refill EXCEPT ![r] = pc]
    BY <1>2 DEF WorkerFails, AddMakesRoom, AddPushes, RefillGoto
  <2>2. refill[r] \in {"working", "push"} /\ UNCHANGED <<inFlight, start, asker>>
    BY <1>2 DEF WorkerFails, AddMakesRoom, AddPushes
  <2>3. depth' \in Nat
    BY <1>1, <1>2, RefillConstants DEF WorkerFails, AddMakesRoom, AddPushes
  <2>4. Counted' = Counted
    BY <1>1, <2>1, <2>2 DEF Counted
  <2>5. RefillTypeOK' /\ InFlightExact'
    BY <1>1, <2>1, <2>2, <2>3, <2>4 DEF RefillTypeOK, InFlightExact, RefillPcs
  <2>6. ParkedWaits' /\ NoLostWakeup'
    BY <1>1, <2>1, <2>2 DEF ParkedWaits, NoLostWakeup
  <2>. QED
    BY <2>5, <2>6
<1>3. CASE AddNotifies(r)
  <2>1. /\ refill' = [refill EXCEPT ![r] = "end"] /\ refill[r] = "ready"
        /\ UNCHANGED <<depth, inFlight, asker>> /\ SendModify
    BY <1>3 DEF AddNotifies, RefillGoto
  <2>2. Counted' = Counted
    BY <1>1, <2>1 DEF Counted
  <2>3. RefillTypeOK' /\ InFlightExact'
    BY <1>1, <2>1, <2>2, Notified DEF RefillTypeOK, InFlightExact, RefillPcs
  <2>4. ParkedWaits' /\ NoLostWakeup'
    BY <2>1, Notified DEF NoLostWakeup
  <2>. QED
    BY <2>3, <2>4
<1>4. CASE EndRefill(r)
  <2>1. /\ refill' = [refill EXCEPT ![r] = "notify"] /\ refill[r] = "end"
        /\ UNCHANGED <<depth, start, asker>>
    BY <1>4 DEF EndRefill, RefillGoto
  <2>2. r \in Counted /\ Counted' = Counted \ {r}
    BY <1>1, <2>1 DEF Counted
  <2>3. Cardinality(Counted') = Cardinality(Counted) - 1
    BY <2>2, CountedFinite, FS_RemoveElement
  <2>4. Cardinality(Counted) \in Nat /\ Cardinality(Counted) > 0
    <3>1. Cardinality(Counted) \in Nat /\ (Cardinality(Counted) = 0 <=> Counted = {})
      BY CountedFinite, FS_CardinalityType, FS_EmptySet
    <3>. QED
      BY <3>1, <2>2
  <2>5. inFlight' = Cardinality(Counted')
    BY <1>4, <2>3, <2>4 DEF EndRefill, InFlightExact
  <2>6. RefillTypeOK' /\ InFlightExact'
    BY <1>1, <2>1, <2>3, <2>4, <2>5 DEF RefillTypeOK, InFlightExact, RefillPcs
  <2>7. ParkedWaits' /\ NoLostWakeup'
    BY <1>1, <2>1 DEF ParkedWaits, NoLostWakeup
  <2>. QED
    BY <2>6, <2>7
<1>5. CASE EndNotifies(r)
  <2>1. /\ refill' = [refill EXCEPT ![r] = "none"] /\ refill[r] = "notify"
        /\ UNCHANGED <<depth, inFlight, asker>> /\ SendModify
    BY <1>5 DEF EndNotifies, RefillGoto
  <2>2. Counted' = Counted
    BY <1>1, <2>1 DEF Counted
  <2>3. RefillTypeOK' /\ InFlightExact'
    BY <1>1, <2>1, <2>2, Notified DEF RefillTypeOK, InFlightExact, RefillPcs
  <2>4. ParkedWaits' /\ NoLostWakeup'
    BY <2>1, Notified DEF NoLostWakeup
  <2>. QED
    BY <2>3, <2>4
<1>. QED
  BY <1>2, <1>3, <1>4, <1>5 DEF RefillProceeds

\* An asker counts a refill as it spawns it.
LEMMA AskerKeeps ==
  ASSUME RefillInv, NEW a \in Askers, AskerProceeds(a)
  PROVE  RefillInv'
<1>. USE DEF RefillInv
<1>1. /\ refill \in [Refills -> RefillPcs] /\ depth \in Nat /\ inFlight \in Nat
      /\ asker \in [Askers -> [pc : {"idle", "covered", "spawn"}, seen : Nat, need : Nat]]
  BY DEF RefillTypeOK
<1>2. CASE ReadDepth(a) \/ ReadInFlight(a) \/ AskerDone(a)
  <2>1. UNCHANGED <<depth, inFlight, start, refill>>
    BY <1>2 DEF ReadDepth, ReadInFlight, AskerDone
  <2>2. asker' \in [Askers -> [pc : {"idle", "covered", "spawn"}, seen : Nat, need : Nat]]
    BY <1>1, <1>2, RefillConstants DEF ReadDepth, ReadInFlight, AskerDone, IdleAsker
  <2>3. Counted' = Counted
    BY <2>1 DEF Counted
  <2>. QED
    BY <2>1, <2>2, <2>3 DEF RefillTypeOK, InFlightExact, ParkedWaits, NoLostWakeup
<1>3. CASE BeginRefill(a)
  <2>1. PICK r \in Refills : refill[r] = "none" /\ refill' = [refill EXCEPT ![r] = "working"]
    BY <1>3 DEF BeginRefill, RefillGoto
  <2>2. inFlight' = inFlight + 1 /\ UNCHANGED <<depth, start>>
    BY <1>3 DEF BeginRefill
  <2>3. asker' \in [Askers -> [pc : {"idle", "covered", "spawn"}, seen : Nat, need : Nat]]
    BY <1>1, <1>3 DEF BeginRefill
  <2>4. r \notin Counted /\ Counted' = Counted \cup {r}
    BY <1>1, <2>1 DEF Counted
  <2>5. Cardinality(Counted') = Cardinality(Counted) + 1
    BY <2>4, CountedFinite, FS_AddElement
  <2>6. RefillTypeOK' /\ InFlightExact'
    BY <1>1, <2>1, <2>2, <2>3, <2>5 DEF RefillTypeOK, InFlightExact, RefillPcs
  <2>7. ParkedWaits' /\ NoLostWakeup'
    BY <1>1, <2>1, <2>2 DEF ParkedWaits, NoLostWakeup
  <2>. QED
    BY <2>6, <2>7
<1>. QED
  BY <1>2, <1>3 DEF AskerProceeds

\* The invariant is kept by every step.
LEMMA RefillStep == RefillInv /\ [RefillNext]_refillVars => RefillInv'
<1>. SUFFICES ASSUME RefillInv, [RefillNext]_refillVars PROVE RefillInv'
  OBVIOUS
<1>1. CASE UNCHANGED refillVars
  BY <1>1 DEF refillVars, RefillInv, RefillTypeOK, InFlightExact, Counted, ParkedWaits, NoLostWakeup
<1>2. ASSUME NEW s \in Starts, StartLooks(s) \/ StartProceeds(s) \/ Timeout(s) PROVE RefillInv'
  BY <1>2, StartKeeps
<1>3. ASSUME NEW r \in Refills, RefillProceeds(r) PROVE RefillInv'
  BY <1>3, RefillKeeps
<1>4. ASSUME NEW a \in Askers, AskerProceeds(a) PROVE RefillInv'
  BY <1>4, AskerKeeps
<1>5. CASE Evicted
  <2>1. depth' \in Nat /\ UNCHANGED <<inFlight, start, refill, asker>>
    BY <1>5 DEF Evicted, RefillInv, RefillTypeOK
  <2>. QED
    BY <2>1 DEF RefillInv, RefillTypeOK, InFlightExact, Counted, ParkedWaits, NoLostWakeup
<1>6. CASE OtherAdd
  <2>1. SendModify /\ UNCHANGED <<depth, inFlight, refill, asker>>
    BY <1>6 DEF OtherAdd
  <2>2. RefillTypeOK' /\ InFlightExact'
    BY <2>1, Notified DEF RefillInv, RefillTypeOK, InFlightExact, Counted
  <2>3. ParkedWaits' /\ NoLostWakeup'
    BY <2>1, Notified DEF NoLostWakeup
  <2>. QED
    BY <2>2, <2>3 DEF RefillInv
<1>. QED
  BY <1>1, <1>2, <1>3, <1>4, <1>5, <1>6 DEF RefillNext

\* The count of the refills under way is exact (begin_refill and end_refill) and no
\* wake-up of a waiting start is lost (wait_and_acquire_for_restore).
THEOREM NeverForgotten == RefillSpec => [](InFlightExact /\ NoLostWakeup)
<1>1. RefillInv => InFlightExact /\ NoLostWakeup
  BY DEF RefillInv
<1>. QED
  BY <1>1, RefillStarts, RefillStep, PTL DEF RefillSpec
=============================================================================
