--------------------------- MODULE TemplateRefill ---------------------------
(***************************************************************************)
(* Keeping the template pool filled, and the starts that wait for it.      *)
(* Tasks that ask for refills (the maintenance loop and the admin request  *)
(* pool-refill) count the templates of the environment key and the refills *)
(* under way and spawn what is missing; each refill creates a template,    *)
(* adds it to the pool and reports its end whatever became of it.  A start *)
(* that finds the pool empty waits while a refill for its key is under     *)
(* way, woken by a tokio watch channel.                                    *)
(*                                                                         *)
(* The templates of the key are a number: which one is taken, pinned or    *)
(* evicted is the subject of TemplatePool.  The watch channel's version is *)
(* kept per receiver, as "there is a version it has not seen".             *)
(***************************************************************************)
EXTENDS Naturals, FiniteSets

CONSTANTS
  Starts,      \* tasks that start sandboxes from the pool
  Refills,     \* refill tasks that may run at a time (bounds the model)
  Askers,      \* tasks that ask for refills
  Target,      \* min_pool_depth, and target_depth of the request
  MaxPerKey    \* environment_max_per_key

ASSUME RefillConstants ==
  /\ IsFiniteSet(Refills)
  /\ Target \in Nat /\ MaxPerKey \in Nat \ {0}

VARIABLES
  depth,       \* TemplatePool.available[key].len()
  inFlight,    \* TemplatePool.in_flight_refills[key], 0 when there is no entry
  start,       \* where each start is, and its receiver of template_ready
  refill,      \* where each refill task is, "none" when it is not there
  asker        \* where each asker is, the depth it read and what is left to spawn

refillVars == <<depth, inFlight, start, refill, asker>>

IdleStart == [pc |-> "idle", waiting |-> FALSE, changed |-> FALSE]
IdleAsker == [pc |-> "idle", seen |-> 0, need |-> 0]

RefillInit ==
  /\ depth \in 0 .. MaxPerKey /\ inFlight = 0
  /\ start = [s \in Starts |-> IdleStart]
  /\ refill = [r \in Refills |-> "none"]
  /\ asker = [a \in Askers |-> IdleAsker]

-----------------------------------------------------------------------------
(* A start: start_with_template_key and wait_and_acquire_for_restore *)

StartGoto(s, pc) == start' = [start EXCEPT ![s].pc = pc]
StartReturns(s) == start' = [start EXCEPT ![s] = IdleStart]

\* start_with_template_key looks into the pool first.
StartLooks(s) ==
  /\ start[s].pc = "idle" /\ StartGoto(s, "look")
  /\ UNCHANGED <<depth, inFlight, refill, asker>>

\* acquire_for_restore reads the type of the latest template, and then, under the
\* lock again, takes it: the template may be gone by then.  An environment template
\* stays in the pool.
Look(s) ==
  /\ start[s].pc = "look"
  /\ StartGoto(s, IF depth > 0 THEN "take" ELSE "count")
  /\ UNCHANGED <<depth, inFlight, refill, asker>>

Take(s) ==
  /\ start[s].pc = "take"
  /\ IF depth > 0 THEN StartReturns(s) ELSE StartGoto(s, "count")
  /\ UNCHANGED <<depth, inFlight, refill, asker>>

\* Without a refill for the key the start is a miss at once; otherwise it waits,
\* first to subscribe and then, in the loop, for a change.
CountRefills(s) ==
  /\ start[s].pc = "count"
  /\ IF inFlight = 0 THEN StartReturns(s)
     ELSE StartGoto(s, IF start[s].waiting THEN "parked" ELSE "subscribe")
  /\ UNCHANGED <<depth, inFlight, refill, asker>>

\* Mutant: the start waits for a change without looking again.
SubscribeAndPark(s) ==
  /\ start[s].pc = "subscribe"
  /\ start' = [start EXCEPT ![s] = [pc |-> "parked", waiting |-> TRUE, changed |-> FALSE]]
  /\ UNCHANGED <<depth, inFlight, refill, asker>>

\* The current version counts as seen, and the loop looks into the pool again.
Subscribe(s) ==
  /\ start[s].pc = "subscribe"
  /\ start' = [start EXCEPT ![s] = [pc |-> "look", waiting |-> TRUE, changed |-> FALSE]]
  /\ UNCHANGED <<depth, inFlight, refill, asker>>

Wake(s) ==
  /\ start[s].pc = "parked" /\ start[s].changed
  /\ start' = [start EXCEPT ![s].pc = "look", ![s].changed = FALSE]
  /\ UNCHANGED <<depth, inFlight, refill, asker>>

\* The deadline passes.
Timeout(s) ==
  /\ start[s].pc = "parked" /\ StartReturns(s)
  /\ UNCHANGED <<depth, inFlight, refill, asker>>

-----------------------------------------------------------------------------
(* A refill task: create_template_worker, then end_refill *)

RefillGoto(r, pc) == refill' = [refill EXCEPT ![r] = pc]

\* template_ready.send_modify: every receiver has a version it has not seen.
SendModify ==
  start' = [s \in Starts |-> [start[s] EXCEPT !.changed = @ \/ start[s].waiting]]

\* Mutant: the error ends the task before end_refill.
WorkerAborts(r) ==
  /\ refill[r] \in {"working", "push"} /\ RefillGoto(r, "aborted")
  /\ UNCHANGED <<depth, inFlight, start, asker>>

\* The VM does not start, the agent does not answer, the snapshot fails, the pool
\* refuses the template because the oldest one cannot go, or it cannot be saved: what
\* the worker made is removed and the error is logged.
WorkerFails(r) ==
  /\ refill[r] \in {"working", "push"} /\ RefillGoto(r, "end")
  /\ UNCHANGED <<depth, inFlight, start, asker>>

\* TemplatePool::add evicts the oldest template of a key that is at its limit: chosen
\* under the locks and removed after they are let go, when another eviction may have
\* removed it already.
AddMakesRoom(r) ==
  /\ refill[r] = "working"
  /\ \/ depth < MaxPerKey /\ RefillGoto(r, "push") /\ UNCHANGED depth
     \/ depth >= MaxPerKey /\ RefillGoto(r, "push") /\ depth' \in {depth - 1, depth}
  /\ UNCHANGED <<inFlight, start, asker>>

AddPushes(r) ==
  /\ refill[r] = "push" /\ depth' = depth + 1 /\ RefillGoto(r, "ready")
  /\ UNCHANGED <<inFlight, start, asker>>

AddNotifies(r) ==
  /\ refill[r] = "ready" /\ SendModify /\ RefillGoto(r, "end")
  /\ UNCHANGED <<depth, inFlight, asker>>

\* end_refill takes the refill off the count under the lock, and notifies after it
\* has let the lock go.
EndRefill(r) ==
  /\ refill[r] = "end"
  /\ inFlight' = (IF inFlight > 0 THEN inFlight - 1 ELSE 0)
  /\ RefillGoto(r, "notify")
  /\ UNCHANGED <<depth, start, asker>>

EndNotifies(r) ==
  /\ refill[r] = "notify" /\ SendModify /\ RefillGoto(r, "none")
  /\ UNCHANGED <<depth, inFlight, asker>>

-----------------------------------------------------------------------------
(* Asking for refills: the maintenance loop and handle_pool_refill *)

ReadDepth(a) ==
  /\ asker[a].pc = "idle"
  /\ asker' = [asker EXCEPT ![a] = [pc |-> "covered", seen |-> depth, need |-> 0]]
  /\ UNCHANGED <<depth, inFlight, start, refill>>

\* The depth was read before, under another lock.
ReadInFlight(a) ==
  /\ asker[a].pc = "covered"
  /\ LET covered == asker[a].seen + inFlight
     IN asker' = [asker EXCEPT ![a] = [pc |-> "spawn", seen |-> 0,
                    need |-> IF covered < Target THEN Target - covered ELSE 0]]
  /\ UNCHANGED <<depth, inFlight, start, refill>>

\* begin_refill, and the task is spawned.
BeginRefill(a) ==
  /\ asker[a].pc = "spawn" /\ asker[a].need > 0
  /\ \E r \in Refills : refill[r] = "none" /\ RefillGoto(r, "working")
  /\ inFlight' = inFlight + 1
  /\ asker' = [asker EXCEPT ![a].need = @ - 1]
  /\ UNCHANGED <<depth, start>>

\* All are spawned; the maintenance loop then collects, see Evicted.
AskerDone(a) ==
  /\ asker[a].pc = "spawn" /\ asker[a].need = 0
  /\ asker' = [asker EXCEPT ![a] = IdleAsker]
  /\ UNCHANGED <<depth, inFlight, start, refill>>

\* A template of the key leaves the pool: gc_if_needed, remove_by_id, or an add of
\* another key that makes room below the watermark.
Evicted ==
  /\ depth > 0 /\ depth' = depth - 1
  /\ UNCHANGED <<inFlight, start, refill, asker>>

\* A template of another key is added: its receivers are the same.
OtherAdd == SendModify /\ UNCHANGED <<depth, inFlight, refill, asker>>

-----------------------------------------------------------------------------
StartProceeds(s) ==
  Look(s) \/ Take(s) \/ CountRefills(s) \/ Subscribe(s) \/ Wake(s)
RefillProceeds(r) ==
  WorkerFails(r) \/ AddMakesRoom(r) \/ AddPushes(r) \/ AddNotifies(r)
  \/ EndRefill(r) \/ EndNotifies(r)
AskerProceeds(a) == ReadDepth(a) \/ ReadInFlight(a) \/ BeginRefill(a) \/ AskerDone(a)

RefillNext ==
  \/ \E s \in Starts : StartLooks(s) \/ StartProceeds(s) \/ Timeout(s)
  \/ \E r \in Refills : RefillProceeds(r)
  \/ \E a \in Askers : AskerProceeds(a)
  \/ Evicted \/ OtherAdd

RefillSpec == RefillInit /\ [][RefillNext]_refillVars

-----------------------------------------------------------------------------
StartPcs == {"idle", "look", "take", "count", "subscribe", "parked"}
RefillPcs == {"none", "working", "push", "ready", "end", "notify"}

\* The state has its type.
RefillTypeOK ==
  /\ depth \in Nat /\ inFlight \in Nat
  /\ start \in [Starts -> [pc : StartPcs, waiting : BOOLEAN, changed : BOOLEAN]]
  /\ refill \in [Refills -> RefillPcs]
  /\ asker \in [Askers -> [pc : {"idle", "covered", "spawn"}, seen : Nat, need : Nat]]

\* The refills that begin_refill has counted and end_refill has not yet uncounted.
Counted == {r \in Refills : refill[r] \in {"working", "push", "ready", "end"}}

\* The count that the waiting starts rely on is the number of refills that have begun
\* and not ended, whatever became of them (begin_refill and end_refill are paired).
InFlightExact == inFlight = Cardinality(Counted)

\* No wake-up is lost: a start that is parked without a version to see has a refill
\* that will still notify, so that it does not sleep until its deadline for nothing
\* (the count is taken down before the notification, and the receiver subscribes
\* before it looks into the pool).
NoLostWakeup ==
  \A s \in Starts : start[s].pc = "parked" /\ ~start[s].changed
                      => \E r \in Refills : refill[r] # "none"

\* A parked start does not need its deadline: some notification wakes it.
ParkedIsWoken ==
  \A s \in Starts : start[s].pc = "parked" ~> start[s].pc # "parked"
=============================================================================
