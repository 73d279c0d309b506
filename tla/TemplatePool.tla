---------------------------- MODULE TemplatePool ----------------------------
(***************************************************************************)
(* The template pool of the VM sandboxer (vmm/sandbox/src/template/pool.rs) *)
(* together with the operations that take and give back its references:    *)
(* starting a sandbox from a template, deleting or destroying a sandbox,   *)
(* adding and removing templates, garbage collection, and the recovery of  *)
(* the sandboxer after a crash.                                            *)
(*                                                                         *)
(* Every operation runs in a task (a tokio task serving one request).  A   *)
(* step of a task is one critical section of the pool's locks or one       *)
(* filesystem call: tasks interleave between steps, as they do at every    *)
(* .await of the code.                                                     *)
(***************************************************************************)
EXTENDS Naturals, FiniteSets, Sequences, SequencesExt

CONSTANTS
  Tasks,        \* concurrently running requests and background jobs
  Sandboxes,    \* sandbox ids; an id is created at most once
  Templates,    \* template ids; an id is added at most once
  Keys,         \* template keys
  KeyOf,        \* PooledTemplate.key
  KindOf,       \* PooledTemplate.snapshot_type
  CreatedAt,    \* PooledTemplate.created_at_secs
  Initial,      \* templates found on disk at the first start
  LeaseMode,    \* pool.lease_mode
  CopyMode,     \* default_memory_restore_mode is Copy
  GcWatermark,  \* pool.gc_watermark
  EnvMaxPerKey, \* pool.environment_max_per_key
  WfMaxPerKey,  \* pool.warmfork_max_per_key
  IoErrors,             \* filesystem calls may fail
  ConcurrentDeletes,    \* two deletes of one sandbox may overlap
  AdminDuringRecovery,  \* admin requests may arrive before recover() is done
  MaxCrashes,   \* bound on the crashes of the sandboxer
  MaxLeaks,     \* bound on the in-flight count a by-id start can leak
  None, Free    \* no template, no lock holder

Environment == "environment"
WarmFork    == "warm_fork"

ASSUME PoolAssumption ==
  /\ IsFiniteSet(Tasks) /\ IsFiniteSet(Sandboxes) /\ IsFiniteSet(Templates)
  /\ KeyOf \in [Templates -> Keys]
  /\ KindOf \in [Templates -> {Environment, WarmFork}]
  /\ CreatedAt \in [Templates -> Nat]
  /\ Initial \subseteq Templates
  /\ LeaseMode \in {"shared", "exclusive"}
  /\ GcWatermark \in Nat /\ EnvMaxPerKey \in Nat /\ WfMaxPerKey \in Nat
  /\ MaxCrashes \in Nat /\ MaxLeaks \in Nat
  /\ CopyMode \in BOOLEAN /\ IoErrors \in BOOLEAN
  /\ ConcurrentDeletes \in BOOLEAN /\ AdminDuringRecovery \in BOOLEAN
  /\ None \notin Templates \cup Sandboxes
  /\ Free \notin Tasks

\* TemplateKey: Environment keys are built from the VM configuration and
\* WarmFork keys are chosen by the operator, so one key holds one kind.
ASSUME KeysUniform ==
  \A t, u \in Templates : KeyOf[t] = KeyOf[u] => KindOf[t] = KindOf[u]

VARIABLES
  available,           \* key -> queue of templates, oldest first
  in_flight_restores,  \* template -> Environment restores under way
  in_use_count,        \* template -> references that pin it
  dir,                 \* template -> what its directory holds
  consumed,            \* templates whose directory has the consumed marker
  sandbox,             \* the sandboxer's sandbox objects
  dumped,              \* template_id in the sandbox's sandbox.json
  task,                \* the running operations
  phase,               \* of the sandboxer process
  recovery,            \* local variables of recover()
  crashes              \* crashes so far

vars == <<available, in_flight_restores, in_use_count, dir, consumed, sandbox,
          dumped, task, phase, recovery, crashes>>

pool == <<available, in_flight_restores, in_use_count, dir, consumed>>

NoDir == "no_dir"   \* the sandbox's base_dir, and sandbox.json, do not exist

-----------------------------------------------------------------------------
(* Sizes and references *)

Pooled == UNION {ToSet(available[k]) : k \in Keys}

\* total_depth(); an id is in at most one queue, once (PoolEntriesDistinct)
total_depth == Cardinality(Pooled)

Exclusive(t) == KindOf[t] = WarmFork /\ LeaseMode = "exclusive"
SharedRef(t) == KindOf[t] = WarmFork /\ LeaseMode = "shared"

\* A sandbox restored from t holds a reference that its delete gives back:
\* in_use_count for WarmFork Shared and for Environment in a mode that keeps
\* the snapshot files as backing store, the directory itself for Exclusive.
KeepsReference(t) == KindOf[t] = WarmFork \/ ~CopyMode

\* The last clone of a template is the newest one of its key.
Back(k) == Last(available[k])

\* The queue q without its entry t; an id is in a queue at most once.
Without(q, t) ==
  IF t \notin ToSet(q) THEN q
  ELSE LET i == CHOOSE i \in DOMAIN q : q[i] = t IN
       [j \in 1 .. Len(q) - 1 |-> IF j < i THEN q[j] ELSE q[j + 1]]

\* q.retain(|x| x.id != t)
Retain(t) == [k \in Keys |-> Without(available[k], t)]

IdleTask == [pc |-> "idle", sb |-> None, tmpl |-> None, victims |-> {},
             gone |-> None, total |-> 0, next |-> "idle", late |-> FALSE]

\* Templates some task has chosen to delete and has not deleted yet; and those
\* deleted, but still in the pool for a moment.
Targeted == UNION {task[p].victims : p \in Tasks}
Leaving == {task[p].gone : p \in Tasks}

\* May an admin request be served?  The admin socket opens after the pool is
\* loaded and before recover() is called.
AdminReady == \/ phase = "serving"
              \/ AdminDuringRecovery /\ phase # "down"

Idle(p) == task[p].pc = "idle"
Become(p, r) == task' = [task EXCEPT ![p] = r]
Goto(p, pc) == Become(p, [task[p] EXCEPT !.pc = pc])
Finish(p) == Become(p, IdleTask)

-----------------------------------------------------------------------------
(* Starting a sandbox from a template *)

\* The state of the map of sandboxes when nothing is known of an id.
NoSandbox == [exists |-> FALSE, inMap |-> FALSE, template |-> None,
              holds |-> FALSE, lock |-> Free, late |-> FALSE]

SetSandbox(s, r) == sandbox' = [sandbox EXCEPT ![s] = r]

\* KuasarSandboxer::create: a fresh sandbox, in the map and dumped.
Create(s) ==
  /\ phase = "serving"
  /\ ~sandbox[s].exists
  /\ SetSandbox(s, [sandbox[s] EXCEPT !.exists = TRUE, !.inMap = TRUE])
  /\ dumped' = [dumped EXCEPT ![s] = None]
  /\ UNCHANGED <<pool, task, phase, recovery, crashes>>

StartPcs == {"marking", "leased", "lock_wait", "restoring", "post",
             "post_clear", "failing", "push_back", "completing"}

GcPcs == {"gc_total", "gc_select", "sweep", "sweep_retain"}

\* Where a task continues once the collection it may be running is over.
Point(r) == IF r.pc \in GcPcs THEN r.next ELSE r.pc
At(p) == Point(task[p])

\* containerd starts a sandbox once; within that start a failed restore falls
\* back to the next kind of snapshot.
MayStart(p, s) ==
  /\ phase = "serving"
  /\ Idle(p)
  /\ sandbox[s].inMap /\ sandbox[s].template = None
  /\ \A q \in Tasks : task[q].sb = s => At(q) \notin StartPcs

\* The template a lease is taken on, with the point the task continues from.
Lease(p, s, t, pc) ==
  Become(p, [IdleTask EXCEPT !.pc = pc, !.sb = s, !.tmpl = t,
                             !.late = (t \in Targeted \cup Leaving)])

\* Mutant: the restore is not counted.
PeekForRestoreUncounted(p, s, t) ==
  /\ KindOf[t] = Environment
  /\ Lease(p, s, t, "leased")
  /\ UNCHANGED <<available, in_flight_restores, in_use_count>>

\* peek_latest_for_restore / peek_by_id_for_restore: the template stays in
\* the pool and one more restore of it is in flight.
PeekForRestore(p, s, t) ==
  /\ KindOf[t] = Environment
  /\ in_flight_restores' = [in_flight_restores EXCEPT ![t] = @ + 1]
  /\ Lease(p, s, t, "leased")
  /\ UNCHANGED <<available, in_use_count>>

\* peek_with_ref / peek_by_id_with_ref
PeekWithRef(p, s, t) ==
  /\ SharedRef(t)
  /\ in_use_count' = [in_use_count EXCEPT ![t] = @ + 1]
  /\ Lease(p, s, t, "leased")
  /\ UNCHANGED <<available, in_flight_restores>>

\* acquire / acquire_by_id, up to the write of the consumed marker
Acquire(p, s, t) ==
  /\ Exclusive(t)
  /\ available' = Retain(t)
  /\ Lease(p, s, t, "marking")
  /\ UNCHANGED <<in_flight_restores, in_use_count>>

\* acquire_for_restore(key) in start_with_template_key
StartWithKey(p, s, k) ==
  /\ MayStart(p, s)
  /\ available[k] # <<>>
  /\ \/ PeekForRestore(p, s, Back(k))
     \/ PeekWithRef(p, s, Back(k))
     \/ Acquire(p, s, Back(k))
  /\ UNCHANGED <<dir, consumed, sandbox, dumped, phase, recovery, crashes>>

\* start_with_template_id: a WarmFork template is leased.  The request for an
\* Environment template is refused after acquire_by_id_for_restore has counted
\* the restore, and nothing takes the count back.
StartWithId(p, s, t) ==
  /\ MayStart(p, s)
  /\ t \in Pooled
  /\ \/ PeekWithRef(p, s, t)
     \/ Acquire(p, s, t)
     \/ /\ KindOf[t] = Environment
        /\ in_flight_restores[t] < MaxLeaks
        /\ in_flight_restores' = [in_flight_restores EXCEPT ![t] = @ + 1]
        /\ UNCHANGED <<available, in_use_count, task>>
  /\ UNCHANGED <<dir, consumed, sandbox, dumped, phase, recovery, crashes>>

\* write_consumed_marker; File::create fails in a directory that is gone.
MarkConsumed(p) ==
  LET t == task[p].tmpl IN
  /\ task[p].pc = "marking"
  /\ dir[t] # "absent"
  /\ consumed' = consumed \cup {t}
  /\ Goto(p, "leased")
  /\ UNCHANGED <<available, in_flight_restores, in_use_count, dir, sandbox,
                 dumped, phase, recovery, crashes>>

\* Mutant: acquire puts the template back and the caller's lease fails too.
MarkFailedTwice(p) ==
  LET t == task[p].tmpl IN
  /\ task[p].pc = "marking"
  /\ IoErrors \/ dir[t] = "absent"
  /\ available' = [available EXCEPT ![KeyOf[t]] = Append(@, t)]
  /\ Goto(p, "failing")
  /\ UNCHANGED <<in_flight_restores, in_use_count, dir, consumed, sandbox, dumped,
                 phase, recovery, crashes>>

\* acquire: the marker cannot be created, or only its fsync fails, and the
\* template goes back.
MarkFailed(p) ==
  LET t == task[p].tmpl IN
  /\ task[p].pc = "marking"
  /\ \/ (IoErrors \/ dir[t] = "absent") /\ UNCHANGED consumed
     \/ /\ IoErrors /\ dir[t] # "absent"
        /\ consumed' = consumed \cup {t}
  /\ available' = [available EXCEPT ![KeyOf[t]] = Append(@, t)]
  /\ Finish(p)
  /\ UNCHANGED <<in_flight_restores, in_use_count, dir, sandbox, dumped, phase,
                 recovery, crashes>>

\* The checks between the lease and the restore: is the type enabled, do the
\* annotations parse, do the snapshot files exist.  Then start_from_snapshot
\* looks the sandbox up.
Validated(p) ==
  /\ task[p].pc = "leased"
  /\ dir[task[p].tmpl] # "absent"
  /\ sandbox[task[p].sb].inMap
  /\ Goto(p, "lock_wait")
  /\ UNCHANGED <<pool, sandbox, dumped, phase, recovery, crashes>>

\* One of these checks fails, or pre_start / prepare_network does.
Rejected(p) ==
  /\ task[p].pc \in {"leased", "lock_wait"}
  /\ Goto(p, "failing")
  /\ UNCHANGED <<pool, sandbox, dumped, phase, recovery, crashes>>

\* start_from_snapshot: take the sandbox's lock, record the template.
BeginRestore(p) ==
  LET s == task[p].sb IN
  /\ task[p].pc = "lock_wait"
  /\ sandbox[s].lock = Free
  /\ SetSandbox(s, [sandbox[s] EXCEPT !.lock = p, !.template = task[p].tmpl])
  /\ Goto(p, "restoring")
  /\ UNCHANGED <<pool, dumped, phase, recovery, crashes>>

\* sandbox.start_from_snapshot fails: clear_template_restore_state.
RestoreFailed(p) ==
  LET s == task[p].sb IN
  /\ task[p].pc = "restoring"
  /\ SetSandbox(s, [sandbox[s] EXCEPT !.lock = Free, !.template = None])
  /\ Goto(p, "failing")
  /\ UNCHANGED <<pool, dumped, phase, recovery, crashes>>

\* The VM runs; an Environment template that backs it is pinned.
Restored(p) ==
  LET s == task[p].sb
      t == task[p].tmpl IN
  /\ task[p].pc = "restoring"
  /\ dir[t] # "absent"
  /\ in_use_count' = IF KindOf[t] = Environment /\ ~CopyMode
                     THEN [in_use_count EXCEPT ![t] = @ + 1] ELSE in_use_count
  /\ SetSandbox(s, [sandbox[s] EXCEPT !.holds = KeepsReference(t),
                                      !.late = task[p].late])
  /\ Goto(p, "post")
  /\ UNCHANGED <<available, in_flight_restores, dir, consumed, dumped, phase,
                 recovery, crashes>>

\* Continue at pc, after gc_if_needed when the last reference went away.
GcThen(p, trigger, pc) ==
  Become(p, IF trigger THEN [task[p] EXCEPT !.pc = "gc_total", !.next = pc]
            ELSE IF pc = "idle" THEN IdleTask
            ELSE [task[p] EXCEPT !.pc = pc])

\* deref(): a count that is already zero is only logged.
deref(p, t, pc) ==
  /\ in_use_count' = [in_use_count EXCEPT ![t] = IF @ = 0 THEN 0 ELSE @ - 1]
  /\ GcThen(p, in_use_count[t] = 1, pc)

\* end_restore()
end_restore(p, t, pc) ==
  /\ in_flight_restores' =
       [in_flight_restores EXCEPT ![t] = IF @ = 0 THEN 0 ELSE @ - 1]
  /\ GcThen(p, in_flight_restores[t] = 1, pc)

\* add_to_cgroup, post_start or dump fails: rollback_post_restore! gives the
\* Environment pin back ...
PostFailed(p) ==
  LET s == task[p].sb
      t == task[p].tmpl IN
  /\ task[p].pc = "post"
  /\ SetSandbox(s, [sandbox[s] EXCEPT !.holds = FALSE])
  /\ IF KindOf[t] = Environment /\ ~CopyMode
     THEN deref(p, t, "post_clear")
     ELSE Goto(p, "post_clear") /\ UNCHANGED in_use_count
  /\ UNCHANGED <<available, in_flight_restores, dir, consumed, dumped, phase,
                 recovery, crashes>>

\* ... and clears the restore metadata, stops the VM and returns the error.
PostCleared(p) ==
  LET s == task[p].sb IN
  /\ task[p].pc = "post_clear"
  /\ SetSandbox(s, [sandbox[s] EXCEPT !.lock = Free, !.template = None])
  /\ Goto(p, "failing")
  /\ UNCHANGED <<pool, dumped, phase, recovery, crashes>>

\* Mutant: the lock is not released.
DumpedLocked(p) ==
  /\ task[p].pc = "post"
  /\ dumped' = [dumped EXCEPT ![task[p].sb] = task[p].tmpl]
  /\ Goto(p, "completing")
  /\ UNCHANGED <<pool, sandbox, phase, recovery, crashes>>

\* sandbox.dump() ends start_from_snapshot, which releases the lock.  The dump
\* is skipped if a destroy has removed base_dir since the restore made its
\* working directory in it.
Dumped(p) ==
  LET s == task[p].sb IN
  /\ task[p].pc = "post"
  /\ \/ dumped' = [dumped EXCEPT ![s] = task[p].tmpl]
     \/ dumped[s] = NoDir /\ UNCHANGED dumped
  /\ SetSandbox(s, [sandbox[s] EXCEPT !.lock = Free])
  /\ Goto(p, "completing")
  /\ UNCHANGED <<pool, phase, recovery, crashes>>

\* TemplateLease::complete
Complete(p) ==
  LET t == task[p].tmpl IN
  /\ task[p].pc = "completing"
  /\ IF KindOf[t] = Environment
     THEN end_restore(p, t, "idle")
     ELSE Finish(p) /\ UNCHANGED in_flight_restores
  /\ UNCHANGED <<available, in_use_count, dir, consumed, sandbox, dumped,
                 phase, recovery, crashes>>

\* TemplateLease::fail for the two kinds of shared lease
FailShared(p) ==
  LET t == task[p].tmpl IN
  /\ task[p].pc = "failing"
  /\ \/ KindOf[t] = Environment /\ end_restore(p, t, "idle")
                                /\ UNCHANGED in_use_count
     \/ SharedRef(t) /\ deref(p, t, "idle") /\ UNCHANGED in_flight_restores
  /\ UNCHANGED <<available, dir, consumed, sandbox, dumped, phase, recovery,
                 crashes>>

\* TemplateLease::fail for an exclusive lease is release(): remove the marker
\* (a failure is only logged) ...
RemoveMarker(p) ==
  LET t == task[p].tmpl IN
  /\ task[p].pc = "failing"
  /\ Exclusive(t)
  /\ \/ consumed' = consumed \ {t}
     \/ IoErrors /\ UNCHANGED consumed
  /\ Goto(p, "push_back")
  /\ UNCHANGED <<available, in_flight_restores, in_use_count, dir, sandbox,
                 dumped, phase, recovery, crashes>>

\* ... and push the template back.
PushBack(p) ==
  LET t == task[p].tmpl IN
  /\ task[p].pc = "push_back"
  /\ available' = [available EXCEPT ![KeyOf[t]] = Append(@, t)]
  /\ Finish(p)
  /\ UNCHANGED <<in_flight_restores, in_use_count, dir, consumed, sandbox,
                 dumped, phase, recovery, crashes>>

-----------------------------------------------------------------------------
(* Deleting a sandbox: KuasarSandboxer::delete and the admin destroy *)

DeletePcs == {"del_wait", "destroy_dir", "del_release", "del_unlock",
              "del_remove"}

\* Both look the sandbox up before they lock it.
DeleteLookup(p, s) ==
  /\ AdminReady
  /\ Idle(p)
  /\ sandbox[s].inMap
  /\ ConcurrentDeletes \/ \A q \in Tasks : task[q].sb = s => At(q) \notin DeletePcs
  /\ Become(p, [IdleTask EXCEPT !.pc = "del_wait", !.sb = s])
  /\ UNCHANGED <<pool, sandbox, dumped, phase, recovery, crashes>>

\* delete(): lock, capture template_id, stop the VM, remove base_dir; containerd
\* is served when recover() has returned.
DeleteBody(p) ==
  LET s == task[p].sb IN
  /\ phase = "serving"
  /\ task[p].pc = "del_wait"
  /\ sandbox[s].lock = Free
  /\ SetSandbox(s, [sandbox[s] EXCEPT !.lock = p])
  /\ dumped' = [dumped EXCEPT ![s] = NoDir]
  /\ Become(p, [task[p] EXCEPT !.pc = "del_release", !.tmpl = sandbox[s].template])
  /\ UNCHANGED <<pool, phase, recovery, crashes>>

\* destroy_sandbox(): the lock is dropped after the stop ...
DestroyStop(p) ==
  LET s == task[p].sb IN
  /\ task[p].pc = "del_wait"
  /\ sandbox[s].lock = Free
  /\ Become(p, [task[p] EXCEPT !.pc = "destroy_dir", !.tmpl = sandbox[s].template])
  /\ UNCHANGED <<pool, sandbox, dumped, phase, recovery, crashes>>

\* ... and base_dir is removed without it.
DestroyDir(p) ==
  /\ task[p].pc = "destroy_dir"
  /\ dumped' = [dumped EXCEPT ![task[p].sb] = NoDir]
  /\ Goto(p, "del_release")
  /\ UNCHANGED <<pool, sandbox, phase, recovery, crashes>>

\* stop(), the cgroup removal, cleanup_mounts or the removal of base_dir fails:
\* the error is returned.  A removal that fails may have removed sandbox.json.
DeleteFailed(p) ==
  /\ \/ task[p].pc = "del_wait" /\ sandbox[task[p].sb].lock = Free
     \/ task[p].pc = "destroy_dir"
  /\ IoErrors
  /\ \/ UNCHANGED dumped
     \/ dumped' = [dumped EXCEPT ![task[p].sb] = NoDir]
  /\ Finish(p)
  /\ UNCHANGED <<pool, sandbox, phase, recovery, crashes>>

\* The reference the sandbox held is released: deref, or cleanup_consumed,
\* which removes the directory if the marker is there.
DeleteRelease(p) ==
  LET s == task[p].sb
      t == task[p].tmpl IN
  /\ task[p].pc = "del_release"
  /\ SetSandbox(s, [sandbox[s] EXCEPT !.holds = IF t = None THEN @ ELSE FALSE])
  /\ IF t # None /\ KeepsReference(t) /\ ~Exclusive(t)
     THEN deref(p, t, "del_unlock")
     ELSE Goto(p, "del_unlock") /\ UNCHANGED in_use_count
  /\ \/ /\ t # None /\ Exclusive(t) /\ t \in consumed
        /\ dir' = [dir EXCEPT ![t] = "absent"]
        /\ consumed' = consumed \ {t}
     \/ /\ t # None /\ Exclusive(t) => t \notin consumed \/ IoErrors
        /\ UNCHANGED <<dir, consumed>>
  /\ UNCHANGED <<available, in_flight_restores, dumped, phase, recovery,
                 crashes>>

DeleteUnlock(p) ==
  LET s == task[p].sb IN
  /\ task[p].pc = "del_unlock"
  /\ SetSandbox(s, [sandbox[s] EXCEPT !.lock = IF @ = p THEN Free ELSE @])
  /\ Goto(p, "del_remove")
  /\ UNCHANGED <<pool, dumped, phase, recovery, crashes>>

\* sandboxes.write().await.remove(id)
DeleteRemove(p) ==
  LET s == task[p].sb IN
  /\ task[p].pc = "del_remove"
  /\ SetSandbox(s, [sandbox[s] EXCEPT !.inMap = FALSE])
  /\ Finish(p)
  /\ UNCHANGED <<pool, dumped, phase, recovery, crashes>>

-----------------------------------------------------------------------------
(* Choosing templates and removing them *)


\* No restore in flight and no reference: the test every eviction makes.
Unreferenced(t) == in_flight_restores[t] = 0 /\ in_use_count[t] = 0

\* The n oldest of C; equal ages are taken in any order.
Oldest(C, n) ==
  {V \in SUBSET C :
     /\ Cardinality(V) = IF n < Cardinality(C) THEN n ELSE Cardinality(C)
     /\ \A v \in V, c \in C \ V : CreatedAt[v] <= CreatedAt[c]}

\* gc_if_needed: the total is read before the candidates are collected.
GcTotal(p) ==
  /\ task[p].pc = "gc_total"
  /\ IF total_depth <= GcWatermark
     THEN GcThen(p, FALSE, task[p].next)
     ELSE Become(p, [task[p] EXCEPT !.pc = "gc_select", !.total = total_depth])
  /\ UNCHANGED <<pool, sandbox, dumped, phase, recovery, crashes>>

GcSelect(p) ==
  /\ task[p].pc = "gc_select"
  /\ \E V \in Oldest({t \in Pooled : Unreferenced(t) /\ ~Exclusive(t)},
                     task[p].total - GcWatermark) :
       Become(p, [task[p] EXCEPT !.pc = "sweep", !.victims = V])
  /\ UNCHANGED <<pool, sandbox, dumped, phase, recovery, crashes>>

\* The victim a sweep works on: the oldest one left.
Victim(p, t) == {t} \in Oldest(task[p].victims, 1)

\* Mutant: the entry is not dropped after its directory.
SweepRemoveOnly(p, t) ==
  /\ task[p].pc = "sweep"
  /\ Victim(p, t)
  /\ dir' = [dir EXCEPT ![t] = "absent"]
  /\ consumed' = consumed \ {t}
  /\ Become(p, [task[p] EXCEPT !.victims = @ \ {t}])
  /\ UNCHANGED <<available, in_flight_restores, in_use_count, sandbox, dumped,
                 phase, recovery, crashes>>

\* remove_dir_all outside the locks; a directory already gone is fine.
SweepRemove(p, t) ==
  /\ task[p].pc = "sweep"
  /\ Victim(p, t)
  /\ dir' = [dir EXCEPT ![t] = "absent"]
  /\ consumed' = consumed \ {t}
  /\ Become(p, [task[p] EXCEPT !.pc = "sweep_retain", !.victims = @ \ {t}, !.gone = t])
  /\ UNCHANGED <<available, in_flight_restores, in_use_count, sandbox, dumped,
                 phase, recovery, crashes>>

\* The removal fails: the template stays in the pool.
SweepFailed(p, t) ==
  /\ task[p].pc = "sweep"
  /\ Victim(p, t)
  /\ IoErrors
  /\ Become(p, [task[p] EXCEPT !.victims = @ \ {t}])
  /\ UNCHANGED <<pool, sandbox, dumped, phase, recovery, crashes>>

SweepRetain(p) ==
  /\ task[p].pc = "sweep_retain"
  /\ available' = Retain(task[p].gone)
  /\ Become(p, [task[p] EXCEPT !.pc = "sweep", !.gone = None])
  /\ UNCHANGED <<in_flight_restores, in_use_count, dir, consumed, sandbox,
                 dumped, phase, recovery, crashes>>

SweepDone(p) ==
  /\ task[p].pc = "sweep"
  /\ task[p].victims = {}
  /\ GcThen(p, FALSE, task[p].next)
  /\ UNCHANGED <<pool, sandbox, dumped, phase, recovery, crashes>>

\* The periodic maintenance task calls gc_if_needed.
Maintain(p) ==
  /\ phase = "serving"
  /\ Idle(p)
  /\ GcThen(p, TRUE, "idle")
  /\ UNCHANGED <<pool, sandbox, dumped, phase, recovery, crashes>>

\* remove_by_id, called by the admin pool-gc request
RemoveById(p, t) ==
  /\ AdminReady
  /\ Idle(p)
  /\ t \in Pooled /\ Unreferenced(t)
  /\ Become(p, [IdleTask EXCEPT !.pc = "sweep", !.victims = {t}])
  /\ UNCHANGED <<pool, sandbox, dumped, phase, recovery, crashes>>

-----------------------------------------------------------------------------
(* Adding a template: the snapshot files are in place, then add() *)

AddPcs == {"add_total", "add_select", "add_key", "add_evict", "add_retain",
           "add_save", "add_push"}

\* create_dir_all(tmpl_dir)
AddBegin(p, t) ==
  /\ AdminReady
  /\ Idle(p)
  /\ dir[t] = "unborn"
  /\ dir' = [dir EXCEPT ![t] = "staged"]
  /\ Become(p, [IdleTask EXCEPT !.pc = "add_total", !.tmpl = t])
  /\ UNCHANGED <<available, in_flight_restores, in_use_count, consumed, sandbox,
                 dumped, phase, recovery, crashes>>

\* Step 1: is the global water level reached?
AddTotal(p) ==
  /\ task[p].pc = "add_total"
  /\ Goto(p, IF total_depth >= GcWatermark THEN "add_select" ELSE "add_key")
  /\ UNCHANGED <<pool, sandbox, dumped, phase, recovery, crashes>>

\* Evict V = {oldest idle template}, then continue at pc.
Evict(p, V, pc) ==
  Become(p, [task[p] EXCEPT !.pc = "add_evict", !.victims = V, !.next = pc])

AddSelect(p) ==
  /\ task[p].pc = "add_select"
  /\ \E V \in Oldest({t \in Pooled : Unreferenced(t) /\ ~Exclusive(t)}, 1) :
       V # {} /\ Evict(p, V, "add_key")
  /\ UNCHANGED <<pool, sandbox, dumped, phase, recovery, crashes>>

MaxPerKey(t) == IF KindOf[t] = Environment THEN EnvMaxPerKey ELSE WfMaxPerKey

\* Step 2: the key's own limit; the front of the queue is evicted.
AddKey(p) ==
  LET t == task[p].tmpl
      q == available[KeyOf[t]] IN
  /\ task[p].pc = "add_key"
  /\ IF Len(q) >= MaxPerKey(t) /\ q # <<>>
     THEN Unreferenced(Head(q)) /\ Evict(p, {Head(q)}, "add_save")
     ELSE Goto(p, "add_save")
  /\ UNCHANGED <<pool, sandbox, dumped, phase, recovery, crashes>>

\* Delete from disk first; only remove from the pool on success.
AddEvict(p) ==
  /\ task[p].pc = "add_evict"
  /\ \E v \in task[p].victims :
       /\ dir[v] # "absent"
       /\ dir' = [dir EXCEPT ![v] = "absent"]
       /\ consumed' = consumed \ {v}
       /\ Become(p, [task[p] EXCEPT !.pc = "add_retain", !.victims = {}, !.gone = v])
  /\ UNCHANGED <<available, in_flight_restores, in_use_count, sandbox, dumped,
                 phase, recovery, crashes>>

AddRetain(p) ==
  /\ task[p].pc = "add_retain"
  /\ available' = Retain(task[p].gone)
  /\ Become(p, [task[p] EXCEPT !.pc = task[p].next, !.gone = None])
  /\ UNCHANGED <<in_flight_restores, in_use_count, dir, consumed, sandbox,
                 dumped, phase, recovery, crashes>>

\* add() returns an error: nothing can be evicted, or the eviction failed
\* (here a directory already gone is a failure).  The new directory goes; that
\* it cannot be removed is only logged.
AddFailed(p) ==
  LET t == task[p].tmpl
      q == available[KeyOf[t]] IN
  /\ \/ /\ task[p].pc = "add_select"
        /\ \A u \in Pooled : ~Unreferenced(u) \/ Exclusive(u)
     \/ /\ task[p].pc = "add_key"
        /\ Len(q) >= MaxPerKey(t) /\ q # <<>> /\ ~Unreferenced(Head(q))
     \/ /\ task[p].pc = "add_evict"
        /\ IoErrors \/ \E v \in task[p].victims : dir[v] = "absent"
     \/ task[p].pc = "add_save" /\ IoErrors /\ KindOf[t] = Environment
  /\ \/ dir' = [dir EXCEPT ![t] = "absent"]
     \/ IoErrors /\ UNCHANGED dir
  /\ Finish(p)
  /\ UNCHANGED <<available, in_flight_restores, in_use_count, consumed, sandbox,
                 dumped, phase, recovery, crashes>>

\* save() fails for a WarmFork template: nobody removes the staged directory.
AddAbandoned(p) ==
  /\ task[p].pc = "add_save" /\ IoErrors /\ KindOf[task[p].tmpl] = WarmFork
  /\ Finish(p)
  /\ UNCHANGED <<pool, sandbox, dumped, phase, recovery, crashes>>

\* tmpl.save: pooled_template.json
AddSave(p) ==
  /\ task[p].pc = "add_save"
  /\ dir' = [dir EXCEPT ![task[p].tmpl] = "saved"]
  /\ Goto(p, "add_push")
  /\ UNCHANGED <<available, in_flight_restores, in_use_count, consumed, sandbox,
                 dumped, phase, recovery, crashes>>

AddPush(p) ==
  LET t == task[p].tmpl IN
  /\ task[p].pc = "add_push"
  /\ available' = [available EXCEPT ![KeyOf[t]] = Append(@, t)]
  /\ Finish(p)
  /\ UNCHANGED <<in_flight_restores, in_use_count, dir, consumed, sandbox,
                 dumped, phase, recovery, crashes>>

-----------------------------------------------------------------------------
(* Crash and recovery of the sandboxer; the virtual machines keep running *)

NoRecovery == [ids |-> {}, refs |-> [t \in Templates |-> 0], scan |-> {}]

Crash ==
  /\ crashes < MaxCrashes
  /\ crashes' = crashes + 1
  /\ phase' = "down"
  /\ available' = [k \in Keys |-> <<>>]
  /\ in_flight_restores' = [t \in Templates |-> 0]
  /\ in_use_count' = [t \in Templates |-> 0]
  /\ task' = [p \in Tasks |-> IdleTask]
  /\ sandbox' = [s \in Sandboxes |-> [NoSandbox EXCEPT
                                      !.exists = sandbox[s].exists,
                                      !.late = sandbox[s].late]]
  /\ recovery' = NoRecovery
  /\ UNCHANGED <<dir, consumed, dumped>>

\* The queues that hold the templates in S, in any order within a key.
Listings(S) ==
  LET Of(k) == SetToSeqs({t \in S : KeyOf[t] = k}) IN
  {q \in [Keys -> UNION {Of(k) : k \in Keys}] : \A k \in Keys : q[k] \in Of(k)}

\* Mutant: the consumed marker is not looked at.
LoadableConsumed == {t \in Templates : dir[t] = "saved"}

Loadable == {t \in Templates : dir[t] = "saved"} \ consumed

\* load_from_disk: the order within a key is the directory's order.
LoadFromDisk ==
  /\ phase = "down"
  /\ available' \in Listings(Loadable)
  /\ phase' = "loaded"
  /\ UNCHANGED <<in_flight_restores, in_use_count, dir, consumed, sandbox,
                 dumped, task, recovery, crashes>>

\* Mutant: a sandbox without a dump is recovered too.
RecoverAll ==
  /\ phase = "loaded"
  /\ sandbox' = [s \in Sandboxes |->
       [sandbox[s] EXCEPT !.inMap = TRUE, !.template = dumped[s]]]
  /\ phase' = "recovered"
  /\ UNCHANGED <<pool, dumped, task, recovery, crashes>>

\* recover(): the sandboxes R come back with what their dump says; the dump of
\* another one cannot be read, or its VM not be reached: base_dir is removed.
RecoverSandboxes ==
  /\ phase = "loaded"
  /\ \E R \in SUBSET {s \in Sandboxes : dumped[s] # NoDir} :
       /\ sandbox' = [s \in Sandboxes |->
            IF s \notin R THEN sandbox[s]
            ELSE [sandbox[s] EXCEPT
                    !.inMap = TRUE, !.template = dumped[s],
                    !.holds = dumped[s] # None /\ KeepsReference(dumped[s])]]
       /\ dumped' = [s \in Sandboxes |-> IF s \in R THEN dumped[s] ELSE NoDir]
  /\ phase' = "recovered"
  /\ UNCHANGED <<pool, task, recovery, crashes>>


\* The reference counts the recovered sandboxes account for.
ActiveRefs ==
  [t \in Templates |-> IF Exclusive(t) THEN 0 ELSE
     Cardinality({s \in Sandboxes : sandbox[s].inMap /\ sandbox[s].template = t
                                    /\ KeepsReference(t)})]

\* recover() reads every sandbox in the map ...
CollectActive ==
  /\ phase = "recovered"
  /\ \A s \in Sandboxes : sandbox[s].inMap => sandbox[s].lock = Free
  /\ recovery' = [ids |-> {sandbox[s].template : s \in
                             {x \in Sandboxes : sandbox[x].inMap}} \ {None},
                  refs |-> ActiveRefs, scan |-> Templates]
  /\ phase' = "collected"
  /\ UNCHANGED <<pool, sandbox, dumped, task, crashes>>

\* ... then rebuild_active_refs clears the counts and sets them ...
RebuildActiveRefs ==
  /\ phase = "collected"
  /\ in_use_count' = recovery.refs
  /\ phase' = "rebuilt"
  /\ UNCHANGED <<available, in_flight_restores, dir, consumed, sandbox, dumped,
                 task, recovery, crashes>>

\* Mutants: no consumed directory is removed, or the scan stops at a claimed one.
GcNoConsumed(t) ==
  /\ phase = "rebuilt"
  /\ t \in recovery.scan
  /\ recovery' = [recovery EXCEPT !.scan = @ \ {t}]
  /\ UNCHANGED <<pool, sandbox, dumped, task, phase, crashes>>
GcStopsAtClaimed(t) ==
  \/ t \notin recovery.ids /\ GcNoConsumed(t)
  \/ phase = "rebuilt" /\ t \in recovery.scan \cap recovery.ids /\ UNCHANGED vars

\* ... and gc_orphaned_consumed removes the consumed directories nobody claims.
GcOrphanedConsumed(t) ==
  /\ phase = "rebuilt"
  /\ t \in recovery.scan
  /\ \/ /\ t \in consumed \ recovery.ids
        /\ dir' = [dir EXCEPT ![t] = "absent"]
        /\ consumed' = consumed \ {t}
     \/ /\ t \in consumed \ recovery.ids => IoErrors
        /\ UNCHANGED <<dir, consumed>>
  /\ recovery' = [recovery EXCEPT !.scan = @ \ {t}]
  /\ UNCHANGED <<available, in_flight_restores, in_use_count, sandbox, dumped,
                 task, phase, crashes>>

\* recover() has returned: containerd's requests are served.
Serve ==
  /\ phase = "rebuilt"
  /\ recovery.scan = {}
  /\ phase' = "serving"
  /\ recovery' = NoRecovery
  /\ UNCHANGED <<pool, sandbox, dumped, task, crashes>>

-----------------------------------------------------------------------------
Init ==
  /\ available \in Listings(Initial)
  /\ in_flight_restores = [t \in Templates |-> 0]
  /\ in_use_count = [t \in Templates |-> 0]
  /\ dir = [t \in Templates |-> IF t \in Initial THEN "saved" ELSE "unborn"]
  /\ consumed = {}
  /\ sandbox = [s \in Sandboxes |-> NoSandbox]
  /\ dumped = [s \in Sandboxes |-> NoDir]
  /\ task = [p \in Tasks |-> IdleTask]
  /\ phase = "serving"
  /\ recovery = NoRecovery
  /\ crashes = 0

StartStep(p) ==
  \/ MarkConsumed(p) \/ MarkFailed(p) \/ Validated(p) \/ Rejected(p)
  \/ BeginRestore(p) \/ RestoreFailed(p) \/ Restored(p) \/ PostFailed(p)
  \/ PostCleared(p) \/ Dumped(p) \/ Complete(p) \/ FailShared(p)
  \/ RemoveMarker(p) \/ PushBack(p)

DeleteStep(p) ==
  \/ DeleteBody(p) \/ DestroyStop(p) \/ DestroyDir(p) \/ DeleteFailed(p)
  \/ DeleteRelease(p) \/ DeleteUnlock(p) \/ DeleteRemove(p)

GcStep(p) ==
  \/ GcTotal(p) \/ GcSelect(p) \/ SweepRetain(p) \/ SweepDone(p)
  \/ \E t \in Templates : SweepRemove(p, t) \/ SweepFailed(p, t)

AddStep(p) ==
  \/ AddTotal(p) \/ AddSelect(p) \/ AddKey(p) \/ AddEvict(p) \/ AddRetain(p)
  \/ AddFailed(p) \/ AddAbandoned(p) \/ AddSave(p) \/ AddPush(p)

Request(p) ==
  \/ \E s \in Sandboxes, k \in Keys : StartWithKey(p, s, k)
  \/ \E s \in Sandboxes, t \in Templates : StartWithId(p, s, t)
  \/ \E s \in Sandboxes : DeleteLookup(p, s)
  \/ \E t \in Templates : RemoveById(p, t) \/ AddBegin(p, t)
  \/ Maintain(p)

RecoveryStep ==
  \/ LoadFromDisk \/ RecoverSandboxes \/ CollectActive \/ RebuildActiveRefs
  \/ \E t \in Templates : GcOrphanedConsumed(t)
  \/ Serve

TaskStep(p) == StartStep(p) \/ DeleteStep(p) \/ GcStep(p) \/ AddStep(p)

Next ==
  \/ \E s \in Sandboxes : Create(s)
  \/ \E p \in Tasks : Request(p) \/ TaskStep(p)
  \/ Crash
  \/ RecoveryStep

Spec == Init /\ [][Next]_vars

\* tokio polls a task that can proceed; its Mutex is first come, first served,
\* so a task that waits for a sandbox gets it even if others keep taking it; the
\* process manager restarts the sandboxer.
Fairness ==
  /\ \A p \in Tasks :
       /\ WF_vars(TaskStep(p))
       /\ SF_vars(BeginRestore(p) \/ DeleteBody(p) \/ DestroyStop(p))
  /\ WF_vars(RecoveryStep)

FairSpec == Spec /\ Fairness

-----------------------------------------------------------------------------
(* Properties *)

NextPcs == {"idle", "post_clear", "del_unlock", "add_key", "add_save"}

TaskType ==
  [pc : {"idle"} \cup StartPcs \cup DeletePcs \cup GcPcs \cup AddPcs,
   sb : Sandboxes \cup {None}, tmpl : Templates \cup {None},
   victims : SUBSET Templates, gone : Templates \cup {None}, total : Nat,
   next : NextPcs, late : BOOLEAN]

SandboxType ==
  [exists : BOOLEAN, inMap : BOOLEAN, template : Templates \cup {None},
   holds : BOOLEAN, lock : Tasks \cup {Free}, late : BOOLEAN]

\* Type invariant of the pool, its tasks and the recovery.
TypeOK ==
  /\ available \in [Keys -> Seq(Templates)]
  /\ in_flight_restores \in [Templates -> Nat]
  /\ in_use_count \in [Templates -> Nat]
  /\ dir \in [Templates -> {"unborn", "absent", "staged", "saved"}]
  /\ consumed \in SUBSET Templates
  /\ sandbox \in [Sandboxes -> SandboxType]
  /\ dumped \in [Sandboxes -> Templates \cup {None, NoDir}]
  /\ task \in [Tasks -> TaskType]
  /\ phase \in {"serving", "down", "loaded", "recovered", "collected", "rebuilt"}
  /\ recovery \in [ids : SUBSET Templates, refs : [Templates -> Nat],
                   scan : SUBSET Templates]
  /\ crashes \in 0 .. MaxCrashes

\* Tasks whose WarmFork Shared lease on t is not yet the sandbox's.
RefLeases(t) ==
  {p \in Tasks : /\ task[p].tmpl = t
                 /\ At(p) \in {"leased", "lock_wait", "restoring", "post_clear",
                               "failing"}}

\* Sandboxes whose delete will give a reference to t back.
Holders(t) == {s \in Sandboxes : sandbox[s].holds /\ sandbox[s].template = t}

\* Tasks whose Environment lease on t is open.
FlightLeases(t) ==
  {p \in Tasks : /\ task[p].tmpl = t
                 /\ At(p) \in {"leased", "lock_wait", "restoring", "post",
                               "post_clear", "failing", "completing"}}


\* An Environment restore under way is always counted in in_flight_restores.
InFlightCovers ==
  \A t \in Templates : KindOf[t] = Environment =>
    in_flight_restores[t] >= Cardinality(FlightLeases(t))


\* Tasks that own the exclusive template t.
OwnerTasks(t) ==
  {p \in Tasks : /\ task[p].tmpl = t
                 /\ At(p) \in {"marking", "leased", "lock_wait", "restoring",
                               "post_clear", "failing", "push_back"}}

\* An Exclusive WarmFork template is in the pool, or owned by one restore, or
\* by one sandbox, never by two of them: across failed restores that return
\* it, and across crashes at any point.
ExclusiveOwner ==
  \A t \in Templates : Exclusive(t) =>
    /\ \A p, q \in OwnerTasks(t) : p = q
    /\ \A r, s \in Holders(t) : r = s
    /\ OwnerTasks(t) = {} \/ Holders(t) = {}
    /\ t \in Pooled => OwnerTasks(t) = {} /\ Holders(t) = {}

\* Without I/O errors every consumed directory has an owner whose end removes
\* it: the recovery after a crash leaves none behind.
ConsumedOwned ==
  phase = "serving" /\ ~IoErrors => \A t \in consumed :
    OwnerTasks(t) # {} \/ Holders(t) # {}

\* Every request, and every collection it triggers, comes to an end: no lock,
\* sweep or eviction keeps a task for ever.
RequestsReturn == \A p \in Tasks : ~Idle(p) ~> Idle(p)

\* After a crash the sandboxer always serves again.
RecoveryEnds == phase # "serving" ~> phase = "serving"

\* A template id is in the pool once, under its own key.
PoolEntriesDistinct ==
  \A k \in Keys : \A i, j \in 1 .. Len(available[k]) :
    /\ available[k][i] = available[k][j] => i = j
    /\ KeyOf[available[k][i]] = k

\* A pool entry that is shared has its directory, or a task has just removed
\* the directory and is about to drop the entry.
PoolEntryBacked ==
  \A t \in Pooled : ~Exclusive(t) =>
    dir[t] = "saved" \/ \E p \in Tasks : task[p].gone = t

-----------------------------------------------------------------------------
(* What the comments of the code say, and the code does not keep *)

\* "Pin the template in in_use_count so GC cannot evict the snapshot directory
\* while this sandbox is alive" (start_from_snapshot): an eviction that chose
\* the template before the pin removes the directory after it.
PinKeepsDirectory ==
  phase = "serving" => \A s \in Sandboxes :
    sandbox[s].holds /\ sandbox[s].inMap => dir[sandbox[s].template] # "absent"

\* end_restore "Must be called after every restore attempt (success or
\* failure)": start_with_template_id refuses an Environment template without it.
RestoresEnd ==
  (\A p \in Tasks : Idle(p)) => \A t \in Templates : in_flight_restores[t] = 0
=============================================================================
