------------------------- MODULE ContinuationStore -------------------------
(***************************************************************************)
(* template/continuation.rs with its users: starting a sandbox from the    *)
(* continuation snapshot of a workload (containerd's start and the admin   *)
(* restore), deleting a sandbox, taking a snapshot, and the collection of  *)
(* consumed entries, in the background and after a restart.                *)
(***************************************************************************)
EXTENDS Naturals, FiniteSets

CONSTANTS
  Tasks,        \* concurrently running requests
  Sandboxes,    \* sandbox ids; an id is created at most once
  Identities,   \* WorkloadIdentity: pod_uid and generation, one entry each
  Templates,    \* snapshots; an id is used at most once
  IdentityOf,   \* PooledTemplate.workload_identity
  Disked,       \* templates whose disk_images is not empty
  ConcurrentStarts, \* two sandboxes may start from one identity at once
  AdminDeletes,     \* continuation-delete may be requested
  IoErrors,         \* filesystem calls may fail
  MaxCrashes,       \* bound on the crashes of the sandboxer
  None, Free        \* no template, no lock holder

ASSUME ContinuationAssumption ==
  /\ IsFiniteSet(Tasks) /\ IsFiniteSet(Sandboxes)
  /\ IsFiniteSet(Templates) /\ IsFiniteSet(Identities)
  /\ IdentityOf \in [Templates -> Identities]
  /\ Disked \subseteq Templates
  /\ ConcurrentStarts \in BOOLEAN /\ AdminDeletes \in BOOLEAN
  /\ IoErrors \in BOOLEAN /\ MaxCrashes \in Nat
  /\ None \notin Templates \cup Sandboxes \cup Identities
  /\ Free \notin Tasks

VARIABLES
  entry,     \* identity -> None, "partial" before its metadata, or a template
  consumed,  \* identities whose entry has the consumed marker
  disks,     \* template -> "unborn", "entry", the sandbox they are in, "gone"
  sandbox,   \* what the map and a KuasarSandbox say of the template
  vm,        \* sandbox -> template its VM process runs from, or None
  orphans,   \* templates of VM processes that a crash left without a sandbox
  dumped,    \* sandbox -> template in sandbox.json, None, or NoDir
  task,      \* task -> its program counter and local variables
  gc,        \* the collection: see IdleGc
  phase,     \* "serving", "down" after a crash, "recovering"
  crashes

store == <<entry, consumed, disks>>
vars == <<entry, consumed, disks, sandbox, vm, orphans, dumped, task, gc,
          phase, crashes>>

NoDir == "no_dir"

\* A directory of the entry exists.
Exists(i) == entry[i] # None

\* remove_dir_all of an entry, with the disks that are still there.
Removed(i) ==
  /\ entry' = [entry EXCEPT ![i] = None]
  /\ consumed' = consumed \ {i}
  /\ disks' = [t \in Templates |->
       IF IdentityOf[t] = i /\ disks[t] = "entry" THEN "gone" ELSE disks[t]]

\* remove_dir_all of a sandbox's base_dir, with the disks moved into it.
BaseDirRemoved(s) ==
  /\ dumped' = [dumped EXCEPT ![s] = NoDir]
  /\ disks' = [t \in Templates |-> IF disks[t] = s THEN "gone" ELSE disks[t]]

NoSandbox == [exists |-> FALSE, inMap |-> FALSE, template |-> None,
              typed |-> FALSE, lock |-> Free, late |-> FALSE]

SetSandbox(s, r) == sandbox' = [sandbox EXCEPT ![s] = r]

IdleTask == [pc |-> "idle", sb |-> None, ident |-> None, tmpl |-> None,
             moved |-> None, admin |-> FALSE]

Idle(p) == task[p].pc = "idle"

Become(p, r) == task' = [task EXCEPT ![p] = r]

Goto(p, pc) == Become(p, [task[p] EXCEPT !.pc = pc])

Finish(p) == Become(p, IdleTask)

\* The request returns; the admin restore drops the sandbox's lock with it.
Return(p) ==
  /\ Finish(p)
  /\ IF task[p].admin
     THEN SetSandbox(task[p].sb, [sandbox[task[p].sb] EXCEPT !.lock = Free])
     ELSE UNCHANGED sandbox

IdleGc == [pc |-> "idle", todo |-> {}, ids |-> {}, scan |-> {}, victim |-> None]

-----------------------------------------------------------------------------
(* Sandboxes and snapshots *)

\* create(), and the admin's create_sandbox_slot: dumped, then inserted.
Create(s) ==
  /\ phase = "serving"
  /\ ~sandbox[s].exists
  /\ gc.pc # "collect"
  /\ SetSandbox(s, [NoSandbox EXCEPT !.exists = TRUE, !.inMap = TRUE])
  /\ dumped' = [dumped EXCEPT ![s] = None]
  /\ UNCHANGED <<store, vm, task, gc, orphans, phase, crashes>>

\* create_from_sandbox: refused when the entry's snapshot directory exists.
SnapshotBegin(p, t) ==
  LET i == IdentityOf[t] IN
  /\ phase = "serving"
  /\ Idle(p)
  /\ disks[t] = "unborn"
  /\ \A q \in Tasks : task[q].pc = "snapshot" => task[q].ident # i
  /\ ~Exists(i)
  /\ entry' = [entry EXCEPT ![i] = "partial"]
  /\ Become(p, [IdleTask EXCEPT !.pc = "snapshot", !.ident = i, !.tmpl = t])
  /\ UNCHANGED <<consumed, disks, sandbox, vm, dumped, gc, orphans, phase, crashes>>

\* vm.snapshot() and save(), which both create the directory if need be.
SnapshotSave(p) ==
  LET i == task[p].ident
      t == task[p].tmpl IN
  /\ task[p].pc = "snapshot"
  /\ entry' = [entry EXCEPT ![i] = t]
  /\ disks' = [disks EXCEPT ![t] = "entry"]
  /\ Finish(p)
  /\ UNCHANGED <<consumed, sandbox, vm, dumped, gc, orphans, phase, crashes>>

\* The directory of a snapshot that fails stays.
SnapshotFailed(p) ==
  /\ task[p].pc = "snapshot"
  /\ disks' = [disks EXCEPT ![task[p].tmpl] = "gone"]
  /\ Finish(p)
  /\ UNCHANGED <<entry, consumed, sandbox, vm, dumped, gc, orphans, phase, crashes>>

\* continuation-delete removes an entry whatever its state.
AdminDelete(i) ==
  /\ AdminDeletes
  /\ phase = "serving"
  /\ Exists(i)
  /\ Removed(i)
  /\ UNCHANGED <<sandbox, vm, dumped, task, gc, orphans, phase, crashes>>
-----------------------------------------------------------------------------
(* Starting from a continuation snapshot *)

StartPcs == {"check", "mark", "publish", "validate", "clear", "lock", "move",
             "restore", "post", "fail"}

\* containerd starts a sandbox once at a time; the admin restore wants it
\* Created.
MayStart(s, i) ==
  /\ phase = "serving"
  /\ sandbox[s].inMap
  /\ vm[s] = None
  /\ \A q \in Tasks : task[q].pc \in StartPcs =>
       task[q].sb # s /\ (ConcurrentStarts \/ task[q].ident # i)

\* start(): start_with_continuation_snapshot.
Start(p, s, i) ==
  /\ Idle(p)
  /\ MayStart(s, i)
  /\ Become(p, [IdleTask EXCEPT !.pc = "check", !.sb = s, !.ident = i])
  /\ UNCHANGED <<store, sandbox, vm, dumped, gc, orphans, phase, crashes>>

\* restore_sandbox_continuation locks the sandbox for the whole request.
AdminRestore(p, s, i) ==
  /\ Idle(p)
  /\ MayStart(s, i)
  /\ sandbox[s].lock = Free
  /\ SetSandbox(s, [sandbox[s] EXCEPT !.lock = p])
  /\ Become(p, [IdleTask EXCEPT !.pc = "check", !.sb = s, !.ident = i,
                                !.admin = TRUE])
  /\ UNCHANGED <<store, vm, dumped, gc, orphans, phase, crashes>>

\* Mutant: acquire() does not look for the marker.
AcquireUnmarked(p) ==
  LET i == task[p].ident IN
  /\ task[p].pc = "check"
  /\ IF entry[i] \in Templates
     THEN /\ Become(p, [task[p] EXCEPT !.pc = "mark", !.tmpl = entry[i]])
          /\ UNCHANGED sandbox
     ELSE Return(p)
  /\ UNCHANGED <<store, vm, dumped, gc, orphans, phase, crashes>>

\* acquire(): the entry exists, has no marker, and its metadata loads.
AcquireCheck(p) ==
  LET i == task[p].ident IN
  /\ task[p].pc = "check"
  /\ IF entry[i] \in Templates /\ i \notin consumed
     THEN /\ Become(p, [task[p] EXCEPT !.pc = "mark", !.tmpl = entry[i]])
          /\ UNCHANGED sandbox
     ELSE Return(p)
  /\ UNCHANGED <<store, vm, dumped, gc, orphans, phase, crashes>>

\* acquire(): the marker is created, over an existing one too.  The admin
\* restore records the template at once, under the lock it holds.
AcquireMark(p) ==
  LET i == task[p].ident
      s == task[p].sb IN
  /\ task[p].pc = "mark"
  /\ Exists(i)
  /\ consumed' = consumed \cup {i}
  /\ IF task[p].admin
     THEN /\ SetSandbox(s, [sandbox[s] EXCEPT !.template = task[p].tmpl,
                                              !.typed = TRUE,
                                              !.late = gc.pc # "idle"])
          /\ Goto(p, "move")
     ELSE Goto(p, "publish") /\ UNCHANGED sandbox
  /\ UNCHANGED <<entry, disks, vm, dumped, gc, orphans, phase, crashes>>

\* The entry is gone, or the marker cannot be written or synced.
AcquireFailed(p) ==
  LET i == task[p].ident IN
  /\ task[p].pc = "mark"
  /\ \/ ~Exists(i) /\ UNCHANGED consumed
     \/ IoErrors /\ consumed' \in {consumed, IF Exists(i) THEN consumed \cup {i}
                                                         ELSE consumed}
  /\ Return(p)
  /\ UNCHANGED <<entry, disks, vm, dumped, gc, orphans, phase, crashes>>

\* The template id is published to the sandbox before the validation.
Publish(p) ==
  LET s == task[p].sb IN
  /\ task[p].pc = "publish"
  /\ IF sandbox[s].inMap
     THEN /\ sandbox[s].lock = Free
          /\ SetSandbox(s, [sandbox[s] EXCEPT !.template = task[p].tmpl,
                                              !.late = gc.pc # "idle"])
     ELSE UNCHANGED sandbox
  /\ Goto(p, "validate")
  /\ UNCHANGED <<store, vm, dumped, gc, orphans, phase, crashes>>

Validate(p) ==
  /\ task[p].pc = "validate"
  /\ Goto(p, IF Exists(task[p].ident) THEN "lock" ELSE "clear")
  /\ UNCHANGED <<store, sandbox, vm, dumped, gc, orphans, phase, crashes>>

Cleared(s) == [sandbox[s] EXCEPT !.template = None, !.typed = FALSE]

\* Files are missing: clear_template_restore_state, then fail().
ClearInvalid(p) ==
  LET s == task[p].sb IN
  /\ task[p].pc = "clear"
  /\ IF sandbox[s].inMap
     THEN sandbox[s].lock = Free /\ SetSandbox(s, Cleared(s))
     ELSE UNCHANGED sandbox
  /\ Goto(p, "fail")
  /\ UNCHANGED <<store, vm, dumped, gc, orphans, phase, crashes>>

\* start_from_snapshot: the sandbox is looked up and locked.
BeginRestore(p) ==
  LET s == task[p].sb IN
  /\ task[p].pc = "lock"
  /\ sandbox[s].inMap
  /\ sandbox[s].lock = Free
  /\ SetSandbox(s, [sandbox[s] EXCEPT !.lock = p, !.template = task[p].tmpl,
                                      !.typed = TRUE])
  /\ Goto(p, "move")
  /\ UNCHANGED <<store, vm, dumped, gc, orphans, phase, crashes>>

\* The sandbox is gone, or a hook fails: the published id stays.
BeginFailed(p) ==
  LET s == task[p].sb IN
  /\ task[p].pc = "lock"
  /\ ~sandbox[s].inMap \/ sandbox[s].lock = Free
  /\ Goto(p, "fail")
  /\ UNCHANGED <<store, sandbox, vm, dumped, gc, orphans, phase, crashes>>

\* The restore of the VM failed: the sandbox is cleared and, except by the
\* admin restore, unlocked.
RestoreAborted(p) ==
  LET s == task[p].sb IN
  /\ SetSandbox(s, [Cleared(s) EXCEPT !.lock = IF task[p].admin THEN @ ELSE Free])
  /\ Goto(p, "fail")

\* Mutant: the disks are copied.
MoveDisksCopied(p) ==
  /\ task[p].pc = "move"
  /\ Goto(p, "restore")
  /\ UNCHANGED <<store, sandbox, vm, dumped, gc, orphans, phase, crashes>>

\* vm.restore() renames the disks of the entry into base_dir, if the metadata
\* lists any.
MoveDisks(p) ==
  LET s == task[p].sb
      c == entry[task[p].ident] IN
  /\ task[p].pc = "move"
  /\ IF task[p].tmpl \in Disked
     THEN /\ c \in Templates /\ disks[c] = "entry"
          /\ disks' = [disks EXCEPT ![c] = s]
          /\ Become(p, [task[p] EXCEPT !.pc = "restore", !.moved = c])
     ELSE Goto(p, "restore") /\ UNCHANGED disks
  /\ UNCHANGED <<entry, consumed, sandbox, vm, dumped, gc, orphans, phase, crashes>>

\* A rename fails and those before it are undone.
MoveFailed(p) ==
  /\ task[p].pc = "move"
  /\ RestoreAborted(p)
  /\ UNCHANGED <<store, vm, dumped, gc, orphans, phase, crashes>>

\* The VM runs from the files that are in the entry.
RestoreVm(p) ==
  LET c == entry[task[p].ident] IN
  /\ task[p].pc = "restore"
  /\ c \in Templates
  /\ vm' = [vm EXCEPT ![task[p].sb] = c]
  /\ Goto(p, "post")
  /\ UNCHANGED <<store, sandbox, dumped, gc, orphans, phase, crashes>>

\* A later step of vm.restore() fails: the VM is killed, the disks go back.
RestoreFailed(p) ==
  LET c == task[p].moved IN
  /\ task[p].pc = "restore"
  /\ \/ c # None /\ Exists(task[p].ident) /\ disks' = [disks EXCEPT ![c] = "entry"]
     \/ /\ c = None \/ ~Exists(task[p].ident) \/ IoErrors
        /\ UNCHANGED disks
  /\ RestoreAborted(p)
  /\ UNCHANGED <<entry, consumed, vm, dumped, gc, orphans, phase, crashes>>

\* Mutant: the disks are returned even if the VM could not be stopped.
PostFailedReturns(p) ==
  LET s == task[p].sb IN
  /\ task[p].pc = "post"
  /\ vm' \in {[vm EXCEPT ![s] = None], vm}
  /\ disks' = [t \in Templates |-> IF t = task[p].moved THEN "entry" ELSE disks[t]]
  /\ RestoreAborted(p)
  /\ UNCHANGED <<entry, consumed, dumped, gc, orphans, phase, crashes>>

\* init_client, the cgroup, a hook or the dump fails: the VM is stopped, or the
\* stop fails as well; the disks stay in base_dir.
PostFailed(p) ==
  LET s == task[p].sb IN
  /\ task[p].pc = "post"
  /\ \/ vm' = [vm EXCEPT ![s] = None]
     \/ IoErrors /\ UNCHANGED vm
  /\ RestoreAborted(p)
  /\ UNCHANGED <<store, dumped, gc, orphans, phase, crashes>>

\* dump() (skipped when base_dir is gone), then complete(), which does nothing.
Complete(p) ==
  LET s == task[p].sb IN
  /\ task[p].pc = "post"
  /\ dumped' = [dumped EXCEPT ![s] = IF @ = NoDir THEN @ ELSE sandbox[s].template]
  /\ SetSandbox(s, [sandbox[s] EXCEPT !.lock = Free])
  /\ Finish(p)
  /\ UNCHANGED <<store, vm, gc, orphans, phase, crashes>>

\* fail(): the marker of the identity's entry is removed.
Fail(p) ==
  /\ task[p].pc = "fail"
  /\ \/ consumed' = consumed \ {task[p].ident}
     \/ IoErrors /\ UNCHANGED consumed
  /\ Return(p)
  /\ UNCHANGED <<entry, disks, vm, dumped, gc, orphans, phase, crashes>>

-----------------------------------------------------------------------------
(* Deleting a sandbox *)

DeletePcs == {"del_wait", "destroy_dir", "del_entry", "del_unlock", "del_remove"}

\* delete() and destroy_sandbox() look the sandbox up before they lock it.
DeleteLookup(p, s) ==
  /\ phase = "serving"
  /\ Idle(p)
  /\ sandbox[s].inMap
  /\ \A q \in Tasks : task[q].sb = s => task[q].pc \notin DeletePcs
  /\ Become(p, [IdleTask EXCEPT !.pc = "del_wait", !.sb = s])
  /\ UNCHANGED <<store, sandbox, vm, dumped, gc, orphans, phase, crashes>>

\* delete(): lock, stop the VM, remove base_dir.
DeleteBody(p) ==
  LET s == task[p].sb IN
  /\ task[p].pc = "del_wait"
  /\ sandbox[s].lock = Free
  /\ SetSandbox(s, [sandbox[s] EXCEPT !.lock = p])
  /\ vm' = [vm EXCEPT ![s] = None]
  /\ BaseDirRemoved(s)
  /\ Become(p, [task[p] EXCEPT !.pc = "del_entry", !.tmpl = sandbox[s].template])
  /\ UNCHANGED <<entry, consumed, gc, orphans, phase, crashes>>

\* delete_by_template_id: the entry whose metadata has the id is removed.
DeleteEntry(p) ==
  LET s == task[p].sb
      Own == {i \in Identities : entry[i] = task[p].tmpl /\ task[p].tmpl # None} IN
  /\ task[p].pc = "del_entry"
  /\ \/ /\ sandbox[s].typed
        /\ \E i \in Own : Removed(i)
     \/ /\ ~sandbox[s].typed \/ Own = {} \/ IoErrors
        /\ UNCHANGED store
  /\ Goto(p, "del_unlock")
  /\ UNCHANGED <<sandbox, vm, dumped, gc, orphans, phase, crashes>>

DeleteUnlock(p) ==
  LET s == task[p].sb IN
  /\ task[p].pc = "del_unlock"
  /\ SetSandbox(s, [sandbox[s] EXCEPT !.lock = Free])
  /\ Goto(p, "del_remove")
  /\ UNCHANGED <<store, vm, dumped, gc, orphans, phase, crashes>>

\* destroy_sandbox(): the VM is stopped under the lock, base_dir removed
\* without it; the entry is left to the collection.
DestroyStop(p) ==
  LET s == task[p].sb IN
  /\ task[p].pc = "del_wait"
  /\ sandbox[s].lock = Free
  /\ vm' = [vm EXCEPT ![s] = None]
  /\ Goto(p, "destroy_dir")
  /\ UNCHANGED <<store, sandbox, dumped, gc, orphans, phase, crashes>>

DestroyDir(p) ==
  /\ task[p].pc = "destroy_dir"
  /\ BaseDirRemoved(task[p].sb)
  /\ Goto(p, "del_remove")
  /\ UNCHANGED <<entry, consumed, sandbox, vm, gc, orphans, phase, crashes>>

\* The stop or the removal of base_dir fails, after part of it is done.
DeleteFailed(p) ==
  /\ IoErrors
  /\ \/ task[p].pc = "del_wait" /\ sandbox[task[p].sb].lock = Free
     \/ task[p].pc = "destroy_dir"
  /\ vm' \in {vm, [vm EXCEPT ![task[p].sb] = None]}
  /\ BaseDirRemoved(task[p].sb) \/ UNCHANGED <<dumped, disks>>
  /\ Finish(p)
  /\ UNCHANGED <<entry, consumed, sandbox, gc, orphans, phase, crashes>>

\* The map is written when no collection reads it.
DeleteRemove(p) ==
  LET s == task[p].sb IN
  /\ task[p].pc = "del_remove"
  /\ gc.pc # "collect"
  /\ SetSandbox(s, [sandbox[s] EXCEPT !.inMap = FALSE])
  /\ Finish(p)
  /\ UNCHANGED <<store, vm, dumped, gc, orphans, phase, crashes>>

-----------------------------------------------------------------------------
(* Collecting consumed entries, and the restart *)

\* start_continuation_gc_task: the map is read-locked while each sandbox of it
\* is locked in turn.
GcStart ==
  /\ phase = "serving"
  /\ gc.pc = "idle"
  /\ gc' = [IdleGc EXCEPT !.pc = "collect",
                          !.todo = {s \in Sandboxes : sandbox[s].inMap}]
  /\ UNCHANGED <<store, sandbox, vm, orphans, dumped, task, phase, crashes>>

GcRead(s) ==
  /\ gc.pc = "collect"
  /\ s \in gc.todo
  /\ sandbox[s].lock = Free
  /\ gc' = [gc EXCEPT !.todo = @ \ {s}, !.ids = @ \cup ({sandbox[s].template} \ {None})]
  /\ UNCHANGED <<store, sandbox, vm, orphans, dumped, task, phase, crashes>>

GcCollected ==
  /\ gc.pc = "collect"
  /\ gc.todo = {}
  /\ gc' = [gc EXCEPT !.pc = "scan", !.scan = Identities]
  /\ UNCHANGED <<store, sandbox, vm, orphans, dumped, task, phase, crashes>>

GcCheckInverted(i) ==
  /\ gc.pc = "scan"
  /\ i \in gc.scan
  /\ gc' = IF i \notin consumed /\ entry[i] \in Templates \ gc.ids
           THEN [gc EXCEPT !.pc = "remove", !.scan = @ \ {i}, !.victim = i]
           ELSE [gc EXCEPT !.scan = @ \ {i}]
  /\ UNCHANGED <<store, sandbox, vm, orphans, dumped, task, phase, crashes>>

\* gc_orphaned_consumed: an entry with a marker, metadata, and an id that no
\* sandbox had.
GcCheck(i) ==
  /\ gc.pc = "scan"
  /\ i \in gc.scan
  /\ gc' = IF i \in consumed /\ entry[i] \in Templates \ gc.ids
           THEN [gc EXCEPT !.pc = "remove", !.scan = @ \ {i}, !.victim = i]
           ELSE [gc EXCEPT !.scan = @ \ {i}]
  /\ UNCHANGED <<store, sandbox, vm, orphans, dumped, task, phase, crashes>>

GcRemove ==
  /\ gc.pc = "remove"
  /\ Removed(gc.victim) \/ (IoErrors /\ UNCHANGED store)
  /\ gc' = [gc EXCEPT !.pc = "scan", !.victim = None]
  /\ UNCHANGED <<sandbox, vm, orphans, dumped, task, phase, crashes>>

\* The collection that recover() runs ends before containerd is served.
GcEnd ==
  /\ gc.pc = "scan"
  /\ gc.scan = {}
  /\ gc' = IdleGc
  /\ phase' = "serving"
  /\ UNCHANGED <<store, sandbox, vm, orphans, dumped, task, crashes>>

\* The sandboxer dies; VM processes and files stay.
Crash ==
  /\ phase # "down"
  /\ crashes < MaxCrashes
  /\ crashes' = crashes + 1
  /\ phase' = "down"
  /\ task' = [p \in Tasks |-> IdleTask]
  /\ gc' = IdleGc
  /\ sandbox' = [s \in Sandboxes |-> [NoSandbox EXCEPT !.exists = sandbox[s].exists,
                                                       !.late = sandbox[s].late]]
  /\ UNCHANGED <<store, vm, orphans, dumped>>

\* Mutant: a sandbox without a dump is recovered too.
RecoverAll ==
  /\ phase = "down"
  /\ sandbox' = [s \in Sandboxes |-> [sandbox[s] EXCEPT !.inMap = TRUE,
                                                        !.template = dumped[s]]]
  /\ phase' = "serving"
  /\ UNCHANGED <<store, vm, orphans, dumped, task, gc, crashes>>

\* recover(): the sandboxes R come back with what their dump says.  A Running
\* one that does not is killed, with its base_dir; the VM of one that was
\* dumped before it ran is nobody's.
Recover ==
  /\ phase = "down"
  /\ \E R \in SUBSET {s \in Sandboxes : dumped[s] # NoDir} :
       /\ sandbox' = [s \in Sandboxes |->
            IF s \notin R THEN sandbox[s]
            ELSE [sandbox[s] EXCEPT !.inMap = TRUE, !.template = dumped[s],
                                    !.typed = dumped[s] # None]]
       /\ vm' = [s \in Sandboxes |->
            IF s \in R /\ dumped[s] # None THEN vm[s] ELSE None]
       /\ orphans' = orphans \cup
            ({vm[s] : s \in {x \in Sandboxes : dumped[x] \in {None, NoDir}}} \ {None})
       /\ dumped' = [s \in Sandboxes |-> IF s \in R THEN dumped[s] ELSE NoDir]
       /\ disks' = [t \in Templates |->
            IF disks[t] \in Sandboxes \ R THEN "gone" ELSE disks[t]]
       /\ gc' = [IdleGc EXCEPT !.pc = "collect", !.todo = R]
  /\ phase' = "recovering"
  /\ UNCHANGED <<entry, consumed, task, crashes>>

-----------------------------------------------------------------------------
Init ==
  /\ entry = [i \in Identities |-> None]
  /\ consumed = {}
  /\ disks = [t \in Templates |-> "unborn"]
  /\ sandbox = [s \in Sandboxes |-> NoSandbox]
  /\ vm = [s \in Sandboxes |-> None]
  /\ orphans = {}
  /\ dumped = [s \in Sandboxes |-> NoDir]
  /\ task = [p \in Tasks |-> IdleTask]
  /\ gc = IdleGc
  /\ phase = "serving"
  /\ crashes = 0

StartStep(p) ==
  \/ AcquireCheck(p) \/ AcquireMark(p) \/ AcquireFailed(p) \/ Publish(p)
  \/ Validate(p) \/ ClearInvalid(p) \/ BeginRestore(p) \/ BeginFailed(p)
  \/ MoveDisks(p) \/ MoveFailed(p) \/ RestoreVm(p) \/ RestoreFailed(p)
  \/ PostFailed(p) \/ Complete(p) \/ Fail(p)

DeleteStep(p) ==
  \/ DeleteBody(p) \/ DeleteEntry(p) \/ DeleteUnlock(p) \/ DestroyStop(p)
  \/ DestroyDir(p) \/ DeleteFailed(p) \/ DeleteRemove(p)

SnapshotStep(p) == SnapshotSave(p) \/ SnapshotFailed(p)

TaskStep(p) == StartStep(p) \/ DeleteStep(p) \/ SnapshotStep(p)

Request(p) ==
  \/ \E s \in Sandboxes, i \in Identities : Start(p, s, i) \/ AdminRestore(p, s, i)
  \/ \E s \in Sandboxes : DeleteLookup(p, s)
  \/ \E t \in Templates : SnapshotBegin(p, t)

GcStep ==
  \/ GcStart
  \/ \E s \in Sandboxes : GcRead(s)
  \/ GcCollected
  \/ \E i \in Identities : GcCheck(i)
  \/ GcRemove \/ GcEnd

\* What the server does between two restarts when no administrator interferes.
ServeNext ==
  \/ \E s \in Sandboxes : Create(s)
  \/ \E p \in Tasks : Request(p) \/ TaskStep(p)
  \/ GcStep

Next ==
  \/ ServeNext
  \/ \E i \in Identities : AdminDelete(i)
  \/ Crash \/ Recover

Spec == Init /\ [][Next]_vars

ServeSpec == Init /\ [][ServeNext]_vars

\* tokio polls a task that is ready; its Mutex is first come, first served; the
\* collection runs at every interval.
TaskFairness ==
  /\ \A p \in Tasks :
       /\ WF_vars(TaskStep(p))
       /\ SF_vars(Publish(p) \/ ClearInvalid(p) \/ BeginRestore(p) \/ BeginFailed(p)
                  \/ DeleteBody(p) \/ DestroyStop(p) \/ DeleteRemove(p))
  /\ \A s \in Sandboxes : SF_vars(GcRead(s))
  /\ WF_vars(Recover)

FairSpec == Spec /\ TaskFairness /\ WF_vars(GcStep)

-----------------------------------------------------------------------------
(* Properties *)

TaskType ==
  [pc : {"idle", "snapshot"} \cup StartPcs \cup DeletePcs,
   sb : Sandboxes \cup {None}, ident : Identities \cup {None},
   tmpl : Templates \cup {None}, moved : Templates \cup {None}, admin : BOOLEAN]

\* Type invariant of the store, the sandboxes and the collection.
TypeOK ==
  /\ entry \in [Identities -> Templates \cup {None, "partial"}]
  /\ consumed \in SUBSET Identities
  /\ disks \in [Templates -> Sandboxes \cup {"unborn", "entry", "gone"}]
  /\ sandbox \in [Sandboxes ->
       [exists : BOOLEAN, inMap : BOOLEAN, template : Templates \cup {None},
        typed : BOOLEAN, lock : Tasks \cup {Free}, late : BOOLEAN]]
  /\ vm \in [Sandboxes -> Templates \cup {None}]
  /\ orphans \in SUBSET Templates
  /\ dumped \in [Sandboxes -> Templates \cup {None, NoDir}]
  /\ task \in [Tasks -> TaskType]
  /\ gc \in [pc : {"idle", "collect", "scan", "remove"}, todo : SUBSET Sandboxes,
             ids : SUBSET (Templates \cup {None}), scan : SUBSET Identities,
             victim : Identities \cup {None}]
  /\ phase \in {"serving", "down", "recovering"}
  /\ crashes \in 0 .. MaxCrashes

Running(t) == {s \in Sandboxes : vm[s] = t}

\* A workload never runs twice: at most one VM process runs from a snapshot,
\* through failed starts that release it, collections, deletes and crashes.
RunsOnce ==
  \A t \in Templates : /\ \A r, s \in Running(t) : r = s
                       /\ t \in orphans => Running(t) = {}

\* The same when two starts may race for the snapshot, if it has disks: the
\* rename of the disks lets one of them through.
DiskedRunsOnce ==
  \A t \in Disked : /\ \A r, s \in Running(t) : r = s
                    /\ t \in orphans => Running(t) = {}

\* A running VM has the disks it was restored with: no other restore takes
\* them, no roll-back returns them, no collection removes them.
RunningHasDisks ==
  \A s \in Sandboxes : vm[s] \in Disked /\ dumped[s] # NoDir => disks[vm[s]] = s

\* The snapshot that backs the memory of a running sandbox stays in the store
\* until the sandbox is deleted, if the id was published when no collection was
\* under way.
BackedWhileRunning ==
  \A s \in Sandboxes :
    vm[s] # None /\ sandbox[s].inMap /\ sandbox[s].template = vm[s] /\ ~sandbox[s].late =>
    \/ entry[IdentityOf[vm[s]]] = vm[s]
    \/ \E p \in Tasks : task[p].sb = s /\ task[p].pc \in {"del_unlock", "del_remove"}

\* Nobody uses the consumed entry of i.
Orphaned(i) ==
  /\ i \in consumed
  /\ entry[i] \in Templates
  /\ \A p \in Tasks : task[p].pc \in StartPcs => task[p].ident # i
  /\ \A s \in Sandboxes : sandbox[s].inMap => sandbox[s].template # entry[i]

\* A consumed entry that no sandbox refers to does not stay for ever.
OrphansCollected == \A i \in Identities : Orphaned(i) ~> ~Orphaned(i)

-----------------------------------------------------------------------------
(* What the comments of the code say, and the code does not keep *)

\* "exclusive 1:1; the entry is consumed on acquire and never reused": two
\* starts that both find no marker both get the entry.
ConsumedOnce ==
  \A t \in Templates : \A r, s \in Running(t) : r = s

\* fail() "removes the consumed marker so the entry can be re-acquired on the
\* next attempt": the disks of the entry may be in the failed sandbox's
\* directory by then, and no later restore succeeds.
ReleasedIntact ==
  \A i \in Identities :
    /\ entry[i] \in Disked
    /\ i \notin consumed
    /\ \A p \in Tasks : task[p].pc \in StartPcs => task[p].ident # i
    => disks[entry[i]] = "entry"
=============================================================================
