----------------------------- MODULE GuestTasks -----------------------------
(***************************************************************************)
(* The task service inside the VM (vmm-task): containers and their exec     *)
(* processes, the storages they mount, the devices those wait for, the exit *)
(* events of their processes, and the adoption of a container that a        *)
(* restored snapshot was already running.                                   *)
(*                                                                          *)
(* A request that changes a container holds the mutex on `containers` from  *)
(* its start to its end (`req`); processes, the SIGCHLD loop, the uevent    *)
(* listener and the first half of adopt_container run beside it.  Exit      *)
(* events wait for that mutex.                                              *)
(***************************************************************************)
EXTENDS Naturals, Sequences, SequencesExt, FiniteSets

CONSTANTS
  NewIds,      \* ids that containerd creates containers with
  Restored,    \* ids of the containers a restored snapshot runs
  Execs,       \* exec ids
  Mounts,      \* NewIds -> sequence of storages [mp, dev]
  Devices,     \* PCI addresses of hotplugged disks
  MaxPid,      \* bound: processes ever started
  MaxFailed,   \* bound: calls that fail
  NoTask

VARIABLES
  tasks,       \* containers: id -> NoTask or [pid, status, runc, started, execs]
  adoptions,   \* pending_adoptions: id -> NoTask or [pid, orphan]
  handoff,     \* adopt_container between its two critical sections
  fresh,       \* ids containerd has not sent Create for
  procs,       \* kernel: pid -> [state, runc]
  npid,        \* kernel: pids given out
  runcs,       \* the runtime's containers
  exits,       \* exit events not yet handled by process_exits
  refs,        \* SandboxResources.storages: mount point -> ids, or NoTask
  mountpoints, \* kernel: what is mounted
  plugged,     \* kernel: disks in the VM
  cache,       \* DeviceMonitor.devices
  subs,        \* DeviceMonitor.subscribers: [dev, live]
  failed,      \* calls that failed
  req          \* the request that holds the mutex

taskVars == <<tasks, adoptions, handoff, fresh, procs, npid, runcs, exits,
              refs, mountpoints, plugged, cache, subs, failed, req>>

Ids == NewIds \cup Restored
MountPoints == UNION {{Mounts[c][k].mp : k \in DOMAIN Mounts[c]} : c \in NewIds}

NoReq == [pc |-> "none", c |-> NoTask, todo |-> <<>>]
Locked == req.pc # "none"
SandboxLocked == req.pc \in {"storages", "wait", "mount"}

Task(pid, status, runc) == [pid |-> pid, status |-> status, runc |-> runc, started |-> FALSE, execs |-> << >>]
Alive(pid) == procs[pid].state = "alive"
\* /proc/<pid> exists until the process is reaped.
HasProc(pid) == procs[pid].state \in {"alive", "zombie"}

\* The processes of a runtime container, killed.
Killed(r) == [p \in DOMAIN procs |->
                IF procs[p].runc = r /\ procs[p].state = "alive"
                THEN [procs[p] EXCEPT !.state = "zombie"] ELSE procs[p]]

Spawned(r) == [procs EXCEPT ![npid + 1] = [state |-> "alive", runc |-> r]]

CallFailed == failed < MaxFailed /\ failed' = failed + 1

-----------------------------------------------------------------------------
(* Devices. *)

Plug(d) ==
  /\ d \notin plugged
  /\ plugged' = plugged \cup {d}
  /\ UNCHANGED <<tasks, adoptions, handoff, fresh, procs, npid, runcs, exits, refs,
                 mountpoints, cache, subs, failed, req>>

\* An add event is sent to one subscriber that matches, of those that are left,
\* whether or not it is still waiting.
AddEvent(d) ==
  /\ d \in plugged \ cache
  /\ cache' = cache \cup {d}
  /\ LET matching == {s \in subs : s.dev = d} IN
     \/ \E s \in matching :
          /\ s.live
          /\ subs' = subs \ {s}
          /\ req' = [req EXCEPT !.pc = "mount"]
     \/ /\ matching = {} \/ \E s \in matching : ~s.live
        /\ UNCHANGED <<subs, req>>
  /\ UNCHANGED <<tasks, adoptions, handoff, fresh, procs, npid, runcs, exits, refs,
                 mountpoints, plugged, failed>>

-----------------------------------------------------------------------------
(* Create. *)

\* The request's next storage.
Storage == Head(req.todo)

Create(c) ==
  /\ ~Locked /\ tasks[c] = NoTask
  /\ handoff # NoTask => handoff.new # c
  /\ req' = [pc |-> "storages", c |-> c, todo |-> Mounts[c]]
  /\ fresh' = fresh \ {c}
  /\ UNCHANGED <<tasks, adoptions, handoff, procs, npid, runcs, exits, refs,
                 mountpoints, plugged, cache, subs, failed>>

NextStorage == req' = [req EXCEPT !.pc = "storages", !.todo = Tail(@)]

\* add_storage of a storage that is mounted already.
ShareStorage ==
  /\ req.pc = "storages" /\ req.todo # <<>>
  /\ refs[Storage.mp] # NoTask
  /\ refs' = [refs EXCEPT ![Storage.mp] = @ \cup {req.c}]
  /\ NextStorage
  /\ UNCHANGED <<tasks, adoptions, handoff, fresh, procs, npid, runcs, exits,
                 mountpoints, plugged, cache, subs, failed>>

\* get_device: the device is known, or the request subscribes and waits.
FindDevice ==
  /\ req.pc = "storages" /\ req.todo # <<>>
  /\ refs[Storage.mp] = NoTask
  /\ IF Storage.dev \in cache
     THEN /\ req' = [req EXCEPT !.pc = "mount"]
          /\ UNCHANGED subs
     ELSE /\ req' = [req EXCEPT !.pc = "wait"]
          /\ subs' = subs \cup {[dev |-> Storage.dev, live |-> TRUE]}
  /\ UNCHANGED <<tasks, adoptions, handoff, fresh, procs, npid, runcs, exits, refs,
                 mountpoints, plugged, cache, failed>>

\* The wait times out: Create fails, and its subscription stays.
DeviceTimeout ==
  /\ req.pc = "wait"
  /\ subs' = {[s EXCEPT !.live = FALSE] : s \in subs}
  /\ req' = NoReq
  /\ UNCHANGED <<tasks, adoptions, handoff, fresh, procs, npid, runcs, exits, refs,
                 mountpoints, plugged, cache, failed>>

\* The containers whose storages include the mount point.
Sharers(mp) == {c \in NewIds : \E k \in DOMAIN Mounts[c] : Mounts[c][k].mp = mp}

\* mount_storage; the storage arrives with the references the host recorded.
MountStorage ==
  /\ req.pc = "mount"
  /\ \/ /\ mountpoints' = mountpoints \cup {Storage.mp}
        /\ \E holders \in {{req.c}, Sharers(Storage.mp)} :
             refs' = [refs EXCEPT ![Storage.mp] = holders]
        /\ NextStorage
        /\ UNCHANGED failed
     \/ /\ mountpoints' \in {mountpoints, mountpoints \cup {Storage.mp}}
        /\ req' = NoReq
        /\ CallFailed
        /\ UNCHANGED refs
  /\ UNCHANGED <<tasks, adoptions, handoff, fresh, procs, npid, runcs, exits,
                 plugged, cache, subs>>

\* Mutant: nobody looks whether the orphan's process is still there.
AdoptUnchecked ==
  /\ req.pc = "storages" /\ req.todo = <<>> /\ adoptions[req.c] # NoTask
  /\ tasks' = [tasks EXCEPT ![req.c] =
                 Task(adoptions[req.c].pid, "running", adoptions[req.c].orphan)]
  /\ adoptions' = [adoptions EXCEPT ![req.c] = NoTask]
  /\ req' = NoReq
  /\ UNCHANGED <<handoff, fresh, procs, npid, runcs, exits, refs, mountpoints,
                 plugged, cache, subs, failed>>

\* take_adoption: the container becomes the orphan, if that still has a process.
Adopt ==
  /\ req.pc = "storages" /\ req.todo = <<>> /\ adoptions[req.c] # NoTask
  /\ LET a == adoptions[req.c] IN
       tasks' = IF HasProc(a.pid)
                THEN [tasks EXCEPT ![req.c] = Task(a.pid, "running", a.orphan)] ELSE tasks
  /\ adoptions' = [adoptions EXCEPT ![req.c] = NoTask]
  /\ req' = NoReq
  /\ UNCHANGED <<handoff, fresh, procs, npid, runcs, exits, refs, mountpoints,
                 plugged, cache, subs, failed>>

\* do_create; what follows the runtime's create may fail too.
RuntimeCreate ==
  /\ req.pc = "storages" /\ req.todo = <<>> /\ adoptions[req.c] = NoTask
  /\ npid < MaxPid
  /\ \/ /\ req.c \notin runcs
        /\ procs' = Spawned(req.c) /\ npid' = npid + 1
        /\ runcs' = runcs \cup {req.c}
        /\ \/ /\ tasks' = [tasks EXCEPT ![req.c] = Task(npid + 1, "created", req.c)]
              /\ UNCHANGED failed
           \/ CallFailed /\ UNCHANGED tasks
     \/ /\ req.c \in runcs \/ failed < MaxFailed
        /\ failed' = IF req.c \in runcs THEN failed ELSE failed + 1
        /\ UNCHANGED <<tasks, procs, npid, runcs>>
  /\ req' = NoReq
  /\ UNCHANGED <<adoptions, handoff, fresh, exits, refs, mountpoints, plugged, cache, subs>>

-----------------------------------------------------------------------------
(* The other requests on a container. *)

\* The runtime refuses to start a container whose process is gone; an adopted
\* container is running already.
Start(c) ==
  /\ ~Locked /\ tasks[c] # NoTask
  /\ tasks[c].runc # c \/ (tasks[c].status = "created" /\ Alive(tasks[c].pid))
  /\ tasks' = [tasks EXCEPT ![c].status = "running", ![c].started = TRUE]
  /\ UNCHANGED <<adoptions, handoff, fresh, procs, npid, runcs, exits, refs,
                 mountpoints, plugged, cache, subs, failed, req>>

\* exec targets the runtime container, which for an adopted one is the orphan's.
ExecStart(c, e) ==
  /\ ~Locked /\ tasks[c] # NoTask /\ e \notin DOMAIN tasks[c].execs
  /\ Alive(tasks[c].pid) /\ npid < MaxPid
  /\ procs' = Spawned(tasks[c].runc) /\ npid' = npid + 1
  /\ tasks' = [tasks EXCEPT ![c].execs = (e :> [pid |-> npid + 1, status |-> "running"]) @@ @]
  /\ UNCHANGED <<adoptions, handoff, fresh, runcs, exits, refs, mountpoints, plugged,
                 cache, subs, failed, req>>

Kill(c) ==
  /\ ~Locked /\ tasks[c] # NoTask
  /\ procs' = Killed(tasks[c].runc)
  /\ UNCHANGED <<tasks, adoptions, handoff, fresh, npid, runcs, exits, refs,
                 mountpoints, plugged, cache, subs, failed, req>>

\* The container's references are dropped; what nothing refers to is forgotten,
\* and unmounted unless that fails.
DeferStorages(c) ==
  LET left == [mp \in MountPoints |-> IF refs[mp] = NoTask THEN NoTask ELSE refs[mp] \ {c}]
      zero == {mp \in MountPoints : left[mp] = {}}
  IN  /\ refs' = [mp \in MountPoints |-> IF mp \in zero THEN NoTask ELSE left[mp]]
      /\ \/ mountpoints' = mountpoints \ zero /\ UNCHANGED failed
         \/ zero # {} /\ CallFailed /\ UNCHANGED mountpoints

\* delete, with force, and the factory's cleanup.
Delete(c) ==
  /\ ~Locked /\ tasks[c] # NoTask
  /\ procs' = Killed(tasks[c].runc)
  /\ runcs' = runcs \ {tasks[c].runc}
  /\ tasks' = [tasks EXCEPT ![c] = NoTask]
  /\ DeferStorages(c)
  /\ UNCHANGED <<adoptions, handoff, fresh, npid, exits, plugged, cache, subs, req>>

-----------------------------------------------------------------------------
(* adopt_container: the orphan leaves the map under one mutex, and is      *)
(* registered under the other.                                              *)

AdoptContainer(o, c) ==
  /\ ~Locked /\ handoff = NoTask
  /\ tasks[o] # NoTask /\ c \in fresh /\ adoptions[c] = NoTask
  /\ handoff' = [pid |-> tasks[o].pid, orphan |-> o, new |-> c]
  /\ tasks' = [tasks EXCEPT ![o] = NoTask]
  /\ UNCHANGED <<adoptions, fresh, procs, npid, runcs, exits, refs, mountpoints,
                 plugged, cache, subs, failed, req>>

RegisterAdoption ==
  /\ handoff # NoTask /\ ~SandboxLocked
  /\ adoptions' = [adoptions EXCEPT ![handoff.new] =
                     [pid |-> handoff.pid, orphan |-> handoff.orphan]]
  /\ handoff' = NoTask
  /\ UNCHANGED <<tasks, fresh, procs, npid, runcs, exits, refs, mountpoints,
                 plugged, cache, subs, failed, req>>

-----------------------------------------------------------------------------
(* Exits. *)

ProcessEnds(p) ==
  /\ procs[p].state = "alive"
  /\ procs' = [procs EXCEPT ![p].state = "zombie"]
  /\ UNCHANGED <<tasks, adoptions, handoff, fresh, npid, runcs, exits, refs,
                 mountpoints, plugged, cache, subs, failed, req>>

\* The SIGCHLD loop: waitpid, then an event to every subscriber.
Reap(p) ==
  /\ procs[p].state = "zombie"
  /\ procs' = [procs EXCEPT ![p].state = "gone"]
  /\ exits' = Append(exits, p)
  /\ UNCHANGED <<tasks, adoptions, handoff, fresh, npid, runcs, refs, mountpoints,
                 plugged, cache, subs, failed, req>>

\* process_exits: the end of an init process ends the container's others, and
\* marks it; that of an exec process marks that one.
HandleExit ==
  /\ ~Locked /\ exits # <<>>
  /\ exits' = Tail(exits)
  /\ LET p == Head(exits)
         ofInit == {c \in Ids : tasks[c] # NoTask /\ tasks[c].pid = p}
         Marked(t) == [t EXCEPT !.execs = [e \in DOMAIN @ |->
                         IF @[e].pid = p THEN [@[e] EXCEPT !.status = "stopped"] ELSE @[e]]]
     IN  IF ofInit # {}
         THEN \E c \in ofInit :
                /\ tasks' = [tasks EXCEPT ![c].status = "stopped"]
                /\ procs' = Killed(tasks[c].runc)
         ELSE /\ tasks' = [c \in Ids |-> IF tasks[c] = NoTask THEN NoTask ELSE Marked(tasks[c])]
              /\ UNCHANGED procs
  /\ UNCHANGED <<adoptions, handoff, fresh, npid, runcs, refs, mountpoints, plugged,
                 cache, subs, failed, req>>

-----------------------------------------------------------------------------
\* A VM that was cold started, or restored with its containers running.
TaskInit ==
  \E running \in {{}, Restored} :
    \E pid \in {f \in [running -> 1..Cardinality(running)] :
                  \A x, y \in running : f[x] = f[y] => x = y} :
    /\ tasks = [c \in Ids |-> IF c \in running THEN Task(pid[c], "running", c) ELSE NoTask]
    /\ procs = [p \in 1..MaxPid |->
                  IF \E c \in running : pid[c] = p
                  THEN [state |-> "alive", runc |-> CHOOSE c \in running : pid[c] = p]
                  ELSE [state |-> "none", runc |-> NoTask]]
    /\ npid = Cardinality(running) /\ runcs = running
    /\ adoptions = [c \in NewIds |-> NoTask] /\ handoff = NoTask /\ fresh = NewIds
    /\ exits = <<>> /\ refs = [mp \in MountPoints |-> NoTask] /\ mountpoints = {}
    /\ plugged = {} /\ cache = {} /\ subs = {} /\ failed = 0 /\ req = NoReq

RequestStep == ShareStorage \/ FindDevice \/ DeviceTimeout \/ MountStorage \/ Adopt \/ RuntimeCreate

TaskNext ==
  \/ \E d \in Devices : Plug(d) \/ AddEvent(d)
  \/ \E c \in NewIds : Create(c) \/ \E o \in Restored : AdoptContainer(o, c)
  \/ RequestStep
  \/ \E c \in NewIds : Start(c) \/ Kill(c) \/ Delete(c) \/ \E e \in Execs : ExecStart(c, e)
  \/ RegisterAdoption
  \/ \E p \in 1..MaxPid : ProcessEnds(p) \/ Reap(p)
  \/ HandleExit

TaskSpec == TaskInit /\ [][TaskNext]_taskVars

-----------------------------------------------------------------------------
(* Properties. *)

Pids == 1..MaxPid

\* Type invariant of the guest's containers, processes and mounts.
TaskTypeOK ==
  /\ DOMAIN tasks = Ids /\ npid \in 0..MaxPid /\ fresh \subseteq NewIds
  /\ \A c \in Ids : tasks[c] # NoTask =>
       /\ tasks[c].pid \in 1..npid /\ tasks[c].runc \in Ids
       /\ tasks[c].status \in {"created", "running", "stopped"}
  /\ procs \in [Pids -> [state : {"none", "alive", "zombie", "gone"}, runc : Ids \cup {NoTask}]]
  /\ mountpoints \subseteq MountPoints /\ cache \subseteq plugged

Queued(p) == \E k \in DOMAIN exits : exits[k] = p

\* No exit is lost: a container, or an exec process, whose process has been reaped
\* and that is not marked stopped has its exit event still queued.  This covers a
\* process that ends while it is being created, and one that ends while its
\* container is handed from a restored id to a new one.  An adopted container
\* that was started is left out: start() calls it running whatever became of it.
ExitIsPending ==
  \A c \in Ids : tasks[c] # NoTask =>
    /\ procs[tasks[c].pid].state = "gone" /\ tasks[c].status # "stopped" =>
         Queued(tasks[c].pid) \/ (tasks[c].runc # c /\ tasks[c].started)
    /\ \A e \in DOMAIN tasks[c].execs :
         LET x == tasks[c].execs[e] IN
         procs[x.pid].state = "gone" /\ x.status # "stopped" => Queued(x.pid)

\* A restored workload runs once: while a process of a restored container is
\* alive, no container that adopted it, or is registered to, has a process of its
\* own, and no two containers hold the same process.
WorkloadRunsOnce ==
  /\ \A c \in NewIds : adoptions[c] # NoTask /\ HasProc(adoptions[c].pid) => c \notin runcs
  /\ \A c, d \in Ids : c # d /\ tasks[c] # NoTask /\ tasks[d] # NoTask
                         => tasks[c].pid # tasks[d].pid /\ tasks[c].runc # tasks[d].runc

\* The storages of a container that exists are mounted and held for it, whoever
\* shared them has gone since.
TaskIsMounted ==
  \A c \in NewIds : tasks[c] # NoTask =>
    \A k \in DOMAIN Mounts[c] :
      LET mp == Mounts[c][k].mp IN
      mp \in mountpoints /\ refs[mp] # NoTask /\ c \in refs[mp]

=============================================================================
