-------------------------- MODULE SandboxLifecycle --------------------------
(***************************************************************************)
(* The life of one sandbox of the Cloud Hypervisor sandboxer (sandbox.rs    *)
(* and cloud_hypervisor/mod.rs): create, start with its snapshot restores   *)
(* and the fall-back to a fresh boot, stop, delete, the monitor of the VM   *)
(* process, and the recovery from sandbox.json after a restart.  Requests   *)
(* of different sandboxes share nothing but the map, so one is enough.      *)
(***************************************************************************)
EXTENDS Naturals, Sequences, FiniteSets

CONSTANTS
  Tasks,       \* concurrently running requests
  Attempts,    \* how start() goes about it: "restore"s, then perhaps a "boot"
  Timeouts,    \* the wait for a killed VM process may time out
  MaxCrashes,  \* bound on the crashes of the sandboxer
  Free         \* no lock holder

ASSUME LifecycleAssumption ==
  /\ IsFiniteSet(Tasks) /\ Free \notin Tasks
  /\ Attempts \in Seq({"restore", "boot"}) /\ Attempts # <<>>
  /\ Timeouts \in BOOLEAN /\ MaxCrashes \in Nat

\* start() is requested once, so its k-th attempt spawns the k-th VM process.
Vms == 1 .. Len(Attempts)

NoVm == 0

VARIABLES
  sandbox,   \* the KuasarSandbox
  inMap,     \* it is in KuasarSandboxer::sandboxes
  task,      \* task -> its program counter and local variables
  monitor,   \* VM process -> the task that monitor() spawned after its start
  vm,        \* VM process -> "unborn", "alive", "exited"
  killed,    \* VM processes that were sent SIGTERM or SIGKILL
  reported,  \* VM processes whose exit was sent on their wait channel
  disk,      \* base_dir and sandbox.json
  asked,     \* what containerd has requested: "nothing", "create", "start"
  gone,      \* the status that a completed delete found, or "no"
  up,        \* the sandboxer runs
  crashes

vars == <<sandbox, inMap, task, monitor, vm, killed, reported, disk, asked,
          gone, up, crashes>>

NoSandbox == [status |-> "None", pid |-> NoVm, chan |-> NoVm, client |-> NoVm,
              net |-> FALSE, exit |-> FALSE, lock |-> Free]

IdleTask == [pc |-> "idle", k |-> 1, saw |-> "no"]

\* A monitor's rx: the wait channel it found in the sandbox.
NoMonitor == [pc |-> "none", rx |-> NoVm]

NoDir == [file |-> "none", status |-> "None", pid |-> NoVm, net |-> FALSE]

\* sandbox.json while a dump is being written, after the truncation.
Torn == [NoDir EXCEPT !.file = "torn"]

\* dump(): wait_chan, client, exit_signal and the lock are not serialized, and
\* nothing is written when base_dir is gone.
Dump(s) ==
  IF disk.file = "none" THEN disk
  ELSE [file |-> "json", status |-> s.status, pid |-> s.pid, net |-> s.net]

Idle(p) == task[p].pc = "idle"

Goto(p, pc) == task' = [task EXCEPT ![p].pc = pc]

Finish(p) == task' = [task EXCEPT ![p] = IdleTask]

StartPcs == {"lookup", "lock", "launched", "connected", "undo", "post", "rollback"}

\* Mutant: one attempt too many.
NextAttemptPast(p) ==
  IF task[p].k <= Len(Attempts)
  THEN task' = [task EXCEPT ![p].pc = "lookup", ![p].k = @ + 1]
  ELSE Finish(p)

\* An attempt failed: start() tries the next one, or returns the error.
NextAttempt(p) ==
  IF task[p].k < Len(Attempts)
  THEN task' = [task EXCEPT ![p].pc = "lookup", ![p].k = @ + 1]
  ELSE Finish(p)

\* The VM process is gone for kill(), or there is none.
VmExited == sandbox.pid \in {NoVm} \cup {v \in Vms : vm[v] = "exited"}

\* CloudHypervisorVM::stop signals the process of vmm_pid, if it is there...
Kill == killed' = killed \cup ({sandbox.pid} \ {NoVm})

\* ...and waits for it on wait_chan, which a sandbox that was not recovered as
\* Running does not have.
KillDone == VmExited \/ sandbox.chan = NoVm

KillTimedOut == Timeouts /\ ~KillDone

-----------------------------------------------------------------------------
(* create() *)

\* The directory and the dump, before the sandbox is in the map.
CreateDump(p) ==
  /\ up /\ Idle(p) /\ asked = "nothing"
  /\ asked' = "create"
  /\ disk' = [NoDir EXCEPT !.file = "json", !.status = "Created"]
  /\ Goto(p, "create")
  /\ UNCHANGED <<sandbox, inMap, monitor, vm, killed, reported, gone, up, crashes>>

CreateInsert(p) ==
  /\ task[p].pc = "create"
  /\ sandbox' = [NoSandbox EXCEPT !.status = "Created"]
  /\ inMap' = TRUE
  /\ Finish(p)
  /\ UNCHANGED <<monitor, vm, killed, reported, disk, asked, gone, up, crashes>>

-----------------------------------------------------------------------------
(* start() *)

Start(p) ==
  /\ up /\ Idle(p) /\ asked = "create" /\ inMap
  /\ asked' = "start"
  /\ task' = [task EXCEPT ![p] = [IdleTask EXCEPT !.pc = "lookup"]]
  /\ UNCHANGED <<sandbox, inMap, monitor, vm, killed, reported, disk, gone, up, crashes>>

\* Every attempt looks the sandbox up again, and then waits for its lock.
Lookup(p) ==
  /\ task[p].pc = "lookup"
  /\ IF inMap THEN Goto(p, "lock") ELSE NextAttempt(p)
  /\ UNCHANGED <<sandbox, inMap, monitor, vm, killed, reported, disk, asked, gone,
                 up, crashes>>

\* pre_start, prepare_network, then the spawn of the VMM in start() or
\* launch_for_restore(), with its wait channel; both create base_dir if need be.
Launch(p) ==
  LET v == task[p].k IN
  /\ task[p].pc = "lock" /\ sandbox.lock = Free
  /\ sandbox' = [sandbox EXCEPT !.lock = p, !.net = TRUE, !.pid = v, !.chan = v]
  /\ vm' = [vm EXCEPT ![v] = "alive"]
  /\ disk' = IF disk.file = "none" THEN [NoDir EXCEPT !.file = "bare"] ELSE disk
  /\ Goto(p, "launched")
  /\ UNCHANGED <<inMap, monitor, killed, reported, asked, gone, up, crashes>>

\* A hook or prepare_network fails; or the files of the snapshot or the spawn,
\* and then the network is destroyed.
LaunchFailed(p) ==
  /\ task[p].pc = "lock" /\ sandbox.lock = Free
  /\ \E net \in {sandbox.net, FALSE} : sandbox' = [sandbox EXCEPT !.net = net]
  /\ NextAttempt(p)
  /\ UNCHANGED <<inMap, monitor, vm, killed, reported, disk, asked, gone, up, crashes>>

\* Mutant: init_client connects to the new VM in any case.
ConnectFresh(p) ==
  /\ task[p].pc = "launched" /\ ~VmExited
  /\ sandbox' = [sandbox EXCEPT !.client = sandbox.pid]
  /\ Goto(p, "connected")
  /\ UNCHANGED <<inMap, monitor, vm, killed, reported, disk, asked, gone, up, crashes>>

\* The VMM's API answers, the snapshot is loaded, the agent is up, and
\* init_client connects unless the sandbox has a client.
Connect(p) ==
  /\ task[p].pc = "launched" /\ ~VmExited
  /\ sandbox' = [sandbox EXCEPT !.client = IF @ = NoVm THEN sandbox.pid ELSE @]
  /\ Goto(p, "connected")
  /\ UNCHANGED <<inMap, monitor, vm, killed, reported, disk, asked, gone, up, crashes>>

\* Setting the guest up needs the client's connection.  The sandbox is Running,
\* and monitor() is spawned.
Setup(p) ==
  /\ task[p].pc = "connected"
  /\ ~VmExited /\ sandbox.client = sandbox.pid
  /\ sandbox' = [sandbox EXCEPT !.status = "Running"]
  /\ monitor' = [monitor EXCEPT ![sandbox.pid] = [NoMonitor EXCEPT !.pc = "read"]]
  /\ Goto(p, "post")
  /\ UNCHANGED <<inMap, vm, killed, reported, disk, asked, gone, up, crashes>>

\* Mutant: a failure leaves the VM to itself.
StartFailedUnstopped(p) ==
  /\ task[p].pc \in {"launched", "connected"}
  /\ sandbox' = [sandbox EXCEPT !.net = FALSE, !.lock = Free]
  /\ NextAttempt(p)
  /\ UNCHANGED <<inMap, monitor, vm, killed, reported, disk, asked, gone, up, crashes>>

\* Before the sandbox is Running every failure stops the VM...
StartFailed(p) ==
  /\ task[p].pc \in {"launched", "connected"}
  /\ Kill
  /\ Goto(p, "undo")
  /\ UNCHANGED <<sandbox, inMap, monitor, vm, reported, disk, asked, gone, up, crashes>>

\* ...and destroys the network, whether the VM stopped in time or not.
Undo(p) ==
  /\ task[p].pc = "undo" /\ (KillDone \/ KillTimedOut)
  /\ sandbox' = [sandbox EXCEPT !.net = FALSE, !.lock = Free]
  /\ NextAttempt(p)
  /\ UNCHANGED <<inMap, monitor, vm, killed, reported, disk, asked, gone, up, crashes>>

\* add_to_cgroup, post_start or dump fails: KuasarSandbox::stop(true), of a
\* Running sandbox.
PostFailed(p) ==
  /\ task[p].pc = "post"
  /\ Kill
  /\ Goto(p, "rollback")
  /\ UNCHANGED <<sandbox, inMap, monitor, vm, reported, disk, asked, gone, up, crashes>>

\* The network stays when the VM does not stop in time.
Rollback(p) ==
  /\ task[p].pc = "rollback"
  /\ \/ KillDone /\ sandbox' = [sandbox EXCEPT !.net = FALSE, !.lock = Free]
     \/ KillTimedOut /\ sandbox' = [sandbox EXCEPT !.lock = Free]
  /\ NextAttempt(p)
  /\ UNCHANGED <<inMap, monitor, vm, killed, reported, disk, asked, gone, up, crashes>>

Started(p) ==
  /\ task[p].pc = "post"
  /\ disk' = Dump(sandbox)
  /\ sandbox' = [sandbox EXCEPT !.lock = Free]
  /\ Finish(p)
  /\ UNCHANGED <<inMap, monitor, vm, killed, reported, asked, gone, up, crashes>>

-----------------------------------------------------------------------------
(* stop(), and the requests that only dump *)

Stop(p) ==
  /\ up /\ Idle(p) /\ inMap
  /\ Goto(p, "stop_lock")
  /\ UNCHANGED <<sandbox, inMap, monitor, vm, killed, reported, disk, asked, gone,
                 up, crashes>>

\* KuasarSandbox::stop does nothing to the VM of a Stopped sandbox.
StopStopped(p) ==
  LET s == [sandbox EXCEPT !.net = FALSE] IN
  /\ task[p].pc = "stop_lock" /\ sandbox.lock = Free /\ sandbox.status = "Stopped"
  /\ sandbox' = s
  /\ disk' = Dump(s)
  /\ Finish(p)
  /\ UNCHANGED <<inMap, monitor, vm, killed, reported, asked, gone, up, crashes>>

StopKill(p) ==
  /\ task[p].pc = "stop_lock" /\ sandbox.lock = Free /\ sandbox.status # "Stopped"
  /\ sandbox' = [sandbox EXCEPT !.lock = p]
  /\ Kill
  /\ Goto(p, "stopping")
  /\ UNCHANGED <<inMap, monitor, vm, reported, disk, asked, gone, up, crashes>>

\* The status stays: the monitor sets it.  The last dump may fail.
StopDone(p) ==
  LET s == [sandbox EXCEPT !.net = FALSE, !.lock = Free] IN
  /\ task[p].pc = "stopping" /\ KillDone
  /\ sandbox' = s
  /\ disk' \in {Dump(s), disk}
  /\ Finish(p)
  /\ UNCHANGED <<inMap, monitor, vm, killed, reported, asked, gone, up, crashes>>

\* A stop without force also fails when a container cannot be removed.
StopFailed(p) ==
  /\ \/ task[p].pc = "stop_lock" /\ sandbox.lock = Free /\ UNCHANGED sandbox
     \/ /\ task[p].pc = "stopping" /\ KillTimedOut
        /\ sandbox' = [sandbox EXCEPT !.lock = Free]
  /\ Finish(p)
  /\ UNCHANGED <<inMap, monitor, vm, killed, reported, disk, asked, gone, up, crashes>>

\* update(), and the changes of containers, which dump the whole sandbox.
Update ==
  /\ up /\ inMap /\ sandbox.lock = Free
  /\ disk' = Dump(sandbox)
  /\ UNCHANGED <<sandbox, inMap, task, monitor, vm, killed, reported, asked, gone,
                 up, crashes>>

-----------------------------------------------------------------------------
(* delete() *)

Delete(p) ==
  /\ up /\ Idle(p) /\ inMap
  /\ Goto(p, "del_lock")
  /\ UNCHANGED <<sandbox, inMap, monitor, vm, killed, reported, disk, asked, gone,
                 up, crashes>>

\* Mutant: only the VM of a Created sandbox is stopped.
DeleteStopCreated(p) ==
  /\ task[p].pc = "del_lock" /\ sandbox.lock = Free
  /\ IF sandbox.status # "Created"
     THEN /\ UNCHANGED killed
          /\ task' = [task EXCEPT ![p].pc = "del_dir", ![p].saw = sandbox.status]
     ELSE /\ Kill
          /\ task' = [task EXCEPT ![p].pc = "deleting", ![p].saw = sandbox.status]
  /\ sandbox' = [sandbox EXCEPT !.lock = p]
  /\ UNCHANGED <<inMap, monitor, vm, reported, disk, asked, gone, up, crashes>>

\* stop(true).
DeleteStop(p) ==
  /\ task[p].pc = "del_lock" /\ sandbox.lock = Free
  /\ IF sandbox.status = "Stopped"
     THEN /\ sandbox' = [sandbox EXCEPT !.lock = p, !.net = FALSE]
          /\ UNCHANGED killed
          /\ task' = [task EXCEPT ![p].pc = "del_dir", ![p].saw = sandbox.status]
     ELSE /\ sandbox' = [sandbox EXCEPT !.lock = p]
          /\ Kill
          /\ task' = [task EXCEPT ![p].pc = "deleting", ![p].saw = sandbox.status]
  /\ UNCHANGED <<inMap, monitor, vm, reported, disk, asked, gone, up, crashes>>

DeleteStopped(p) ==
  /\ task[p].pc = "deleting" /\ KillDone
  /\ sandbox' = [sandbox EXCEPT !.net = FALSE]
  /\ Goto(p, "del_dir")
  /\ UNCHANGED <<inMap, monitor, vm, killed, reported, disk, asked, gone, up, crashes>>

\* The VM does not stop in time, or a cgroup, a mount or base_dir stays.
DeleteFailed(p) ==
  /\ \/ task[p].pc = "deleting" /\ KillTimedOut
     \/ task[p].pc = "del_dir"
  /\ sandbox' = [sandbox EXCEPT !.lock = Free]
  /\ Finish(p)
  /\ UNCHANGED <<inMap, monitor, vm, killed, reported, disk, asked, gone, up, crashes>>

\* base_dir is removed and the lock dropped, before the sandbox leaves the map.
DeleteDir(p) ==
  /\ task[p].pc = "del_dir"
  /\ disk' = NoDir
  /\ sandbox' = [sandbox EXCEPT !.lock = Free]
  /\ Goto(p, "del_remove")
  /\ UNCHANGED <<inMap, monitor, vm, killed, reported, asked, gone, up, crashes>>

DeleteRemove(p) ==
  /\ task[p].pc = "del_remove"
  /\ inMap' = FALSE
  /\ gone' = task[p].saw
  /\ Finish(p)
  /\ UNCHANGED <<sandbox, monitor, vm, killed, reported, disk, asked, up, crashes>>

-----------------------------------------------------------------------------
(* The VM process and its monitor *)

\* The guest shuts down, the VMM crashes, or a signal arrives.
Exit(v) ==
  /\ vm[v] = "alive"
  /\ vm' = [vm EXCEPT ![v] = "exited"]
  /\ UNCHANGED <<sandbox, inMap, task, monitor, killed, reported, disk, asked, gone,
                 up, crashes>>

\* spawn_wait, and wait_pid after a recovery, send the exit.
Report(v) ==
  /\ up /\ vm[v] = "exited" /\ v \notin reported
  /\ reported' = reported \cup {v}
  /\ UNCHANGED <<sandbox, inMap, task, monitor, vm, killed, disk, asked, gone, up, crashes>>

\* Mutant: a monitor that comes after the exit does nothing.
MonitorReadLate(v) ==
  /\ monitor[v].pc = "read" /\ sandbox.lock = Free
  /\ monitor' = [monitor EXCEPT ![v] =
       IF sandbox.status = "Running" /\ sandbox.chan \notin reported
       THEN [pc |-> "wait", rx |-> sandbox.chan] ELSE NoMonitor]
  /\ UNCHANGED <<sandbox, inMap, task, vm, killed, reported, disk, asked, gone, up, crashes>>

\* monitor() takes the wait channel of a Running sandbox, under its lock.
MonitorRead(v) ==
  /\ monitor[v].pc = "read" /\ sandbox.lock = Free
  /\ monitor' = [monitor EXCEPT ![v] =
       IF sandbox.status = "Running" /\ sandbox.chan # NoVm
       THEN [pc |-> "wait", rx |-> sandbox.chan] ELSE NoMonitor]
  /\ UNCHANGED <<sandbox, inMap, task, vm, killed, reported, disk, asked, gone, up, crashes>>

\* The exit arrives, or was there already; the dump may fail.
MonitorExit(v) ==
  LET s == [sandbox EXCEPT !.status = "Stopped", !.exit = TRUE, !.net = FALSE] IN
  /\ monitor[v].pc = "wait" /\ monitor[v].rx \in reported /\ sandbox.lock = Free
  /\ sandbox' = s
  /\ disk' \in {Dump(s), disk}
  /\ monitor' = [monitor EXCEPT ![v] = NoMonitor]
  /\ UNCHANGED <<inMap, task, vm, killed, reported, asked, gone, up, crashes>>

-----------------------------------------------------------------------------
(* Restart *)

\* A request or a monitor that may be writing sandbox.json.
Dumping ==
  \/ inMap /\ sandbox.lock = Free
  \/ \E p \in Tasks : \/ task[p].pc \in {"create", "post"}
                      \/ task[p].pc = "stopping" /\ KillDone

\* The sandboxer dies, perhaps in the middle of a dump; the VM processes and
\* the files stay.
Crash ==
  /\ up /\ crashes < MaxCrashes
  /\ crashes' = crashes + 1
  /\ up' = FALSE
  /\ disk' = disk \/ (Dumping /\ disk.file # "none" /\ disk' = Torn)
  /\ sandbox' = NoSandbox
  /\ inMap' = FALSE
  /\ task' = [p \in Tasks |-> IdleTask]
  /\ monitor' = [v \in Vms |-> NoMonitor]
  /\ reported' = {}
  /\ UNCHANGED <<vm, killed, asked, gone>>

Restored(s) ==
  /\ sandbox' = s
  /\ inMap' = TRUE
  /\ UNCHANGED <<killed, disk>>

\* The directory of a sandbox that cannot be recovered is removed.
Lost ==
  /\ disk' = NoDir
  /\ UNCHANGED <<sandbox, inMap, monitor>>

Dumped == [NoSandbox EXCEPT !.status = disk.status, !.pid = disk.pid, !.net = disk.net]

\* A sandbox that was not Running is taken from its dump as it is.
RecoverIdle ==
  /\ ~up /\ disk.file = "json" /\ disk.status # "Running"
  /\ up' = TRUE
  /\ Restored(Dumped)
  /\ UNCHANGED <<task, monitor, vm, reported, asked, gone, crashes>>

\* Mutant: a recovered sandbox is not monitored.
RecoverUnwatched ==
  /\ ~up /\ disk.file = "json" /\ disk.status = "Running"
  /\ vm[disk.pid] = "alive"
  /\ up' = TRUE
  /\ Restored([Dumped EXCEPT !.chan = disk.pid, !.client = disk.pid])
  /\ UNCHANGED <<task, monitor, vm, reported, asked, gone, crashes>>

\* A Running one needs its process and an answer from the agent; it gets a new
\* wait channel, a client and a monitor.
RecoverRunning ==
  /\ ~up /\ disk.file = "json" /\ disk.status = "Running"
  /\ vm[disk.pid] = "alive"
  /\ up' = TRUE
  /\ Restored([Dumped EXCEPT !.chan = disk.pid, !.client = disk.pid])
  /\ monitor' = [monitor EXCEPT ![disk.pid] = [NoMonitor EXCEPT !.pc = "read"]]
  /\ UNCHANGED <<task, vm, reported, asked, gone, crashes>>

\* Otherwise its VM is stopped.
RecoverKill ==
  /\ ~up /\ disk.file = "json" /\ disk.status = "Running"
  /\ up' = TRUE
  /\ killed' = killed \cup ({disk.pid} \ {NoVm})
  /\ Lost
  /\ UNCHANGED <<task, vm, reported, asked, gone, crashes>>

\* No sandbox.json, or one that cannot be read.
RecoverNothing ==
  /\ ~up /\ disk.file # "json"
  /\ up' = TRUE
  /\ Lost
  /\ UNCHANGED <<task, vm, killed, reported, asked, gone, crashes>>

-----------------------------------------------------------------------------
Init ==
  /\ sandbox = NoSandbox
  /\ inMap = FALSE
  /\ task = [p \in Tasks |-> IdleTask]
  /\ monitor = [v \in Vms |-> NoMonitor]
  /\ vm = [v \in Vms |-> "unborn"]
  /\ killed = {}
  /\ reported = {}
  /\ disk = NoDir
  /\ asked = "nothing"
  /\ gone = "no"
  /\ up = TRUE
  /\ crashes = 0

StartStep(p) ==
  \/ Lookup(p) \/ Launch(p) \/ LaunchFailed(p) \/ Connect(p) \/ Setup(p)
  \/ StartFailed(p) \/ Undo(p) \/ PostFailed(p) \/ Rollback(p) \/ Started(p)

StopStep(p) == StopStopped(p) \/ StopKill(p) \/ StopDone(p) \/ StopFailed(p)

DeleteStep(p) ==
  DeleteStop(p) \/ DeleteStopped(p) \/ DeleteFailed(p) \/ DeleteDir(p) \/ DeleteRemove(p)

TaskStep(p) == CreateInsert(p) \/ StartStep(p) \/ StopStep(p) \/ DeleteStep(p)

Request(p) == CreateDump(p) \/ Start(p) \/ Stop(p) \/ Delete(p)

MonitorStep(v) == MonitorRead(v) \/ MonitorExit(v)

Recover == RecoverIdle \/ RecoverRunning \/ RecoverKill \/ RecoverNothing

Next ==
  \/ \E p \in Tasks : Request(p) \/ TaskStep(p)
  \/ Update
  \/ \E v \in Vms : Exit(v) \/ Report(v) \/ MonitorStep(v)
  \/ Crash \/ Recover

Spec == Init /\ [][Next]_vars

\* tokio polls a task that is ready, its Mutex is first come, first served, a
\* signalled process ends, and the service manager restarts the sandboxer.
Fairness ==
  /\ \A p \in Tasks : WF_vars(TaskStep(p))
  /\ \A v \in Vms : /\ WF_vars(v \in killed /\ Exit(v))
                    /\ WF_vars(Report(v))
                    /\ SF_vars(MonitorStep(v))
  /\ WF_vars(Recover)

FairSpec == Spec /\ Fairness

-----------------------------------------------------------------------------
(* Properties *)

Statuses == {"None", "Created", "Running", "Stopped"}

SandboxRecords ==
  [status : Statuses, pid : Vms \cup {NoVm}, chan : Vms \cup {NoVm},
   client : Vms \cup {NoVm}, net : BOOLEAN, exit : BOOLEAN, lock : Tasks \cup {Free}]

TaskRecords ==
  [pc : {"idle", "create", "stop_lock", "stopping", "del_lock", "deleting", "del_dir",
         "del_remove"} \cup StartPcs,
   k : Vms, saw : {"no"} \cup Statuses]

MonitorRecords == [pc : {"none", "read", "wait"}, rx : Vms \cup {NoVm}]

DumpRecords ==
  [file : {"none", "bare", "torn", "json"}, status : Statuses, pid : Vms \cup {NoVm},
   net : BOOLEAN]

\* Type invariant of the sandbox, its VM processes and its files.
TypeOK ==
  /\ sandbox \in SandboxRecords /\ inMap \in BOOLEAN
  /\ task \in [Tasks -> TaskRecords]
  /\ monitor \in [Vms -> MonitorRecords]
  /\ vm \in [Vms -> {"unborn", "alive", "exited"}]
  /\ killed \in SUBSET Vms /\ reported \in SUBSET Vms
  /\ disk \in DumpRecords
  /\ asked \in {"nothing", "create", "start"}
  /\ gone \in {"no"} \cup Statuses
  /\ up \in BOOLEAN /\ crashes \in 0 .. MaxCrashes

\* A VM process that runs and was not told to end.
Live(v) == vm[v] = "alive" /\ v \notin killed

\* The VM process that the sandbox knows of is one.
VmLive == sandbox.pid \in {v \in Vms : Live(v)}

\* At most one VM of the sandbox runs at any time: an attempt to start that
\* failed has stopped its VM before the next attempt spawns one.
OneLiveVm == \A v, w \in Vms : Live(v) /\ Live(w) => v = w

\* When exit_signal was fired, or the status says Stopped, and no request is at
\* work on the sandbox, its VM does not run: a monitor that is late never takes
\* the end of one VM for the end of another.
ExitIsFinal ==
  sandbox.lock = Free /\ (sandbox.exit \/ sandbox.status = "Stopped") => ~VmLive

\* A Running sandbox always has a monitor that waits for its VM, or is about to.
Watched ==
  sandbox.status = "Running" /\ VmLive /\ sandbox.lock = Free =>
  \E v \in Vms : \/ monitor[v].pc = "read"
                 \/ monitor[v].pc = "wait" /\ monitor[v].rx = sandbox.pid

\* A delete that found the sandbox Running or Stopped leaves no VM behind, also
\* when a start is waiting to try again.
DeletedIsDead ==
  gone \in {"Running", "Stopped"} /\ sandbox.lock = Free => ~VmLive

\* The end of the VM of a Running sandbox is noticed: the status changes, and
\* the network is destroyed.
ExitNoticed ==
  (sandbox.status = "Running" /\ VmExited) ~> (sandbox.status # "Running" /\ ~sandbox.net)

-----------------------------------------------------------------------------
(* What the documentation of the code says, and the code does not keep *)

\* "Fall back to a fresh VM boot when no template is available or restore
\* fails": the client of the VM whose restore failed is kept, so the fresh VM is
\* set up through a dead connection and the boot fails.
FallbackConnected ==
  \A p \in Tasks : task[p].pc = "connected" => sandbox.client = sandbox.pid
=============================================================================
