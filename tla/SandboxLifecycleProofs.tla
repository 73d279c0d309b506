----------------------- MODULE SandboxLifecycleProofs -----------------------
(***************************************************************************)
(* Proofs about SandboxLifecycle, for any number of requests, attempts to   *)
(* start and crashes: the variables keep their types, at most one VM of a   *)
(* sandbox runs, and a sandbox that has exited has no running VM.           *)
(***************************************************************************)
EXTENDS SandboxLifecycle, TLAPS

\* The program counters at which a request holds the sandbox's lock.
LockPcs == {"launched", "connected", "undo", "post", "rollback", "stopping",
            "deleting", "del_dir"}

\* Only one start is ever under way, and before it there is no VM.
RequestInv ==
  /\ \A p, q \in Tasks : task[p].pc \in StartPcs /\ task[q].pc \in StartPcs => p = q
  /\ asked # "start" =>
       /\ \A p \in Tasks : task[p].pc \notin StartPcs
       /\ \A v \in Vms : vm[v] = "unborn"
       /\ sandbox.client = NoVm /\ sandbox.pid = NoVm /\ ~sandbox.exit
       /\ sandbox.status \in {"None", "Created"}
       /\ disk.pid = NoVm /\ disk.status \in {"None", "Created"}
  /\ asked = "nothing" =>
       ~inMap /\ disk.file = "none" /\ \A p \in Tasks : task[p].pc = "idle"
  /\ \A p \in Tasks : task[p].pc = "create" =>
       asked = "create" /\ ~inMap /\ \A q \in Tasks : q # p => task[q].pc = "idle"
  /\ ~up => /\ \A p \in Tasks : task[p].pc = "idle"
            /\ sandbox = NoSandbox
            /\ \A v \in Vms : monitor[v].pc = "none"

\* The lock excludes requests.
LockInv == \A p \in Tasks : task[p].pc \in LockPcs => sandbox.lock = p

\* The VM of an attempt is newer than the client and every dump until it is
\* launched, and no other VM runs.
AttemptAt(p) ==
  /\ task[p].pc \in {"lookup", "lock"} =>
       /\ sandbox.client < task[p].k /\ sandbox.pid < task[p].k
       /\ disk.pid < task[p].k
       /\ \A v \in Vms : ~Live(v) /\ (v >= task[p].k => vm[v] = "unborn")
  /\ task[p].pc \in {"launched", "connected", "post", "undo", "rollback"} =>
       /\ sandbox.client <= task[p].k /\ sandbox.pid = task[p].k
       /\ disk.pid <= task[p].k
       /\ \A v \in Vms : v > task[p].k => vm[v] = "unborn"
  /\ task[p].pc \in {"launched", "connected", "post"} =>
       \A v \in Vms : Live(v) => v = sandbox.pid
  /\ task[p].pc \in {"undo", "rollback"} => \A v \in Vms : ~Live(v)
  /\ task[p].pc = "post" => sandbox.status = "Running" /\ sandbox.client = sandbox.pid
  /\ task[p].pc \in StartPcs /\ sandbox.client = NoVm =>
       ~sandbox.exit /\ sandbox.status # "Stopped"
  /\ task[p].pc \in {"stopping", "deleting", "del_dir"} => ~VmLive

AttemptInv == \A p \in Tasks : AttemptAt(p)

\* Monitors exist once there is a client; when the client is that of the
\* current VM they wait for this VM.
MonitorInv ==
  /\ sandbox.chan \in {sandbox.pid, NoVm}
  /\ sandbox.client = NoVm => \A v \in Vms : monitor[v].pc = "none"
  /\ sandbox.client = sandbox.pid /\ sandbox.client # NoVm =>
       \A v \in Vms : monitor[v].pc = "wait" => monitor[v].rx = sandbox.pid
  /\ \A v \in reported : vm[v] = "exited"

\* A VM that runs is the one the client is connected to, of a Running sandbox,
\* unless it is being started.
LiveInv ==
  /\ VmLive => \/ sandbox.status = "Running" /\ sandbox.client = sandbox.pid
               \/ \E p \in Tasks : task[p].pc \in {"launched", "connected"}
  /\ sandbox.client = sandbox.pid /\ sandbox.client # NoVm =>
       (sandbox.exit \/ sandbox.status = "Stopped" => vm[sandbox.pid] = "exited")
  /\ disk.file = "json" /\ disk.status # "Running" => disk.pid \notin {v \in Vms : Live(v)}

\* The inductive invariant.
LifeInv ==
  TypeOK /\ RequestInv /\ LockInv /\ AttemptInv /\ MonitorInv /\ LiveInv /\ OneLiveVm

-----------------------------------------------------------------------------
(* Types *)

\* VM processes are numbered from 1.
LEMMA VmsFacts ==
  /\ Len(Attempts) \in Nat /\ 1 \in Vms /\ NoVm \notin Vms /\ Vms \subseteq Nat
  /\ \A k \in Vms : k < Len(Attempts) => k + 1 \in Vms
<1>1. Len(Attempts) \in Nat /\ Len(Attempts) # 0
  BY LifecycleAssumption
<1> QED BY <1>1 DEF Vms, NoVm

\* The records that the actions start from have their types.
LEMMA RecordTypes ==
  /\ NoSandbox \in SandboxRecords /\ [NoSandbox EXCEPT !.status = "Created"] \in SandboxRecords
  /\ IdleTask \in TaskRecords /\ [IdleTask EXCEPT !.pc = "lookup"] \in TaskRecords
  /\ NoMonitor \in MonitorRecords /\ [NoMonitor EXCEPT !.pc = "read"] \in MonitorRecords
  /\ NoDir \in DumpRecords /\ [NoDir EXCEPT !.file = "bare"] \in DumpRecords
  /\ Torn \in DumpRecords
  /\ [NoDir EXCEPT !.file = "json", !.status = "Created"] \in DumpRecords
BY VmsFacts DEF NoSandbox, SandboxRecords, IdleTask, TaskRecords, NoMonitor,
   MonitorRecords, NoDir, DumpRecords, Torn, Statuses, StartPcs

\* What dump() writes has the type of a dump.
LEMMA DumpType ==
  ASSUME disk \in DumpRecords, NEW s \in SandboxRecords
  PROVE  Dump(s) \in DumpRecords
BY DEF Dump, DumpRecords, SandboxRecords

\* The sandbox keeps its type.
LEMMA SandboxTyped ==
  ASSUME TypeOK, Next
  PROVE  sandbox' \in SandboxRecords
<1>1. /\ sandbox \in SandboxRecords /\ disk \in DumpRecords
      /\ \A p \in Tasks : task[p].k \in Vms
  BY DEF TypeOK, TaskRecords
<1>2. ASSUME NEW p \in Tasks, Request(p)
      PROVE  sandbox' \in SandboxRecords
  BY <1>1, <1>2 DEF Request, CreateDump, Start, Stop, Delete
<1>3. ASSUME NEW p \in Tasks, CreateInsert(p)
      PROVE  sandbox' \in SandboxRecords
  BY <1>3, RecordTypes DEF CreateInsert
<1>4. ASSUME NEW p \in Tasks, StartStep(p)
      PROVE  sandbox' \in SandboxRecords
  <2>1. CASE Lookup(p) \/ StartFailed(p) \/ PostFailed(p)
    BY <1>1, <2>1 DEF Lookup, StartFailed, PostFailed
  <2>2. CASE Launch(p)
    BY <1>1, <2>2 DEF Launch, SandboxRecords
  <2>3. CASE LaunchFailed(p) \/ Connect(p) \/ Setup(p)
    BY <1>1, <2>3 DEF LaunchFailed, Connect, Setup, SandboxRecords, Statuses
  <2>4. CASE Undo(p) \/ Rollback(p) \/ Started(p)
    BY <1>1, <2>4 DEF Undo, Rollback, Started, SandboxRecords
  <2> QED BY <1>4, <2>1, <2>2, <2>3, <2>4 DEF StartStep
<1>5. ASSUME NEW p \in Tasks, StopStep(p)
      PROVE  sandbox' \in SandboxRecords
  BY <1>1, <1>5 DEF StopStep, StopStopped, StopKill, StopDone, StopFailed, SandboxRecords
<1>6. ASSUME NEW p \in Tasks, DeleteStep(p)
      PROVE  sandbox' \in SandboxRecords
  BY ZenonT(60), <1>1, <1>6 DEF DeleteStep, DeleteStop, DeleteStopped, DeleteFailed, DeleteDir,
     DeleteRemove, SandboxRecords
<1>7. ASSUME NEW v \in Vms, Exit(v) \/ Report(v) \/ MonitorStep(v)
      PROVE  sandbox' \in SandboxRecords
  BY <1>1, <1>7 DEF Exit, Report, MonitorStep, MonitorRead, MonitorExit, SandboxRecords,
     Statuses
<1>8. CASE Update \/ Crash
  BY <1>1, <1>8, RecordTypes DEF Update, Crash
<1>9. CASE Recover
  <2>1. disk.status \in Statuses /\ disk.pid \in Vms \cup {NoVm} /\ disk.net \in BOOLEAN
    BY <1>1 DEF DumpRecords
  <2>2. Dumped \in SandboxRecords
    BY <2>1, RecordTypes DEF Dumped, SandboxRecords, NoSandbox
  <2>3. [Dumped EXCEPT !.chan = disk.pid, !.client = disk.pid] \in SandboxRecords
    BY <2>1, <2>2 DEF SandboxRecords
  <2> QED
    BY <1>1, <1>9, <2>2, <2>3 DEF Recover, RecoverIdle, RecoverRunning, RecoverKill,
       RecoverNothing, Restored, Lost
<1> QED
  BY <1>2, <1>3, <1>4, <1>5, <1>6, <1>7, <1>8, <1>9 DEF Next, TaskStep

\* The attempt that follows another one is a VM process.
LEMMA NextAttemptTyped ==
  ASSUME task \in [Tasks -> TaskRecords], NEW p \in Tasks, NextAttempt(p)
  PROVE  task' \in [Tasks -> TaskRecords]
<1>1. CASE task[p].k < Len(Attempts)
  <2>1. [task[p] EXCEPT !.pc = "lookup", !.k = @ + 1] \in TaskRecords
    BY <1>1, VmsFacts DEF TaskRecords, StartPcs
  <2>2. task' = [task EXCEPT ![p] = [task[p] EXCEPT !.pc = "lookup", !.k = @ + 1]]
    BY <1>1 DEF NextAttempt
  <2> QED BY <2>1, <2>2
<1>2. CASE ~(task[p].k < Len(Attempts))
  BY <1>2, RecordTypes DEF NextAttempt, Finish
<1> QED BY <1>1, <1>2

\* The requests keep their type.
LEMMA TaskTyped ==
  ASSUME TypeOK, Next
  PROVE  task' \in [Tasks -> TaskRecords]
<1>1. task \in [Tasks -> TaskRecords] /\ sandbox.status \in Statuses
  BY DEF TypeOK, SandboxRecords
<1>2. ASSUME NEW p \in Tasks, Request(p)
      PROVE  task' \in [Tasks -> TaskRecords]
  BY <1>1, <1>2, RecordTypes DEF Request, CreateDump, Start, Stop, Delete, Goto, TaskRecords
<1>3. ASSUME NEW p \in Tasks, CreateInsert(p)
      PROVE  task' \in [Tasks -> TaskRecords]
  BY <1>1, <1>3, RecordTypes DEF CreateInsert, Finish
<1>4. ASSUME NEW p \in Tasks, StartStep(p)
      PROVE  task' \in [Tasks -> TaskRecords]
  <2>1. CASE NextAttempt(p)
    BY <1>1, <2>1, NextAttemptTyped
  <2>2. CASE \E pc \in StartPcs : Goto(p, pc)
    BY <1>1, <2>2 DEF Goto, TaskRecords
  <2>3. CASE Finish(p)
    BY <1>1, <2>3, RecordTypes DEF Finish
  <2> QED
    BY <1>4, <2>1, <2>2, <2>3 DEF StartStep, Lookup, Launch, LaunchFailed, Connect, Setup,
       StartFailed, Undo, PostFailed, Rollback, Started, StartPcs
<1>5. ASSUME NEW p \in Tasks, StopStep(p)
      PROVE  task' \in [Tasks -> TaskRecords]
  BY <1>1, <1>5, RecordTypes DEF StopStep, StopStopped, StopKill, StopDone, StopFailed,
     Goto, Finish, TaskRecords
<1>6. ASSUME NEW p \in Tasks, DeleteStep(p)
      PROVE  task' \in [Tasks -> TaskRecords]
  <2>1. CASE DeleteStop(p)
    <3>1. \A pc \in {"deleting", "del_dir"} :
            [task[p] EXCEPT !.pc = pc, !.saw = sandbox.status] \in TaskRecords
      BY <1>1 DEF TaskRecords
    <3>2. \E pc \in {"deleting", "del_dir"} :
            task' = [task EXCEPT ![p] = [task[p] EXCEPT !.pc = pc, !.saw = sandbox.status]]
      BY <1>1, <2>1 DEF DeleteStop
    <3> QED BY <1>1, <3>1, <3>2
  <2>2. CASE DeleteStopped(p) \/ DeleteFailed(p) \/ DeleteDir(p) \/ DeleteRemove(p)
    BY <1>1, <2>2, RecordTypes DEF DeleteStopped, DeleteFailed, DeleteDir, DeleteRemove,
       Goto, Finish, TaskRecords
  <2> QED BY <1>6, <2>1, <2>2 DEF DeleteStep
<1>7. CASE Crash
  BY <1>7, RecordTypes DEF Crash
<1>8. CASE \/ Update \/ Recover
           \/ \E v \in Vms : Exit(v) \/ Report(v) \/ MonitorStep(v)
  BY <1>1, <1>8 DEF Update, Recover, RecoverIdle, RecoverRunning, RecoverKill,
     RecoverNothing, Exit, Report, MonitorStep, MonitorRead, MonitorExit
<1> QED
  BY <1>2, <1>3, <1>4, <1>5, <1>6, <1>7, <1>8 DEF Next, TaskStep

\* The monitors keep their type.
LEMMA MonitorTyped ==
  ASSUME TypeOK, Next
  PROVE  monitor' \in [Vms -> MonitorRecords]
<1>1. monitor \in [Vms -> MonitorRecords] /\ sandbox.chan \in Vms \cup {NoVm}
  BY DEF TypeOK, SandboxRecords
<1>2. ASSUME NEW p \in Tasks, Setup(p)
      PROVE  monitor' \in [Vms -> MonitorRecords]
  BY <1>1, <1>2, RecordTypes DEF Setup
<1>3. ASSUME NEW v \in Vms, MonitorStep(v)
      PROVE  monitor' \in [Vms -> MonitorRecords]
  <2>1. [pc |-> "wait", rx |-> sandbox.chan] \in MonitorRecords
    BY <1>1 DEF MonitorRecords
  <2> QED BY <1>1, <1>3, <2>1, RecordTypes DEF MonitorStep, MonitorRead, MonitorExit
<1>4. CASE Crash \/ RecoverRunning
  BY <1>1, <1>4, RecordTypes DEF Crash, RecoverRunning
<1>5. CASE UNCHANGED monitor
  BY <1>1, <1>5
<1> QED
  BY ZenonT(60), <1>2, <1>3, <1>4, <1>5 DEF Next, Request, CreateDump, Start, Stop, Delete, TaskStep,
     CreateInsert, StartStep, Lookup, Launch, LaunchFailed, Connect, StartFailed, Undo,
     PostFailed, Rollback, Started, StopStep, StopStopped, StopKill, StopDone, StopFailed,
     DeleteStep, DeleteStop, DeleteStopped, DeleteFailed, DeleteDir, DeleteRemove, Update,
     Exit, Report, Recover, RecoverIdle, RecoverKill, RecoverNothing, Lost

\* The files keep their type.
LEMMA DiskTyped ==
  ASSUME TypeOK, Next
  PROVE  disk' \in DumpRecords
<1>1. disk \in DumpRecords /\ sandbox \in SandboxRecords
  BY DEF TypeOK
<1>2. ASSUME NEW p \in Tasks, CreateDump(p) \/ Launch(p)
      PROVE  disk' \in DumpRecords
  BY <1>1, <1>2, RecordTypes DEF CreateDump, Launch
<1>3. ASSUME NEW s \in SandboxRecords, disk' \in {Dump(s), disk}
      PROVE  disk' \in DumpRecords
  BY <1>1, <1>3, DumpType
<1>4. ASSUME NEW p \in Tasks, Started(p) \/ StopStopped(p) \/ StopDone(p)
      PROVE  disk' \in DumpRecords
  <2>1. /\ [sandbox EXCEPT !.net = FALSE] \in SandboxRecords
        /\ [sandbox EXCEPT !.net = FALSE, !.lock = Free] \in SandboxRecords
    BY <1>1 DEF SandboxRecords
  <2> QED BY <1>1, <1>3, <1>4, <2>1 DEF Started, StopStopped, StopDone
<1>5. ASSUME NEW v \in Vms, MonitorExit(v)
      PROVE  disk' \in DumpRecords
  <2>1. [sandbox EXCEPT !.status = "Stopped", !.exit = TRUE, !.net = FALSE] \in SandboxRecords
    BY <1>1 DEF SandboxRecords, Statuses
  <2> QED BY <1>3, <1>5, <2>1 DEF MonitorExit
<1>6. CASE Update \/ Crash \/ disk' = NoDir
  BY <1>1, <1>3, <1>6, RecordTypes DEF Update, Crash
<1>7. CASE UNCHANGED disk
  BY <1>1, <1>7
<1> QED
  BY ZenonT(60), <1>2, <1>4, <1>5, <1>6, <1>7 DEF Next, Request, Start, Stop, Delete, TaskStep,
     CreateInsert, StartStep, Lookup, LaunchFailed, Connect, Setup, StartFailed, Undo,
     PostFailed, Rollback, StopStep, StopKill, StopFailed, DeleteStep, DeleteStop,
     DeleteStopped, DeleteFailed, DeleteDir, DeleteRemove, Exit, Report, MonitorStep,
     MonitorRead, Recover, RecoverIdle, RecoverRunning, RecoverKill, RecoverNothing,
     Restored, Lost

\* The VM processes, and what is recorded of them, keep their types.
LEMMA VmTyped ==
  ASSUME TypeOK, Next
  PROVE  /\ vm' \in [Vms -> {"unborn", "alive", "exited"}]
         /\ killed' \in SUBSET Vms /\ reported' \in SUBSET Vms
<1> DEFINE Good == /\ vm' \in [Vms -> {"unborn", "alive", "exited"}]
                   /\ killed' \in SUBSET Vms /\ reported' \in SUBSET Vms
<1>1. /\ vm \in [Vms -> {"unborn", "alive", "exited"}]
      /\ killed \in SUBSET Vms /\ reported \in SUBSET Vms
      /\ sandbox.pid \in Vms \cup {NoVm} /\ disk.pid \in Vms \cup {NoVm}
  BY DEF TypeOK, SandboxRecords, DumpRecords
<1>2. ASSUME NEW p \in Tasks, Request(p)
      PROVE  Good
  BY <1>1, <1>2 DEF Request, CreateDump, Start, Stop, Delete
<1>3. ASSUME NEW p \in Tasks, CreateInsert(p) \/ StopStep(p) \/ DeleteStep(p)
      PROVE  Good
  BY <1>1, <1>3 DEF CreateInsert, StopStep, StopStopped, StopKill, StopDone, StopFailed,
     DeleteStep, DeleteStop, DeleteStopped, DeleteFailed, DeleteDir, DeleteRemove, Kill
<1>4. ASSUME NEW p \in Tasks, StartStep(p)
      PROVE  Good
  BY <1>1, <1>4 DEF StartStep, Lookup, Launch, LaunchFailed, Connect, Setup, StartFailed,
     Undo, PostFailed, Rollback, Started, Kill
<1>5. ASSUME NEW v \in Vms, Exit(v) \/ Report(v) \/ MonitorStep(v)
      PROVE  Good
  BY <1>1, <1>5 DEF Exit, Report, MonitorStep, MonitorRead, MonitorExit
<1>6. CASE Update \/ Crash \/ Recover
  BY <1>1, <1>6 DEF Update, Crash, Recover, RecoverIdle, RecoverRunning, RecoverKill,
     RecoverNothing, Restored
<1> QED
  BY <1>2, <1>3, <1>4, <1>5, <1>6 DEF Next, TaskStep

\* So do the remaining variables.
LEMMA RestTyped ==
  ASSUME TypeOK, Next
  PROVE  /\ inMap' \in BOOLEAN /\ up' \in BOOLEAN /\ crashes' \in 0 .. MaxCrashes
         /\ asked' \in {"nothing", "create", "start"} /\ gone' \in {"no"} \cup Statuses
<1> DEFINE Good ==
       /\ inMap' \in BOOLEAN /\ up' \in BOOLEAN /\ crashes' \in 0 .. MaxCrashes
       /\ asked' \in {"nothing", "create", "start"} /\ gone' \in {"no"} \cup Statuses
<1>1. /\ inMap \in BOOLEAN /\ up \in BOOLEAN /\ crashes \in 0 .. MaxCrashes
      /\ asked \in {"nothing", "create", "start"} /\ gone \in {"no"} \cup Statuses
      /\ \A p \in Tasks : task[p].saw \in {"no"} \cup Statuses
  BY DEF TypeOK, TaskRecords
<1>2. ASSUME NEW p \in Tasks, Request(p)
      PROVE  Good
  BY <1>1, <1>2 DEF Request, CreateDump, Start, Stop, Delete
<1>3. ASSUME NEW p \in Tasks, CreateInsert(p) \/ StopStep(p) \/ DeleteStep(p)
      PROVE  Good
  BY <1>1, <1>3 DEF CreateInsert, StopStep, StopStopped, StopKill, StopDone, StopFailed,
     DeleteStep, DeleteStop, DeleteStopped, DeleteFailed, DeleteDir, DeleteRemove
<1>4. ASSUME NEW p \in Tasks, StartStep(p)
      PROVE  Good
  BY <1>1, <1>4 DEF StartStep, Lookup, Launch, LaunchFailed, Connect, Setup, StartFailed,
     Undo, PostFailed, Rollback, Started
<1>5. ASSUME NEW v \in Vms, Exit(v) \/ Report(v) \/ MonitorStep(v)
      PROVE  Good
  BY <1>1, <1>5 DEF Exit, Report, MonitorStep, MonitorRead, MonitorExit
<1>6. CASE Crash
  <2>1. MaxCrashes \in Nat /\ crashes < MaxCrashes /\ crashes' = crashes + 1
    BY <1>6, LifecycleAssumption DEF Crash
  <2>2. crashes' \in 0 .. MaxCrashes
    BY <1>1, <2>1
  <2> QED BY <1>1, <1>6, <2>2 DEF Crash
<1>7. CASE Update \/ Recover
  BY <1>1, <1>7 DEF Update, Recover, RecoverIdle, RecoverRunning, RecoverKill,
     RecoverNothing, Restored, Lost
<1> QED
  BY <1>2, <1>3, <1>4, <1>5, <1>6, <1>7 DEF Next, TaskStep

\* The variables keep their types.
LEMMA TypeStep ==
  ASSUME TypeOK, [Next]_vars
  PROVE  TypeOK'
<1>1. CASE Next
  BY <1>1, SandboxTyped, TaskTyped, MonitorTyped, DiskTyped, VmTyped, RestTyped DEF TypeOK
<1>2. CASE UNCHANGED vars
  BY <1>2 DEF TypeOK, vars
<1> QED BY <1>1, <1>2

\* The variables have their types to begin with.
LEMMA TypeInit == Init => TypeOK
<1> SUFFICES ASSUME Init PROVE TypeOK
  OBVIOUS
<1>1. MaxCrashes \in Nat
  BY LifecycleAssumption
<1>2. /\ sandbox \in SandboxRecords /\ disk \in DumpRecords
      /\ task \in [Tasks -> TaskRecords] /\ monitor \in [Vms -> MonitorRecords]
  BY RecordTypes DEF Init
<1>3. vm \in [Vms -> {"unborn", "alive", "exited"}]
  BY DEF Init
<1>4. /\ killed \in SUBSET Vms /\ reported \in SUBSET Vms
      /\ inMap \in BOOLEAN /\ up \in BOOLEAN
  BY DEF Init
<1>5. crashes \in 0 .. MaxCrashes
  BY <1>1 DEF Init
<1>6. asked \in {"nothing", "create", "start"} /\ gone \in {"no"} \cup Statuses
  BY DEF Init
<1> QED BY <1>2, <1>3, <1>4, <1>5, <1>6 DEF TypeOK

-----------------------------------------------------------------------------
(* The invariant *)

\* VM processes are compared as numbers.
LEMMA Numbers ==
  ASSUME TypeOK
  PROVE  /\ sandbox.client \in Nat /\ sandbox.pid \in Nat /\ disk.pid \in Nat
         /\ \A p \in Tasks : task[p].k \in Nat
         /\ \A v \in Vms : v \in Nat
<1>1. /\ sandbox.client \in Vms \cup {NoVm} /\ sandbox.pid \in Vms \cup {NoVm}
      /\ disk.pid \in Vms \cup {NoVm} /\ \A p \in Tasks : task[p].k \in Vms
  BY DEF TypeOK, SandboxRecords, DumpRecords, TaskRecords
<1>2. Vms \cup {NoVm} \subseteq Nat
  BY VmsFacts DEF NoVm
<1> QED BY <1>1, <1>2

\* After a failed attempt the request looks the sandbox up for the next one,
\* or has ended; the other requests are where they were.
LEMMA NextAttemptFields ==
  ASSUME task \in [Tasks -> TaskRecords], NEW p \in Tasks, NextAttempt(p)
  PROVE  /\ \A q \in Tasks : q # p => task'[q] = task[q]
         /\ task'[p].pc \in {"lookup", "idle"}
         /\ task'[p].pc = "lookup" => task'[p].k = task[p].k + 1
<1>1. CASE task[p].k < Len(Attempts)
  BY <1>1 DEF NextAttempt, TaskRecords
<1>2. CASE ~(task[p].k < Len(Attempts))
  BY <1>2 DEF NextAttempt, Finish, IdleTask, TaskRecords
<1> QED BY <1>1, <1>2

\* What a request relies on outlives the steps of others that leave the VM
\* processes and what the sandbox knows of them alone: they may kill, and they
\* may drop the dump or write it anew.
LEMMA AttemptKept ==
  ASSUME LifeInv, NEW q \in Tasks, task'[q] = task[q],
         vm' = vm, killed \subseteq killed',
         sandbox'.status = sandbox.status, sandbox'.pid = sandbox.pid,
         sandbox'.client = sandbox.client, sandbox'.exit = sandbox.exit,
         disk'.pid \in {disk.pid, sandbox.pid, NoVm}
  PROVE  AttemptAt(q)'
<1>1. AttemptAt(q)
  BY DEF LifeInv, AttemptInv
<1>2. /\ sandbox.client \in Nat /\ sandbox.pid \in Nat /\ disk.pid \in Nat /\ task[q].k \in Nat
  BY Numbers DEF LifeInv
<1>3. \A v \in Vms : Live(v)' => Live(v)
  BY DEF Live
<1>4. VmLive' => VmLive
  BY <1>3 DEF VmLive
<1>5. task[q].pc \in {"lookup", "lock"} => disk'.pid < task[q].k
  BY <1>1, <1>2 DEF AttemptAt, NoVm
<1>6. task[q].pc \in {"launched", "connected", "post", "undo", "rollback"} =>
        disk'.pid <= task[q].k
  BY <1>1, <1>2 DEF AttemptAt, NoVm
<1> QED BY <1>1, <1>3, <1>4, <1>5, <1>6 DEF AttemptAt

\* A request whose attempt failed, or found no sandbox, and that tries again or
\* gives up, relies on no VM but on what came before the next attempt.
LEMMA AttemptNext ==
  ASSUME LifeInv, NEW p \in Tasks, task[p].pc \in {"lookup", "lock", "undo", "rollback"},
         task'[p].pc \in {"lookup", "idle"},
         task'[p].pc = "lookup" => task'[p].k = task[p].k + 1,
         vm' = vm, killed' = killed, disk'.pid = disk.pid,
         sandbox'.status = sandbox.status, sandbox'.pid = sandbox.pid,
         sandbox'.client = sandbox.client, sandbox'.exit = sandbox.exit
  PROVE  AttemptAt(p)'
<1>1. AttemptAt(p)
  BY DEF LifeInv, AttemptInv
<1>2. /\ sandbox.client \in Nat /\ sandbox.pid \in Nat /\ disk.pid \in Nat
      /\ task[p].k \in Nat /\ \A v \in Vms : v \in Nat
  BY Numbers DEF LifeInv
<1>3. \A v \in Vms : ~Live(v)
  BY <1>1 DEF AttemptAt
<1>4. \A v \in Vms : ~Live(v)'
  BY <1>3 DEF Live
<1>5. \A v \in Vms : v > task[p].k => vm[v] = "unborn"
  BY <1>1, <1>2 DEF AttemptAt
<1>6. sandbox.client <= task[p].k /\ sandbox.pid <= task[p].k /\ disk.pid <= task[p].k
  BY <1>1, <1>2 DEF AttemptAt
<1>7. sandbox.client = NoVm => ~sandbox.exit /\ sandbox.status # "Stopped"
  BY <1>1 DEF AttemptAt, StartPcs
<1>8. CASE task'[p].pc = "idle"
  BY <1>8 DEF AttemptAt, StartPcs
<1>9. CASE task'[p].pc = "lookup"
  <2>1. \A v \in Vms : v >= task'[p].k => vm'[v] = "unborn"
    BY <1>2, <1>5, <1>9
  <2>2. sandbox'.client < task'[p].k /\ sandbox'.pid < task'[p].k /\ disk'.pid < task'[p].k
    BY <1>2, <1>6, <1>9
  <2> QED BY <1>4, <1>7, <1>9, <2>1, <2>2 DEF AttemptAt
<1> QED BY <1>8, <1>9

\* Every step of the sandbox, the VM processes, the monitors and the recovery
\* keeps the invariant.
LEMMA LifeStep ==
  ASSUME LifeInv, Next
  PROVE  LifeInv'
<1>1. /\ sandbox \in SandboxRecords /\ disk \in DumpRecords /\ up \in BOOLEAN
      /\ task \in [Tasks -> TaskRecords] /\ monitor \in [Vms -> MonitorRecords]
      /\ vm \in [Vms -> {"unborn", "alive", "exited"}] /\ inMap \in BOOLEAN
      /\ killed \in SUBSET Vms /\ reported \in SUBSET Vms
  BY DEF LifeInv, TypeOK
<1>2. RequestInv /\ LockInv /\ AttemptInv /\ MonitorInv /\ LiveInv /\ OneLiveVm
  BY DEF LifeInv
<1>3. Free \notin Tasks
  BY LifecycleAssumption
<1>4. ASSUME NEW p \in Tasks, CreateDump(p)
      PROVE  RequestInv' /\ LockInv' /\ AttemptInv' /\ MonitorInv' /\ LiveInv' /\ OneLiveVm'
  <2>1. MonitorInv' /\ OneLiveVm'
    BY <1>2, <1>4 DEF CreateDump, MonitorInv, OneLiveVm, Live
  <2>2. RequestInv'
    BY <1>1, <1>2, <1>4 DEF CreateDump, Idle, Goto, NoDir, RequestInv, StartPcs,
       TaskRecords, DumpRecords
  <2>3. LockInv'
    BY <1>1, <1>2, <1>4 DEF CreateDump, Idle, Goto, NoDir, LockInv, LockPcs, TaskRecords
  <2>4. AttemptInv'
    BY <1>1, <1>2, <1>3, <1>4 DEF CreateDump, Idle, Goto, NoDir, AttemptInv, AttemptAt,
       Live, VmLive, StartPcs, RequestInv, LockInv, LockPcs, TaskRecords, DumpRecords
  <2>5. LiveInv'
    BY <1>1, <1>2, <1>3, <1>4 DEF CreateDump, Idle, Goto, NoDir, LiveInv, Live, VmLive,
       LockInv, LockPcs, RequestInv, TaskRecords, DumpRecords
  <2> QED BY <2>1, <2>2, <2>3, <2>4, <2>5
<1>5. ASSUME NEW p \in Tasks, CreateInsert(p)
      PROVE  RequestInv' /\ LockInv' /\ AttemptInv' /\ MonitorInv' /\ LiveInv' /\ OneLiveVm'
  <2>1. OneLiveVm'
    BY <1>2, <1>5 DEF CreateInsert, OneLiveVm, Live
  <2>2. RequestInv'
    BY <1>1, <1>2, <1>5 DEF CreateInsert, Finish, IdleTask, NoSandbox, RequestInv,
       StartPcs, TaskRecords, SandboxRecords
  <2>3. LockInv'
    BY <1>1, <1>2, <1>3, <1>5 DEF CreateInsert, Finish, IdleTask, NoSandbox, LockInv,
       LockPcs, RequestInv, TaskRecords, SandboxRecords
  <2>4. AttemptInv'
    BY SMTT(60), <1>1, <1>2, <1>3, <1>5 DEF CreateInsert, Finish, IdleTask, NoSandbox, AttemptInv,
       AttemptAt, Live, VmLive, StartPcs, RequestInv, LockInv, LockPcs, TaskRecords,
       SandboxRecords
  <2>5. MonitorInv'
    BY <1>1, <1>2, <1>3, <1>5 DEF CreateInsert, Finish, IdleTask, NoSandbox, MonitorInv,
       RequestInv, AttemptInv, AttemptAt, SandboxRecords
  <2>6. LiveInv'
    BY <1>1, <1>2, <1>3, <1>5 DEF CreateInsert, Finish, IdleTask, NoSandbox, LiveInv,
       Live, VmLive, LockInv, LockPcs, RequestInv, TaskRecords, SandboxRecords
  <2> QED BY <2>1, <2>2, <2>3, <2>4, <2>5, <2>6
<1>6. ASSUME NEW p \in Tasks, Start(p)
      PROVE  RequestInv' /\ LockInv' /\ AttemptInv' /\ MonitorInv' /\ LiveInv' /\ OneLiveVm'
  <2>0. /\ up /\ task[p].pc = "idle" /\ asked = "create" /\ inMap /\ asked' = "start"
        /\ \A q \in Tasks : q # p => task'[q] = task[q]
        /\ task'[p].pc = "lookup" /\ task'[p].k = 1
        /\ UNCHANGED <<sandbox, inMap, monitor, vm, killed, reported, disk, up>>
    BY <1>1, <1>6 DEF Start, Idle, IdleTask, TaskRecords
  <2>1. MonitorInv' /\ OneLiveVm'
    BY <1>2, <1>6 DEF Start, MonitorInv, OneLiveVm, Live
  <2>2. RequestInv'
    BY <1>2, <2>0 DEF RequestInv, StartPcs
  <2>3. LockInv'
    BY <1>2, <2>0 DEF LockInv, LockPcs
  <2>4. AttemptInv'
    <3> SUFFICES ASSUME NEW q \in Tasks PROVE AttemptAt(q)'
      BY DEF AttemptInv
    <3>1. AttemptAt(p) /\ AttemptAt(q)
      BY <1>2 DEF AttemptInv
    <3>2. /\ sandbox.client \in Nat /\ sandbox.pid \in Nat /\ disk.pid \in Nat
          /\ task[p].k \in Nat /\ task[q].k \in Nat /\ \A v \in Vms : v \in Nat
      BY Numbers DEF LifeInv
    <3>3. CASE q = p
      BY SMTT(60), <2>0, <3>1, <3>2, <3>3, <1>2 DEF AttemptAt, Live, VmLive, StartPcs, RequestInv, NoVm
    <3>4. CASE q # p
      BY <2>0, <3>1, <3>2, <3>4, <1>2 DEF AttemptAt, Live, VmLive, StartPcs, RequestInv
    <3> QED BY <3>3, <3>4
  <2>5. LiveInv'
    BY <1>2, <2>0 DEF LiveInv, Live, VmLive
  <2> QED BY <2>1, <2>2, <2>3, <2>4, <2>5
<1>7. ASSUME NEW p \in Tasks, Lookup(p)
      PROVE  RequestInv' /\ LockInv' /\ AttemptInv' /\ MonitorInv' /\ LiveInv' /\ OneLiveVm'
  <2>0. /\ task[p].pc = "lookup" /\ \A q \in Tasks : q # p => task'[q] = task[q]
        /\ task'[p].pc \in {"lookup", "lock", "idle"}
        /\ task'[p].pc = "lookup" => task'[p].k = task[p].k + 1
        /\ task'[p].pc = "lock" => task'[p].k = task[p].k
        /\ UNCHANGED <<sandbox, inMap, monitor, vm, killed, reported, disk, asked, up>>
    <3>1. CASE inMap
      BY <1>1, <1>7, <3>1 DEF Lookup, Goto, TaskRecords
    <3>2. CASE ~inMap
      BY <1>1, <1>7, <3>2, NextAttemptFields DEF Lookup
    <3> QED BY <3>1, <3>2
  <2>1. MonitorInv' /\ OneLiveVm'
    BY <1>2, <1>7 DEF Lookup, MonitorInv, OneLiveVm, Live
  <2>2. RequestInv'
    BY <1>2, <2>0 DEF RequestInv, StartPcs
  <2>3. LockInv'
    BY <1>2, <2>0 DEF LockInv, LockPcs
  <2>4. AttemptInv'
    <3> SUFFICES ASSUME NEW q \in Tasks PROVE AttemptAt(q)'
      BY DEF AttemptInv
    <3>1. AttemptAt(p) /\ AttemptAt(q)
      BY <1>2 DEF AttemptInv
    <3>2. /\ sandbox.client \in Nat /\ sandbox.pid \in Nat /\ disk.pid \in Nat
          /\ task[p].k \in Nat /\ task[q].k \in Nat /\ \A v \in Vms : v \in Nat
      BY Numbers DEF LifeInv
    <3>3. CASE q = p /\ task'[p].pc = "lock"
      BY <2>0, <3>1, <3>3 DEF AttemptAt, Live, StartPcs
    <3>4. CASE q = p /\ task'[p].pc # "lock"
      BY <2>0, <3>4, AttemptNext
    <3>5. CASE q # p
      BY <2>0, <3>5, AttemptKept
    <3> QED BY <3>3, <3>4, <3>5
  <2>5. LiveInv'
    BY <1>2, <2>0 DEF LiveInv, Live, VmLive
  <2> QED BY <2>1, <2>2, <2>3, <2>4, <2>5
<1>8. ASSUME NEW p \in Tasks, Launch(p)
      PROVE  RequestInv' /\ LockInv' /\ AttemptInv' /\ MonitorInv' /\ LiveInv' /\ OneLiveVm'
  <2>0. /\ task[p].pc = "lock" /\ sandbox.lock = Free
        /\ \A q \in Tasks : q # p => task'[q] = task[q]
        /\ task'[p].pc = "launched" /\ task'[p].k = task[p].k /\ task[p].k \in Vms
        /\ vm'[task[p].k] = "alive" /\ \A v \in Vms : v # task[p].k => vm'[v] = vm[v]
        /\ disk'.pid \in {disk.pid, NoVm}
        /\ disk'.file = "json" => disk' = disk
        /\ sandbox'.status = sandbox.status /\ sandbox'.pid = task[p].k
        /\ sandbox'.chan = task[p].k /\ sandbox'.client = sandbox.client
        /\ sandbox'.exit = sandbox.exit /\ sandbox'.lock = p
        /\ UNCHANGED <<inMap, monitor, killed, reported, asked, up>>
    BY <1>1, <1>8 DEF Launch, Goto, NoDir, SandboxRecords, TaskRecords, DumpRecords
  <2>1. RequestInv'
    BY SMTT(60), <1>2, <2>0 DEF RequestInv, StartPcs
  <2>2. LockInv'
    BY <1>1, <1>2, <1>3, <2>0 DEF LockInv, LockPcs, RequestInv
  <2>3. AttemptInv'
    <3> SUFFICES ASSUME NEW q \in Tasks PROVE AttemptAt(q)'
      BY DEF AttemptInv
    <3>1. AttemptAt(p) /\ AttemptAt(q)
      BY <1>2 DEF AttemptInv
    <3>2. /\ sandbox.client \in Nat /\ sandbox.pid \in Nat /\ disk.pid \in Nat
          /\ task[p].k \in Nat /\ task[q].k \in Nat /\ \A v \in Vms : v \in Nat
      BY Numbers DEF LifeInv
    <3>3. CASE q = p
      <4>1. /\ sandbox.client < task[p].k /\ disk.pid < task[p].k
            /\ \A v \in Vms : ~Live(v) /\ (v >= task[p].k => vm[v] = "unborn")
        BY <2>0, <3>1 DEF AttemptAt
      <4>2. sandbox'.client <= task[p].k /\ disk'.pid <= task[p].k
        BY <2>0, <3>2, <4>1 DEF NoVm
      <4>3. \A v \in Vms : v > task[p].k => vm'[v] = "unborn"
        BY <2>0, <3>2, <4>1
      <4>4. \A v \in Vms : Live(v)' => v = task[p].k
        BY <2>0, <4>1 DEF Live
      <4>5. sandbox'.client = NoVm => ~sandbox'.exit /\ sandbox'.status # "Stopped"
        BY <2>0, <3>1 DEF AttemptAt, StartPcs
      <4> QED BY <2>0, <3>3, <4>2, <4>3, <4>4, <4>5, <3>2 DEF AttemptAt
    <3>4. CASE q # p
      <4>1. task[q].pc \notin LockPcs
        BY <1>2, <1>3, <2>0 DEF LockInv
      <4>2. task[q].pc \notin StartPcs
        BY <1>2, <2>0, <3>4 DEF RequestInv, StartPcs
      <4> QED BY <2>0, <3>4, <4>1, <4>2 DEF AttemptAt, StartPcs, LockPcs
    <3> QED BY <3>3, <3>4
  <2>4. MonitorInv'
    <3>1. sandbox.client \in Nat /\ task[p].k \in Nat
      BY Numbers DEF LifeInv
    <3>2. sandbox.client < task[p].k /\ vm[task[p].k] = "unborn"
      BY <1>2, <2>0, <3>1 DEF AttemptInv, AttemptAt
    <3>3. \A v \in reported : vm'[v] = "exited"
      BY <1>1, <1>2, <2>0, <3>2 DEF MonitorInv
    <3>4. sandbox'.client # sandbox'.pid /\ sandbox'.chan = sandbox'.pid
      BY <2>0, <3>1, <3>2
    <3>5. sandbox'.client = NoVm => \A v \in Vms : monitor'[v].pc = "none"
      BY <1>2, <2>0 DEF MonitorInv
    <3>6. \A v \in reported' : vm'[v] = "exited"
      BY <2>0, <3>3
    <3> QED BY <3>4, <3>5, <3>6 DEF MonitorInv
  <2>5. LiveInv'
    <3>1. /\ sandbox.client < task[p].k /\ sandbox.client \in Nat /\ task[p].k \in Nat
          /\ disk.pid < task[p].k /\ disk.pid \in Nat
      BY <1>2, <2>0, Numbers DEF LifeInv, AttemptInv, AttemptAt
    <3>2. task'[p].pc \in {"launched", "connected"}
      BY <2>0
    <3>3. sandbox'.client # sandbox'.pid
      BY <2>0, <3>1
    <3>4. disk'.file = "json" /\ disk'.status # "Running" =>
            disk'.pid \notin {v \in Vms : Live(v)'}
      BY <1>2, <2>0, <3>1 DEF LiveInv, Live
    <3> QED BY <3>2, <3>3, <3>4 DEF LiveInv
  <2>6. OneLiveVm'
    BY SMTT(60), <1>1, <1>2, <1>3, <2>0 DEF OneLiveVm, AttemptInv, AttemptAt, Live
  <2> QED BY <2>1, <2>2, <2>3, <2>4, <2>5, <2>6
<1>9. ASSUME NEW p \in Tasks, LaunchFailed(p)
      PROVE  RequestInv' /\ LockInv' /\ AttemptInv' /\ MonitorInv' /\ LiveInv' /\ OneLiveVm'
  <2>0. /\ task[p].pc = "lock" /\ sandbox.lock = Free
        /\ \A q \in Tasks : q # p => task'[q] = task[q]
        /\ task'[p].pc \in {"lookup", "idle"}
        /\ task'[p].pc = "lookup" => task'[p].k = task[p].k + 1
        /\ sandbox'.status = sandbox.status /\ sandbox'.pid = sandbox.pid
        /\ sandbox'.chan = sandbox.chan /\ sandbox'.client = sandbox.client
        /\ sandbox'.exit = sandbox.exit /\ sandbox'.lock = sandbox.lock
        /\ UNCHANGED <<inMap, monitor, vm, killed, reported, disk, asked, up>>
    BY <1>1, <1>9, NextAttemptFields DEF LaunchFailed, SandboxRecords
  <2>1. OneLiveVm'
    BY <1>2, <1>9 DEF LaunchFailed, OneLiveVm, Live
  <2>2. RequestInv'
    BY SMTT(60), <1>2, <2>0 DEF RequestInv, StartPcs
  <2>3. LockInv'
    BY <1>2, <2>0 DEF LockInv, LockPcs
  <2>4. AttemptInv'
    <3> SUFFICES ASSUME NEW q \in Tasks PROVE AttemptAt(q)'
      BY DEF AttemptInv
    <3>1. CASE q = p
      BY <2>0, <3>1, AttemptNext
    <3>2. CASE q # p
      BY <2>0, <3>2, AttemptKept
    <3> QED BY <3>1, <3>2
  <2>5. MonitorInv'
    BY <1>2, <2>0 DEF MonitorInv
  <2>6. LiveInv'
    BY <1>2, <2>0 DEF LiveInv, Live, VmLive
  <2> QED BY <2>1, <2>2, <2>3, <2>4, <2>5, <2>6
<1>10. ASSUME NEW p \in Tasks, Connect(p)
      PROVE  RequestInv' /\ LockInv' /\ AttemptInv' /\ MonitorInv' /\ LiveInv' /\ OneLiveVm'
  <2>1. OneLiveVm'
    BY <1>2, <1>10 DEF Connect, OneLiveVm, Live
  <2>2. RequestInv'
    BY <1>1, <1>2, <1>10 DEF Connect, Goto, VmExited, RequestInv, StartPcs, TaskRecords,
       SandboxRecords
  <2>3. LockInv'
    BY <1>1, <1>2, <1>10 DEF Connect, Goto, VmExited, LockInv, LockPcs, TaskRecords,
       SandboxRecords
  <2>4. AttemptInv'
    BY <1>1, <1>2, <1>3, <1>10, VmsFacts DEF Connect, Goto, VmExited, AttemptInv,
       AttemptAt, RequestInv, LockInv, LockPcs, MonitorInv, LiveInv, StartPcs, Live,
       VmLive, TaskRecords, SandboxRecords, DumpRecords, MonitorRecords
  <2>5. MonitorInv'
    BY <1>1, <1>2, <1>10 DEF Connect, Goto, VmExited, MonitorInv, SandboxRecords
  <2>6. LiveInv'
    BY SMTT(60), <1>1, <1>2, <1>3, <1>10 DEF Connect, Goto, VmExited, LiveInv, RequestInv,
       AttemptInv, AttemptAt, MonitorInv, LockInv, LockPcs, Live, VmLive, StartPcs,
       TaskRecords, SandboxRecords
  <2> QED BY <2>1, <2>2, <2>3, <2>4, <2>5, <2>6
<1>11. ASSUME NEW p \in Tasks, Setup(p)
      PROVE  RequestInv' /\ LockInv' /\ AttemptInv' /\ MonitorInv' /\ LiveInv' /\ OneLiveVm'
  <2>1. OneLiveVm'
    BY <1>2, <1>11 DEF Setup, OneLiveVm, Live
  <2>2. RequestInv'
    BY <1>1, <1>2, <1>11 DEF Setup, Goto, VmExited, NoMonitor, RequestInv, StartPcs,
       TaskRecords, SandboxRecords, MonitorRecords
  <2>3. LockInv'
    BY <1>1, <1>2, <1>11 DEF Setup, Goto, VmExited, NoMonitor, LockInv, LockPcs,
       TaskRecords, SandboxRecords
  <2>4. AttemptInv'
    BY <1>1, <1>2, <1>11 DEF Setup, Goto, VmExited, NoMonitor, AttemptInv, AttemptAt,
       Live, VmLive, StartPcs, TaskRecords, SandboxRecords
  <2>5. MonitorInv'
    BY <1>1, <1>2, <1>11 DEF Setup, Goto, VmExited, NoMonitor, MonitorInv,
       SandboxRecords, MonitorRecords
  <2>6. LiveInv'
    BY <1>1, <1>2, <1>11 DEF Setup, Goto, VmExited, NoMonitor, LiveInv, Live, VmLive,
       TaskRecords, SandboxRecords
  <2> QED BY <2>1, <2>2, <2>3, <2>4, <2>5, <2>6
<1>12. ASSUME NEW p \in Tasks, StartFailed(p)
      PROVE  RequestInv' /\ LockInv' /\ AttemptInv' /\ MonitorInv' /\ LiveInv' /\ OneLiveVm'
  <2>1. MonitorInv'
    BY <1>2, <1>12 DEF StartFailed, MonitorInv
  <2>2. RequestInv'
    BY <1>1, <1>2, <1>12 DEF StartFailed, Goto, Kill, RequestInv, StartPcs, TaskRecords
  <2>3. LockInv'
    BY <1>1, <1>2, <1>12 DEF StartFailed, Goto, Kill, LockInv, LockPcs, TaskRecords
  <2>4. AttemptInv'
    BY <1>1, <1>2, <1>3, <1>12, VmsFacts DEF StartFailed, Goto, Kill, AttemptInv,
       AttemptAt, RequestInv, LockInv, LockPcs, MonitorInv, LiveInv, StartPcs, Live,
       VmLive, TaskRecords, SandboxRecords, DumpRecords, MonitorRecords
  <2>5. LiveInv'
    BY <1>1, <1>2, <1>3, <1>12, VmsFacts DEF StartFailed, Goto, Kill, LiveInv,
       RequestInv, AttemptInv, AttemptAt, MonitorInv, LockInv, LockPcs, Live, VmLive,
       StartPcs, TaskRecords, SandboxRecords, DumpRecords, MonitorRecords
  <2>6. OneLiveVm'
    BY <1>1, <1>2, <1>12 DEF StartFailed, Goto, Kill, OneLiveVm, Live
  <2> QED BY <2>1, <2>2, <2>3, <2>4, <2>5, <2>6
<1>13. ASSUME NEW p \in Tasks, Undo(p)
      PROVE  RequestInv' /\ LockInv' /\ AttemptInv' /\ MonitorInv' /\ LiveInv' /\ OneLiveVm'
  <2>0. /\ task[p].pc = "undo"
        /\ \A q \in Tasks : q # p => task'[q] = task[q]
        /\ task'[p].pc \in {"lookup", "idle"}
        /\ task'[p].pc = "lookup" => task'[p].k = task[p].k + 1
        /\ sandbox'.status = sandbox.status /\ sandbox'.pid = sandbox.pid
        /\ sandbox'.chan = sandbox.chan /\ sandbox'.client = sandbox.client
        /\ sandbox'.exit = sandbox.exit /\ sandbox'.lock = Free
        /\ UNCHANGED <<inMap, monitor, vm, killed, reported, disk, asked, up>>
    BY <1>1, <1>13, NextAttemptFields DEF Undo, SandboxRecords
  <2>1. OneLiveVm'
    BY <1>2, <1>13 DEF Undo, OneLiveVm, Live
  <2>2. RequestInv'
    BY SMTT(60), <1>2, <2>0 DEF RequestInv, StartPcs
  <2>3. LockInv'
    BY <1>2, <2>0 DEF LockInv, LockPcs
  <2>4. AttemptInv'
    <3> SUFFICES ASSUME NEW q \in Tasks PROVE AttemptAt(q)'
      BY DEF AttemptInv
    <3>1. CASE q = p
      BY <2>0, <3>1, AttemptNext
    <3>2. CASE q # p
      BY <2>0, <3>2, AttemptKept
    <3> QED BY <3>1, <3>2
  <2>5. MonitorInv'
    BY <1>2, <2>0 DEF MonitorInv
  <2>6. LiveInv'
    BY <1>2, <2>0 DEF LiveInv, Live, VmLive
  <2> QED BY <2>1, <2>2, <2>3, <2>4, <2>5, <2>6
<1>14. ASSUME NEW p \in Tasks, PostFailed(p)
      PROVE  RequestInv' /\ LockInv' /\ AttemptInv' /\ MonitorInv' /\ LiveInv' /\ OneLiveVm'
  <2>1. MonitorInv'
    BY <1>2, <1>14 DEF PostFailed, MonitorInv
  <2>2. RequestInv'
    BY <1>1, <1>2, <1>14 DEF PostFailed, Goto, Kill, RequestInv, StartPcs, TaskRecords
  <2>3. LockInv'
    BY <1>1, <1>2, <1>14 DEF PostFailed, Goto, Kill, LockInv, LockPcs, TaskRecords
  <2>4. AttemptInv'
    BY <1>1, <1>2, <1>3, <1>14, VmsFacts DEF PostFailed, Goto, Kill, AttemptInv,
       AttemptAt, RequestInv, LockInv, LockPcs, MonitorInv, LiveInv, StartPcs, Live,
       VmLive, TaskRecords, SandboxRecords, DumpRecords, MonitorRecords
  <2>5. LiveInv'
    BY <1>1, <1>2, <1>14 DEF PostFailed, Goto, Kill, LiveInv, Live, VmLive, TaskRecords
  <2>6. OneLiveVm'
    BY <1>1, <1>2, <1>14 DEF PostFailed, Goto, Kill, OneLiveVm, Live
  <2> QED BY <2>1, <2>2, <2>3, <2>4, <2>5, <2>6
<1>15. ASSUME NEW p \in Tasks, Rollback(p)
      PROVE  RequestInv' /\ LockInv' /\ AttemptInv' /\ MonitorInv' /\ LiveInv' /\ OneLiveVm'
  <2>0. /\ task[p].pc = "rollback"
        /\ \A q \in Tasks : q # p => task'[q] = task[q]
        /\ task'[p].pc \in {"lookup", "idle"}
        /\ task'[p].pc = "lookup" => task'[p].k = task[p].k + 1
        /\ sandbox'.status = sandbox.status /\ sandbox'.pid = sandbox.pid
        /\ sandbox'.chan = sandbox.chan /\ sandbox'.client = sandbox.client
        /\ sandbox'.exit = sandbox.exit /\ sandbox'.lock = Free
        /\ UNCHANGED <<inMap, monitor, vm, killed, reported, disk, asked, up>>
    BY ZenonT(60), <1>1, <1>15, NextAttemptFields DEF Rollback, SandboxRecords
  <2>1. OneLiveVm'
    BY <1>2, <1>15 DEF Rollback, OneLiveVm, Live
  <2>2. RequestInv'
    BY SMTT(60), <1>2, <2>0 DEF RequestInv, StartPcs
  <2>3. LockInv'
    BY <1>2, <2>0 DEF LockInv, LockPcs
  <2>4. AttemptInv'
    <3> SUFFICES ASSUME NEW q \in Tasks PROVE AttemptAt(q)'
      BY DEF AttemptInv
    <3>1. CASE q = p
      BY <2>0, <3>1, AttemptNext
    <3>2. CASE q # p
      BY <2>0, <3>2, AttemptKept
    <3> QED BY <3>1, <3>2
  <2>5. MonitorInv'
    BY <1>2, <2>0 DEF MonitorInv
  <2>6. LiveInv'
    BY <1>2, <2>0 DEF LiveInv, Live, VmLive
  <2> QED BY <2>1, <2>2, <2>3, <2>4, <2>5, <2>6
<1>16. ASSUME NEW p \in Tasks, Started(p)
      PROVE  RequestInv' /\ LockInv' /\ AttemptInv' /\ MonitorInv' /\ LiveInv' /\ OneLiveVm'
  <2>1. OneLiveVm'
    BY <1>2, <1>16 DEF Started, OneLiveVm, Live
  <2>2. RequestInv'
    BY <1>1, <1>2, <1>16 DEF Started, Finish, IdleTask, Dump, RequestInv, StartPcs,
       TaskRecords, SandboxRecords, DumpRecords
  <2>3. LockInv'
    BY <1>1, <1>2, <1>16 DEF Started, Finish, IdleTask, Dump, LockInv, LockPcs,
       TaskRecords, SandboxRecords
  <2>4. AttemptInv'
    BY <1>1, <1>2, <1>16 DEF Started, Finish, IdleTask, Dump, AttemptInv, AttemptAt,
       Live, VmLive, StartPcs, TaskRecords, SandboxRecords, DumpRecords
  <2>5. MonitorInv'
    BY <1>1, <1>2, <1>16 DEF Started, Finish, IdleTask, Dump, MonitorInv, SandboxRecords
  <2>6. LiveInv'
    BY <1>1, <1>2, <1>3, <1>16 DEF Started, Finish, IdleTask, Dump, LiveInv, Live,
       VmLive, LockInv, LockPcs, RequestInv, TaskRecords, SandboxRecords, DumpRecords
  <2> QED BY <2>1, <2>2, <2>3, <2>4, <2>5, <2>6
<1>17. ASSUME NEW p \in Tasks, Stop(p)
      PROVE  RequestInv' /\ LockInv' /\ AttemptInv' /\ MonitorInv' /\ LiveInv' /\ OneLiveVm'
  <2>1. MonitorInv' /\ OneLiveVm'
    BY <1>2, <1>17 DEF Stop, MonitorInv, OneLiveVm, Live
  <2>2. RequestInv'
    BY <1>1, <1>2, <1>17 DEF Stop, Idle, Goto, RequestInv, StartPcs, TaskRecords
  <2>3. LockInv'
    BY <1>1, <1>2, <1>17 DEF Stop, Idle, Goto, LockInv, LockPcs, TaskRecords
  <2>4. AttemptInv'
    BY <1>1, <1>2, <1>17 DEF Stop, Idle, Goto, AttemptInv, AttemptAt, Live, VmLive,
       StartPcs, TaskRecords
  <2>5. LiveInv'
    BY <1>1, <1>2, <1>17 DEF Stop, Idle, Goto, LiveInv, Live, VmLive, TaskRecords
  <2> QED BY <2>1, <2>2, <2>3, <2>4, <2>5
<1>18. ASSUME NEW p \in Tasks, StopStopped(p)
      PROVE  RequestInv' /\ LockInv' /\ AttemptInv' /\ MonitorInv' /\ LiveInv' /\ OneLiveVm'
  <2>1. OneLiveVm'
    BY <1>2, <1>18 DEF StopStopped, OneLiveVm, Live
  <2>2. RequestInv'
    BY <1>1, <1>2, <1>18 DEF StopStopped, Finish, IdleTask, Dump, RequestInv, StartPcs,
       TaskRecords, SandboxRecords, DumpRecords
  <2>3. LockInv'
    BY <1>1, <1>2, <1>18 DEF StopStopped, Finish, IdleTask, Dump, LockInv, LockPcs,
       TaskRecords, SandboxRecords
  <2>4. AttemptInv'
    BY <1>1, <1>2, <1>3, <1>18 DEF StopStopped, Finish, IdleTask, Dump, AttemptInv,
       AttemptAt, Live, VmLive, StartPcs, RequestInv, LockInv, LockPcs, TaskRecords,
       SandboxRecords, DumpRecords
  <2>5. MonitorInv'
    BY <1>1, <1>2, <1>18 DEF StopStopped, Finish, IdleTask, Dump, MonitorInv,
       SandboxRecords
  <2>6. LiveInv'
    BY <1>1, <1>2, <1>3, <1>18 DEF StopStopped, Finish, IdleTask, Dump, LiveInv, Live,
       VmLive, LockInv, LockPcs, RequestInv, TaskRecords, SandboxRecords, DumpRecords
  <2> QED BY <2>1, <2>2, <2>3, <2>4, <2>5, <2>6
<1>19. ASSUME NEW p \in Tasks, StopKill(p)
      PROVE  RequestInv' /\ LockInv' /\ AttemptInv' /\ MonitorInv' /\ LiveInv' /\ OneLiveVm'
  <2>1. RequestInv'
    BY <1>1, <1>2, <1>19 DEF StopKill, Goto, Kill, RequestInv, StartPcs, TaskRecords,
       SandboxRecords
  <2>2. LockInv'
    BY <1>1, <1>2, <1>3, <1>19 DEF StopKill, Goto, Kill, LockInv, LockPcs, RequestInv,
       TaskRecords, SandboxRecords
  <2>3. AttemptInv'
    BY SMTT(60), <1>1, <1>2, <1>3, <1>19, VmsFacts DEF StopKill, Goto, Kill, AttemptInv, AttemptAt,
       RequestInv, LockInv, LockPcs, MonitorInv, LiveInv, StartPcs, Live, VmLive,
       TaskRecords, SandboxRecords, DumpRecords, MonitorRecords
  <2>4. MonitorInv'
    BY <1>1, <1>2, <1>19 DEF StopKill, Goto, Kill, MonitorInv, SandboxRecords
  <2>5. LiveInv'
    BY <1>1, <1>2, <1>19 DEF StopKill, Goto, Kill, LiveInv, Live, VmLive, TaskRecords,
       SandboxRecords
  <2>6. OneLiveVm'
    BY <1>1, <1>2, <1>19 DEF StopKill, Goto, Kill, OneLiveVm, Live
  <2> QED BY <2>1, <2>2, <2>3, <2>4, <2>5, <2>6
<1>20. ASSUME NEW p \in Tasks, StopDone(p)
      PROVE  RequestInv' /\ LockInv' /\ AttemptInv' /\ MonitorInv' /\ LiveInv' /\ OneLiveVm'
  <2>1. OneLiveVm'
    BY <1>2, <1>20 DEF StopDone, OneLiveVm, Live
  <2>2. RequestInv'
    BY <1>1, <1>2, <1>20 DEF StopDone, Finish, IdleTask, Dump, RequestInv, StartPcs,
       TaskRecords, SandboxRecords, DumpRecords
  <2>3. LockInv'
    BY <1>1, <1>2, <1>20 DEF StopDone, Finish, IdleTask, Dump, LockInv, LockPcs,
       TaskRecords, SandboxRecords
  <2>4. AttemptInv'
    BY <1>1, <1>2, <1>3, <1>20 DEF StopDone, Finish, IdleTask, Dump, AttemptInv,
       AttemptAt, Live, VmLive, StartPcs, RequestInv, LockInv, LockPcs, TaskRecords,
       SandboxRecords, DumpRecords
  <2>5. MonitorInv'
    BY <1>1, <1>2, <1>20 DEF StopDone, Finish, IdleTask, Dump, MonitorInv, SandboxRecords
  <2>6. LiveInv'
    BY <1>1, <1>2, <1>3, <1>20 DEF StopDone, Finish, IdleTask, Dump, LiveInv, Live,
       VmLive, LockInv, LockPcs, RequestInv, TaskRecords, SandboxRecords, DumpRecords
  <2> QED BY <2>1, <2>2, <2>3, <2>4, <2>5, <2>6
<1>21. ASSUME NEW p \in Tasks, StopFailed(p)
      PROVE  RequestInv' /\ LockInv' /\ AttemptInv' /\ MonitorInv' /\ LiveInv' /\ OneLiveVm'
  <2>0. /\ task[p].pc \in {"stop_lock", "stopping"}
        /\ task[p].pc = "stop_lock" => sandbox.lock = Free
        /\ \A q \in Tasks : q # p => task'[q] = task[q]
        /\ task'[p].pc = "idle"
        /\ sandbox'.status = sandbox.status /\ sandbox'.pid = sandbox.pid
        /\ sandbox'.chan = sandbox.chan /\ sandbox'.client = sandbox.client
        /\ sandbox'.exit = sandbox.exit /\ sandbox'.lock = Free
        /\ UNCHANGED <<inMap, monitor, vm, killed, reported, disk, asked, up>>
    BY <1>1, <1>21 DEF StopFailed, Finish, IdleTask, SandboxRecords, TaskRecords
  <2>1. OneLiveVm'
    BY <1>2, <1>21 DEF StopFailed, OneLiveVm, Live
  <2>2. RequestInv'
    BY <1>2, <2>0 DEF RequestInv, StartPcs
  <2>3. LockInv'
    BY <1>2, <2>0 DEF LockInv, LockPcs
  <2>4. AttemptInv'
    <3> SUFFICES ASSUME NEW q \in Tasks PROVE AttemptAt(q)'
      BY DEF AttemptInv
    <3>1. CASE q = p
      BY <2>0, <3>1 DEF AttemptAt, StartPcs
    <3>2. CASE q # p
      BY <2>0, <3>2, AttemptKept
    <3> QED BY <3>1, <3>2
  <2>5. MonitorInv'
    BY <1>2, <2>0 DEF MonitorInv
  <2>6. LiveInv'
    BY <1>2, <2>0 DEF LiveInv, Live, VmLive
  <2> QED BY <2>1, <2>2, <2>3, <2>4, <2>5, <2>6
<1>22. ASSUME Update
      PROVE  RequestInv' /\ LockInv' /\ AttemptInv' /\ MonitorInv' /\ LiveInv' /\ OneLiveVm'
  <2>0. /\ sandbox.lock = Free /\ UNCHANGED <<sandbox, task, vm, killed>>
        /\ \/ disk' = disk
           \/ disk'.pid = sandbox.pid /\ disk'.status = sandbox.status
    BY <1>22 DEF Update, Dump
  <2>1. LockInv' /\ MonitorInv' /\ OneLiveVm'
    BY <1>2, <1>22 DEF Update, LockInv, MonitorInv, OneLiveVm, Live
  <2>2. RequestInv'
    BY <1>1, <1>2, <1>22 DEF Update, Dump, RequestInv, StartPcs, DumpRecords
  <2>3. AttemptInv'
    BY <2>0, AttemptKept DEF AttemptInv
  <2>4. LiveInv'
    <3>1. \A q \in Tasks : task[q].pc \notin {"launched", "connected"}
      BY <1>2, <1>3, <2>0 DEF LockInv, LockPcs
    <3>2. sandbox.status # "Running" => ~VmLive
      BY <1>2, <3>1 DEF LiveInv
    <3>3. \A v \in Vms : Live(v)' <=> Live(v)
      BY <2>0 DEF Live
    <3>4. VmLive' <=> VmLive
      BY <2>0, <3>3 DEF VmLive
    <3>5. disk'.file = "json" /\ disk'.status # "Running" => disk'.pid \notin {v \in Vms : Live(v)'}
      BY <1>2, <2>0, <3>2, <3>3 DEF LiveInv, VmLive
    <3> QED BY <1>2, <2>0, <3>4, <3>5 DEF LiveInv
  <2> QED BY <2>1, <2>2, <2>3, <2>4
<1>23. ASSUME NEW p \in Tasks, Delete(p)
      PROVE  RequestInv' /\ LockInv' /\ AttemptInv' /\ MonitorInv' /\ LiveInv' /\ OneLiveVm'
  <2>1. MonitorInv' /\ OneLiveVm'
    BY <1>2, <1>23 DEF Delete, MonitorInv, OneLiveVm, Live
  <2>2. RequestInv'
    BY <1>1, <1>2, <1>23 DEF Delete, Idle, Goto, RequestInv, StartPcs, TaskRecords
  <2>3. LockInv'
    BY <1>1, <1>2, <1>23 DEF Delete, Idle, Goto, LockInv, LockPcs, TaskRecords
  <2>4. AttemptInv'
    BY <1>1, <1>2, <1>23 DEF Delete, Idle, Goto, AttemptInv, AttemptAt, Live, VmLive,
       StartPcs, TaskRecords
  <2>5. LiveInv'
    BY <1>1, <1>2, <1>23 DEF Delete, Idle, Goto, LiveInv, Live, VmLive, TaskRecords
  <2> QED BY <2>1, <2>2, <2>3, <2>4, <2>5
<1>24. ASSUME NEW p \in Tasks, DeleteStop(p)
      PROVE  RequestInv' /\ LockInv' /\ AttemptInv' /\ MonitorInv' /\ LiveInv' /\ OneLiveVm'
  <2>0. /\ task[p].pc = "del_lock" /\ sandbox.lock = Free
        /\ \A q \in Tasks : q # p => task'[q] = task[q]
        /\ task'[p].pc \in {"deleting", "del_dir"} /\ killed \subseteq killed'
        /\ task'[p].pc = "deleting" => sandbox.pid \in killed' \cup {NoVm}
        /\ task'[p].pc = "del_dir" => sandbox.status = "Stopped"
        /\ sandbox'.status = sandbox.status /\ sandbox'.pid = sandbox.pid
        /\ sandbox'.chan = sandbox.chan /\ sandbox'.client = sandbox.client
        /\ sandbox'.exit = sandbox.exit /\ sandbox'.lock = p
        /\ UNCHANGED <<inMap, monitor, vm, reported, disk, asked, up>>
    <3>1. CASE sandbox.status = "Stopped"
      <4>1. /\ task' = [task EXCEPT ![p].pc = "del_dir", ![p].saw = sandbox.status]
            /\ sandbox' = [sandbox EXCEPT !.lock = p, !.net = FALSE]
            /\ task[p].pc = "del_lock" /\ sandbox.lock = Free
            /\ UNCHANGED <<inMap, monitor, vm, killed, reported, disk, asked, up>>
        BY <1>24, <3>1 DEF DeleteStop
      <4> QED BY <1>1, <3>1, <4>1 DEF SandboxRecords, TaskRecords
    <3>2. CASE sandbox.status # "Stopped"
      BY <1>1, <1>24, <3>2 DEF DeleteStop, Kill, SandboxRecords, TaskRecords
    <3> QED BY <3>1, <3>2
  <2>1. RequestInv'
    BY <1>2, <2>0 DEF RequestInv, StartPcs
  <2>2. LockInv'
    BY <1>1, <1>2, <1>3, <2>0 DEF LockInv, LockPcs, RequestInv
  <2>3. AttemptInv'
    <3> SUFFICES ASSUME NEW q \in Tasks PROVE AttemptAt(q)'
      BY DEF AttemptInv
    <3>1. AttemptAt(p) /\ AttemptAt(q)
      BY <1>2 DEF AttemptInv
    <3>2. /\ sandbox.client \in Nat /\ sandbox.pid \in Nat /\ disk.pid \in Nat
          /\ task[p].k \in Nat /\ task[q].k \in Nat /\ \A v \in Vms : v \in Nat
      BY Numbers DEF LifeInv
    <3>3. VmLive' => VmLive
      BY <2>0 DEF VmLive, Live
    <3>4. ~VmLive'
      <4>1. CASE task'[p].pc = "deleting"
        BY <2>0, <4>1, VmsFacts DEF VmLive, Live
      <4>2. CASE sandbox.status = "Stopped"
        <5>1. \A r \in Tasks : task[r].pc \notin {"launched", "connected"}
          BY <1>2, <1>3, <2>0 DEF LockInv, LockPcs
        <5>2. ~VmLive
          BY <1>2, <4>2, <5>1 DEF LiveInv
        <5> QED BY <3>3, <5>2
      <4> QED BY <2>0, <4>1, <4>2
    <3>5. CASE q = p
      BY <2>0, <3>4, <3>5 DEF AttemptAt, StartPcs
    <3>6. CASE q # p
      BY <2>0, <3>6, AttemptKept
    <3> QED BY <3>5, <3>6
  <2>4. MonitorInv'
    BY <1>2, <2>0 DEF MonitorInv
  <2>5. LiveInv'
    <3>1. \A q \in Tasks : task[q].pc \notin {"launched", "connected"}
      BY <1>2, <1>3, <2>0 DEF LockInv, LockPcs
    <3>2. VmLive' => VmLive
      BY <2>0 DEF VmLive, Live
    <3>3. disk.pid \in {v \in Vms : Live(v)'} => disk.pid \in {v \in Vms : Live(v)}
      BY <2>0 DEF Live
    <3> QED BY <1>2, <2>0, <3>1, <3>2, <3>3 DEF LiveInv
  <2>6. OneLiveVm'
    BY <1>2, <2>0 DEF OneLiveVm, Live
  <2> QED BY <2>1, <2>2, <2>3, <2>4, <2>5, <2>6
<1>25. ASSUME NEW p \in Tasks, DeleteStopped(p)
      PROVE  RequestInv' /\ LockInv' /\ AttemptInv' /\ MonitorInv' /\ LiveInv' /\ OneLiveVm'
  <2>1. OneLiveVm'
    BY <1>2, <1>25 DEF DeleteStopped, OneLiveVm, Live
  <2>2. RequestInv'
    BY <1>1, <1>2, <1>25 DEF DeleteStopped, Goto, RequestInv, StartPcs, TaskRecords,
       SandboxRecords
  <2>3. LockInv'
    BY <1>1, <1>2, <1>25 DEF DeleteStopped, Goto, LockInv, LockPcs, TaskRecords,
       SandboxRecords
  <2>4. AttemptInv'
    BY <1>1, <1>2, <1>25 DEF DeleteStopped, Goto, AttemptInv, AttemptAt, Live, VmLive,
       StartPcs, TaskRecords, SandboxRecords
  <2>5. MonitorInv'
    BY <1>1, <1>2, <1>25 DEF DeleteStopped, Goto, MonitorInv, SandboxRecords
  <2>6. LiveInv'
    BY <1>1, <1>2, <1>25 DEF DeleteStopped, Goto, LiveInv, Live, VmLive, TaskRecords,
       SandboxRecords
  <2> QED BY <2>1, <2>2, <2>3, <2>4, <2>5, <2>6
<1>26. ASSUME NEW p \in Tasks, DeleteFailed(p)
      PROVE  RequestInv' /\ LockInv' /\ AttemptInv' /\ MonitorInv' /\ LiveInv' /\ OneLiveVm'
  <2>1. OneLiveVm'
    BY <1>2, <1>26 DEF DeleteFailed, OneLiveVm, Live
  <2>2. RequestInv'
    BY <1>1, <1>2, <1>26 DEF DeleteFailed, Finish, IdleTask, RequestInv, StartPcs,
       TaskRecords, SandboxRecords
  <2>3. LockInv'
    BY <1>1, <1>2, <1>26 DEF DeleteFailed, Finish, IdleTask, LockInv, LockPcs,
       TaskRecords, SandboxRecords
  <2>4. AttemptInv'
    BY <1>1, <1>2, <1>26 DEF DeleteFailed, Finish, IdleTask, AttemptInv, AttemptAt, Live,
       VmLive, StartPcs, TaskRecords, SandboxRecords
  <2>5. MonitorInv'
    BY <1>1, <1>2, <1>26 DEF DeleteFailed, Finish, IdleTask, MonitorInv, SandboxRecords
  <2>6. LiveInv'
    BY <1>1, <1>2, <1>26 DEF DeleteFailed, Finish, IdleTask, LiveInv, Live, VmLive,
       TaskRecords, SandboxRecords
  <2> QED BY <2>1, <2>2, <2>3, <2>4, <2>5, <2>6
<1>27. ASSUME NEW p \in Tasks, DeleteDir(p)
      PROVE  RequestInv' /\ LockInv' /\ AttemptInv' /\ MonitorInv' /\ LiveInv' /\ OneLiveVm'
  <2>0. /\ task[p].pc = "del_dir"
        /\ \A q \in Tasks : q # p => task'[q] = task[q]
        /\ task'[p].pc = "del_remove"
        /\ disk'.file = "none" /\ disk'.pid = NoVm /\ disk'.status = "None"
        /\ sandbox'.status = sandbox.status /\ sandbox'.pid = sandbox.pid
        /\ sandbox'.chan = sandbox.chan /\ sandbox'.client = sandbox.client
        /\ sandbox'.exit = sandbox.exit /\ sandbox'.lock = Free
        /\ UNCHANGED <<inMap, monitor, vm, killed, reported, asked, up>>
    BY <1>1, <1>27 DEF DeleteDir, Goto, NoDir, SandboxRecords, TaskRecords
  <2>1. OneLiveVm'
    BY <1>2, <1>27 DEF DeleteDir, OneLiveVm, Live
  <2>2. RequestInv'
    BY SMTT(60), <1>2, <2>0 DEF RequestInv, StartPcs
  <2>3. LockInv'
    BY <1>2, <2>0 DEF LockInv, LockPcs
  <2>4. AttemptInv'
    <3> SUFFICES ASSUME NEW q \in Tasks PROVE AttemptAt(q)'
      BY DEF AttemptInv
    <3>1. AttemptAt(p) /\ AttemptAt(q)
      BY <1>2 DEF AttemptInv
    <3>2. /\ sandbox.client \in Nat /\ sandbox.pid \in Nat /\ disk.pid \in Nat
          /\ task[p].k \in Nat /\ task[q].k \in Nat /\ \A v \in Vms : v \in Nat
      BY Numbers DEF LifeInv
    <3>3. CASE q = p
      BY <2>0, <3>1, <3>2, <3>3 DEF AttemptAt, Live, VmLive, StartPcs, NoVm
    <3>4. CASE q # p
      BY <2>0, <3>4, AttemptKept
    <3> QED BY <3>3, <3>4
  <2>5. MonitorInv'
    BY <1>2, <2>0 DEF MonitorInv
  <2>6. LiveInv'
    BY <1>2, <2>0 DEF LiveInv, Live, VmLive
  <2> QED BY <2>1, <2>2, <2>3, <2>4, <2>5, <2>6
<1>28. ASSUME NEW p \in Tasks, DeleteRemove(p)
      PROVE  RequestInv' /\ LockInv' /\ AttemptInv' /\ MonitorInv' /\ LiveInv' /\ OneLiveVm'
  <2>0. /\ task[p].pc = "del_remove" /\ ~inMap' /\ task'[p].pc = "idle"
        /\ \A q \in Tasks : q # p => task'[q] = task[q]
        /\ UNCHANGED <<sandbox, monitor, vm, killed, reported, disk, asked, up>>
    BY <1>1, <1>28 DEF DeleteRemove, Finish, IdleTask, TaskRecords
  <2>1. MonitorInv' /\ OneLiveVm'
    BY <1>2, <1>28 DEF DeleteRemove, MonitorInv, OneLiveVm, Live
  <2>2. RequestInv'
    BY SMTT(60), <1>2, <2>0 DEF RequestInv, StartPcs
  <2>3. LockInv'
    BY <1>1, <1>2, <1>28 DEF DeleteRemove, Finish, IdleTask, LockInv, LockPcs,
       TaskRecords
  <2>4. AttemptInv'
    <3> SUFFICES ASSUME NEW q \in Tasks PROVE AttemptAt(q)'
      BY DEF AttemptInv
    <3>1. CASE q = p
      BY <2>0, <3>1 DEF AttemptAt, StartPcs
    <3>2. CASE q # p
      BY <2>0, <3>2, AttemptKept
    <3> QED BY <3>1, <3>2
  <2>5. LiveInv'
    BY <1>1, <1>2, <1>28 DEF DeleteRemove, Finish, IdleTask, LiveInv, Live, VmLive,
       TaskRecords
  <2> QED BY <2>1, <2>2, <2>3, <2>4, <2>5
<1>29. ASSUME NEW v \in Vms, Exit(v)
      PROVE  RequestInv' /\ LockInv' /\ AttemptInv' /\ MonitorInv' /\ LiveInv' /\ OneLiveVm'
  <2>1. LockInv'
    BY <1>2, <1>29 DEF Exit, LockInv
  <2>2. RequestInv'
    BY <1>1, <1>2, <1>29 DEF Exit, RequestInv, StartPcs
  <2>3. AttemptInv'
    BY SMTT(60), <1>1, <1>2, <1>29 DEF Exit, AttemptInv, AttemptAt, Live, VmLive, StartPcs
  <2>4. MonitorInv'
    BY <1>1, <1>2, <1>29 DEF Exit, MonitorInv
  <2>5. LiveInv'
    BY <1>1, <1>2, <1>29 DEF Exit, LiveInv, Live, VmLive
  <2>6. OneLiveVm'
    BY <1>1, <1>2, <1>29 DEF Exit, OneLiveVm, Live
  <2> QED BY <2>1, <2>2, <2>3, <2>4, <2>5, <2>6
<1>30. ASSUME NEW v \in Vms, Report(v)
      PROVE  RequestInv' /\ LockInv' /\ AttemptInv' /\ MonitorInv' /\ LiveInv' /\ OneLiveVm'
  <2>0. UNCHANGED <<sandbox, inMap, task, monitor, vm, killed, disk, asked, up>>
    BY <1>30 DEF Report
  <2>1. RequestInv'
    BY ZenonT(60), <1>2, <2>0 DEF RequestInv
  <2>2. LockInv'
    BY ZenonT(60), <1>2, <2>0 DEF LockInv
  <2>3. AttemptInv'
    BY <2>0, AttemptKept DEF AttemptInv
  <2>4. LiveInv' /\ OneLiveVm'
    BY ZenonT(60), <1>2, <2>0 DEF LiveInv, OneLiveVm, Live, VmLive
  <2>5. MonitorInv'
    BY <1>1, <1>2, <1>30 DEF Report, MonitorInv
  <2> QED BY <2>1, <2>2, <2>3, <2>4, <2>5
<1>31. ASSUME NEW v \in Vms, MonitorRead(v)
      PROVE  RequestInv' /\ LockInv' /\ AttemptInv' /\ MonitorInv' /\ LiveInv' /\ OneLiveVm'
  <2>0. UNCHANGED <<sandbox, inMap, task, vm, killed, disk, asked, up>>
    BY <1>31 DEF MonitorRead
  <2>4. LockInv'
    BY ZenonT(60), <1>2, <2>0 DEF LockInv
  <2>5. AttemptInv'
    BY <2>0, AttemptKept DEF AttemptInv
  <2>1. LockInv' /\ AttemptInv' /\ LiveInv' /\ OneLiveVm'
    BY ZenonT(60), <1>2, <2>0, <2>4, <2>5 DEF LiveInv, OneLiveVm, Live, VmLive
  <2>2. RequestInv'
    BY <1>1, <1>2, <1>31 DEF MonitorRead, NoMonitor, RequestInv, StartPcs, MonitorRecords
  <2>3. MonitorInv'
    BY <1>1, <1>2, <1>31 DEF MonitorRead, NoMonitor, MonitorInv, MonitorRecords
  <2> QED BY <2>1, <2>2, <2>3
<1>32. ASSUME NEW v \in Vms, MonitorExit(v)
      PROVE  RequestInv' /\ LockInv' /\ AttemptInv' /\ MonitorInv' /\ LiveInv' /\ OneLiveVm'
  <2>1. OneLiveVm'
    BY <1>2, <1>32 DEF MonitorExit, OneLiveVm, Live
  <2>2. RequestInv'
    <3>1. asked = "start"
      BY <1>2, <1>32 DEF MonitorExit, RequestInv, MonitorInv
    <3>2. up
      BY <1>2, <1>32 DEF MonitorExit, RequestInv
    <3> QED BY <1>2, <1>32, <3>1, <3>2 DEF MonitorExit, RequestInv
  <2>3. LockInv'
    BY <1>1, <1>2, <1>32 DEF MonitorExit, NoMonitor, Dump, LockInv, LockPcs,
       SandboxRecords
  <2>4. AttemptInv'
    BY SMTT(60), <1>1, <1>2, <1>3, <1>32 DEF MonitorExit, NoMonitor, Dump, AttemptInv, AttemptAt,
       RequestInv, LockInv, LockPcs, MonitorInv, LiveInv, StartPcs, Live, VmLive,
       SandboxRecords, DumpRecords, MonitorRecords
  <2>5. MonitorInv'
    BY <1>1, <1>2, <1>32 DEF MonitorExit, NoMonitor, Dump, MonitorInv, SandboxRecords,
       MonitorRecords
  <2>6. LiveInv'
    BY <1>1, <1>2, <1>3, <1>32 DEF MonitorExit, NoMonitor, Dump, LiveInv, RequestInv,
       AttemptInv, AttemptAt, MonitorInv, LockInv, LockPcs, Live, VmLive, StartPcs,
       SandboxRecords, DumpRecords, MonitorRecords
  <2> QED BY <2>1, <2>2, <2>3, <2>4, <2>5, <2>6
<1>33. ASSUME Crash
      PROVE  RequestInv' /\ LockInv' /\ AttemptInv' /\ MonitorInv' /\ LiveInv' /\ OneLiveVm'
  <2>1. OneLiveVm'
    BY <1>2, <1>33 DEF Crash, OneLiveVm, Live
  <2>2. RequestInv'
    BY <1>1, <1>2, <1>33 DEF Crash, NoSandbox, IdleTask, NoMonitor, Torn, NoDir,
       RequestInv, StartPcs, TaskRecords, SandboxRecords, DumpRecords, MonitorRecords
  <2>3. LockInv'
    BY <1>1, <1>2, <1>33 DEF Crash, NoSandbox, IdleTask, NoMonitor, Torn, NoDir, LockInv,
       LockPcs, TaskRecords, SandboxRecords
  <2>4. AttemptInv'
    BY <1>1, <1>2, <1>33 DEF Crash, NoSandbox, IdleTask, NoMonitor, Torn, NoDir,
       AttemptInv, AttemptAt, Live, VmLive, StartPcs, TaskRecords, SandboxRecords,
       DumpRecords
  <2>5. MonitorInv'
    BY <1>1, <1>2, <1>33 DEF Crash, NoSandbox, IdleTask, NoMonitor, Torn, NoDir,
       MonitorInv, SandboxRecords, MonitorRecords
  <2>6. LiveInv'
    BY <1>1, <1>2, <1>3, <1>33, VmsFacts DEF Crash, NoSandbox, IdleTask, NoMonitor, Torn,
       NoDir, LiveInv, RequestInv, AttemptInv, AttemptAt, MonitorInv, LockInv, LockPcs,
       Live, VmLive, StartPcs, TaskRecords, SandboxRecords, DumpRecords, MonitorRecords
  <2> QED BY <2>1, <2>2, <2>3, <2>4, <2>5, <2>6
<1>34. ASSUME RecoverIdle
      PROVE  RequestInv' /\ LockInv' /\ AttemptInv' /\ MonitorInv' /\ LiveInv' /\ OneLiveVm'
  <2>1. OneLiveVm'
    BY <1>2, <1>34 DEF RecoverIdle, Restored, OneLiveVm, Live
  <2>2. RequestInv'
    BY <1>1, <1>2, <1>34 DEF RecoverIdle, Restored, Dumped, NoSandbox, RequestInv,
       StartPcs, SandboxRecords
  <2>3. LockInv'
    BY <1>1, <1>2, <1>3, <1>34 DEF RecoverIdle, Restored, Dumped, NoSandbox, LockInv,
       LockPcs, RequestInv, SandboxRecords
  <2>4. AttemptInv'
    BY SMTT(60), <1>1, <1>2, <1>3, <1>34 DEF RecoverIdle, Restored, Dumped, NoSandbox, AttemptInv,
       AttemptAt, Live, VmLive, StartPcs, RequestInv, LockInv, LockPcs, SandboxRecords
  <2>5. MonitorInv'
    BY <1>1, <1>2, <1>3, <1>34 DEF RecoverIdle, Restored, Dumped, NoSandbox, MonitorInv,
       RequestInv, AttemptInv, AttemptAt, SandboxRecords
  <2>6. LiveInv'
    BY <1>1, <1>2, <1>34 DEF RecoverIdle, Restored, Dumped, NoSandbox, LiveInv, Live,
       VmLive, SandboxRecords
  <2> QED BY <2>1, <2>2, <2>3, <2>4, <2>5, <2>6
<1>35. ASSUME RecoverRunning
      PROVE  RequestInv' /\ LockInv' /\ AttemptInv' /\ MonitorInv' /\ LiveInv' /\ OneLiveVm'
  <2>1. OneLiveVm'
    BY <1>2, <1>35 DEF RecoverRunning, Restored, OneLiveVm, Live
  <2>2. RequestInv'
    BY <1>1, <1>2, <1>35 DEF RecoverRunning, Restored, Dumped, NoSandbox, NoMonitor,
       RequestInv, StartPcs, SandboxRecords, MonitorRecords
  <2>3. LockInv'
    BY <1>1, <1>2, <1>3, <1>35 DEF RecoverRunning, Restored, Dumped, NoSandbox,
       NoMonitor, LockInv, LockPcs, RequestInv, SandboxRecords
  <2>4. AttemptInv'
    BY SMTT(60), <1>1, <1>2, <1>3, <1>35 DEF RecoverRunning, Restored, Dumped, NoSandbox,
       NoMonitor, AttemptInv, AttemptAt, Live, VmLive, StartPcs, RequestInv, LockInv,
       LockPcs, SandboxRecords
  <2>5. MonitorInv'
    BY <1>1, <1>2, <1>3, <1>35, VmsFacts DEF RecoverRunning, Restored, Dumped, NoSandbox,
       NoMonitor, MonitorInv, RequestInv, AttemptInv, AttemptAt, TaskRecords,
       SandboxRecords, DumpRecords, MonitorRecords
  <2>6. LiveInv'
    BY <1>1, <1>2, <1>35 DEF RecoverRunning, Restored, Dumped, NoSandbox, NoMonitor,
       LiveInv, Live, VmLive, SandboxRecords
  <2> QED BY <2>1, <2>2, <2>3, <2>4, <2>5, <2>6
<1>36. ASSUME RecoverKill
      PROVE  RequestInv' /\ LockInv' /\ AttemptInv' /\ MonitorInv' /\ LiveInv' /\ OneLiveVm'
  <2>1. LockInv' /\ MonitorInv'
    BY <1>2, <1>36 DEF RecoverKill, Lost, LockInv, MonitorInv
  <2>2. RequestInv'
    BY <1>1, <1>2, <1>36 DEF RecoverKill, Lost, NoDir, RequestInv, StartPcs, DumpRecords
  <2>3. AttemptInv'
    BY <1>1, <1>2, <1>3, <1>36 DEF RecoverKill, Lost, NoDir, AttemptInv, AttemptAt, Live,
       VmLive, StartPcs, RequestInv, LockInv, LockPcs, DumpRecords
  <2>4. LiveInv'
    BY <1>1, <1>2, <1>36 DEF RecoverKill, Lost, NoDir, LiveInv, Live, VmLive, DumpRecords
  <2>5. OneLiveVm'
    BY <1>1, <1>2, <1>36 DEF RecoverKill, Lost, NoDir, OneLiveVm, Live
  <2> QED BY <2>1, <2>2, <2>3, <2>4, <2>5
<1>37. ASSUME RecoverNothing
      PROVE  RequestInv' /\ LockInv' /\ AttemptInv' /\ MonitorInv' /\ LiveInv' /\ OneLiveVm'
  <2>1. LockInv' /\ MonitorInv' /\ OneLiveVm'
    BY <1>2, <1>37 DEF RecoverNothing, Lost, LockInv, MonitorInv, OneLiveVm, Live
  <2>2. RequestInv'
    BY <1>1, <1>2, <1>37 DEF RecoverNothing, Lost, NoDir, RequestInv, StartPcs,
       DumpRecords
  <2>3. AttemptInv'
    BY <1>1, <1>2, <1>3, <1>37 DEF RecoverNothing, Lost, NoDir, AttemptInv, AttemptAt,
       Live, VmLive, StartPcs, RequestInv, LockInv, LockPcs, DumpRecords
  <2>4. LiveInv'
    BY <1>1, <1>2, <1>37 DEF RecoverNothing, Lost, NoDir, LiveInv, Live, VmLive,
       DumpRecords
  <2> QED BY <2>1, <2>2, <2>3, <2>4
<1>38. TypeOK'
  BY TypeStep DEF LifeInv
<1> QED
  BY <1>4, <1>5, <1>6, <1>7, <1>8, <1>9, <1>10, <1>11, <1>12, <1>13, <1>14, <1>15, <1>16,
     <1>17, <1>18, <1>19, <1>20, <1>21, <1>22, <1>23, <1>24, <1>25, <1>26, <1>27, <1>28,
     <1>29, <1>30, <1>31, <1>32, <1>33, <1>34, <1>35, <1>36, <1>37, <1>38 DEF LifeInv,
     Next, Request, TaskStep, StartStep, StopStep, DeleteStep, MonitorStep, Recover

\* The invariant holds to begin with.
LEMMA LifeInit == Init => LifeInv
<1> SUFFICES ASSUME Init PROVE LifeInv
  OBVIOUS
<1>1. TypeOK
  BY TypeInit
<1>2. /\ sandbox.client = NoVm /\ sandbox.pid = NoVm /\ sandbox.chan = NoVm
      /\ ~sandbox.exit /\ sandbox.status = "None"
      /\ disk.file = "none" /\ disk.pid = NoVm /\ disk.status = "None"
      /\ \A p \in Tasks : task[p].pc = "idle"
      /\ \A v \in Vms : vm[v] = "unborn" /\ monitor[v].pc = "none"
  BY DEF Init, NoSandbox, NoDir, IdleTask, NoMonitor
<1>3. RequestInv
  BY SMTT(60), <1>2 DEF Init, RequestInv, StartPcs
<1>4. LockInv /\ AttemptInv
  BY <1>2 DEF LockInv, LockPcs, AttemptInv, AttemptAt, StartPcs
<1>5. MonitorInv /\ LiveInv /\ OneLiveVm
  BY <1>2, VmsFacts DEF Init, MonitorInv, LiveInv, OneLiveVm, VmLive, Live
<1> QED BY <1>1, <1>3, <1>4, <1>5 DEF LifeInv

\* A sandbox that nobody holds has no start under way, so a VM of it that runs
\* is the one its client is connected to, and this one has not exited.
LEMMA LifeImpliesExitIsFinal == LifeInv => ExitIsFinal
<1> SUFFICES ASSUME LifeInv, sandbox.lock = Free, VmLive,
                    sandbox.exit \/ sandbox.status = "Stopped"
             PROVE  FALSE
  BY DEF ExitIsFinal
<1>1. \A p \in Tasks : task[p].pc \notin {"launched", "connected"}
  BY LifecycleAssumption DEF LifeInv, LockInv, LockPcs
<1>2. sandbox.client = sandbox.pid /\ sandbox.client # NoVm
  BY <1>1, VmsFacts DEF LifeInv, LiveInv, VmLive
<1>3. vm[sandbox.pid] = "exited"
  BY <1>2 DEF LifeInv, LiveInv
<1> QED BY <1>3 DEF VmLive, Live

\* The inductive invariant holds in every behaviour of the life cycle.
THEOREM LifeCorrect == Spec => []LifeInv
<1>1. LifeInv /\ [Next]_vars => LifeInv'
  <2> SUFFICES ASSUME LifeInv, [Next]_vars PROVE LifeInv'
    OBVIOUS
  <2>1. CASE Next
    BY <2>1, LifeStep
  <2>2. CASE UNCHANGED vars
    <3>1. TypeOK' /\ RequestInv'
      BY <2>2 DEF vars, LifeInv, TypeOK, RequestInv
    <3>2. LockInv' /\ MonitorInv'
      BY <2>2 DEF vars, LifeInv, LockInv, MonitorInv
    <3>3. AttemptInv'
      BY <2>2 DEF vars, LifeInv, AttemptInv, AttemptAt, VmLive, Live
    <3>4. LiveInv' /\ OneLiveVm'
      BY <2>2 DEF vars, LifeInv, LiveInv, OneLiveVm, VmLive, Live
    <3> QED BY <3>1, <3>2, <3>3, <3>4 DEF LifeInv
  <2> QED BY <2>1, <2>2
<1> QED BY LifeInit, <1>1, PTL DEF Spec

\* The sandbox, its requests, its VM processes and its files have their types.
THEOREM TypeCorrect == Spec => []TypeOK
<1>1. LifeInv => TypeOK
  BY DEF LifeInv
<1> QED BY LifeCorrect, <1>1, PTL

\* However many restores start() tries before it boots, with requests, exits,
\* time-outs of the wait for a killed VM and crashes of the sandboxer in any
\* order, at most one VM of the sandbox runs that was not told to end.
THEOREM OneVm == Spec => []OneLiveVm
<1>1. LifeInv => OneLiveVm
  BY DEF LifeInv
<1> QED BY LifeCorrect, <1>1, PTL

\* Likewise, a sandbox whose exit_signal was fired or whose status is Stopped
\* has no running VM whenever no request holds it.
THEOREM ExitFinal == Spec => []ExitIsFinal
BY LifeCorrect, LifeImpliesExitIsFinal, PTL
=============================================================================
