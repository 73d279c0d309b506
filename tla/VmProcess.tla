---------------------------- MODULE VmProcess ----------------------------
(* The processes of one virtual machine and the handles the sandboxer      *)
(* keeps on them: VM::start, VM::stop, VM::recover of the three            *)
(* hypervisors (qemu, stratovirt, cloud_hypervisor) and Snapshottable of   *)
(* Cloud Hypervisor.  The VM lives behind the sandbox's mutex, so one call *)
(* runs at a time; the processes may die under it at any step.             *)
(*                                                                         *)
(* A process is named by the number of the launch that started it, so a    *)
(* handle that survives a failed restore and names the older process can   *)
(* be told from a fresh one.                                               *)
EXTENDS Naturals, FiniteSets

CONSTANTS
    Disks,          \* the disk images of the continuation that is restored
    MaxLaunch,      \* how often VMM processes are launched
    MaxVmFaults     \* how many environment failures happen

VARIABLES
    hypervisor,     \* "clh", "qemu" or "strato"
    vmms,           \* the VMM processes alive, by launch
    fsds,           \* the virtiofsd processes alive, by launch
    dying,          \* the VMM processes that were killed or told to quit
    paused,         \* the VMM processes whose guest is paused
    handles,        \* what the VM struct holds: pid, fsd pids, client, wait_chan
    disks,          \* where each disk image is: "template" or "sandbox"
    launch,         \* the number of launches so far
    booted,         \* whether start was called; a restore may precede it
    call,           \* the call in progress
    outcome,        \* how the last start, restore, stop or snapshot returned
    stuck,          \* whether a resume was refused since the VM was started
    vmFaults        \* the environment failures so far

vmVars == <<hypervisor, vmms, fsds, dying, paused, handles, disks, launch,
            booted, call, outcome, stuck, vmFaults>>

Kinds == {"clh", "qemu", "strato"}
Idle == [op |-> "idle", pc |-> "idle", force |-> FALSE]
At(op, pc) == call.op = op /\ call.pc = pc
Goto(pc) == call' = [call EXCEPT !.pc = pc]
Return(how) == call' = Idle /\ outcome' = [op |-> call.op, ok |-> how, force |-> call.force]
\* The environment refuses a step it could have granted.
Fault == vmFaults < MaxVmFaults /\ vmFaults' = vmFaults + 1
NoFault == UNCHANGED vmFaults
Alive(p) == p \in vmms

(***************************************************************************)
(* start                                                                   *)
(***************************************************************************)
\* VM::start: a fresh VM, or the boot that replaces a restore that failed.
Start ==
    /\ call = Idle
    /\ launch < MaxLaunch
    /\ ~booted
    /\ \/ outcome.op = "none"
       \/ outcome.op = "restore" /\ ~outcome.ok
       \/ outcome.op = "stop" /\ outcome.force
    /\ booted' = TRUE
    /\ call' = [op |-> "start", pc |-> "fsd", force |-> FALSE]
    /\ launch' = launch + 1
    /\ UNCHANGED <<hypervisor, vmms, fsds, dying, paused, handles, disks,
                   outcome, stuck, vmFaults>>

\* start_virtiofsd; StratoVirt keeps the pid in the daemon, the others push
\* it to affiliated_pids.
StartVirtiofsd ==
    /\ At("start", "fsd")
    /\ \/ /\ fsds' = fsds \cup {launch}
          /\ handles' = [handles EXCEPT !.fsds =
                 IF hypervisor = "strato" THEN {launch} ELSE @ \cup {launch}]
          /\ Goto("spawn")
          /\ NoFault
          /\ UNCHANGED outcome
       \/ Fault /\ Return(FALSE) /\ UNCHANGED <<fsds, handles>>
    /\ UNCHANGED <<hypervisor, booted, vmms, dying, paused, disks, launch, stuck>>

\* cmd.spawn of Cloud Hypervisor, launch of the two others, which daemonize:
\* only Cloud Hypervisor's pid is known from the spawn.
SpawnVmm(op, failed) ==
    /\ At(op, "spawn")
    /\ \/ /\ vmms' = vmms \cup {launch}
          /\ handles' = [handles EXCEPT !.chan = launch, !.exited = FALSE,
                                        !.pid = IF hypervisor = "clh" THEN launch ELSE @]
          /\ Goto("connect")
          /\ NoFault
          /\ UNCHANGED outcome
       \/ Fault /\ failed /\ UNCHANGED <<vmms, handles>>
    /\ UNCHANGED <<hypervisor, booted, fsds, dying, paused, disks, launch, stuck>>

\* create_client, retried for ten seconds.  Cloud Hypervisor stops the VM
\* when it cannot connect, the two others return the error at once.
Connect(op, next) ==
    /\ At(op, "connect")
    /\ \/ /\ Alive(launch)
          /\ handles' = [handles EXCEPT !.client = launch]
          /\ NoFault
          /\ next
       \/ /\ IF Alive(launch) THEN Fault ELSE NoFault
          /\ IF hypervisor = "clh"
             THEN call' = [call EXCEPT !.pc = "kill", !.force = TRUE] /\ UNCHANGED outcome
             ELSE Return(FALSE)
          /\ UNCHANGED handles
    /\ UNCHANGED <<hypervisor, booted, vmms, fsds, dying, paused, disks, launch, stuck>>

Connected ==
    IF hypervisor = "clh" THEN Return(TRUE) ELSE Goto("detect") /\ UNCHANGED outcome

\* detect_pid reads the pid file and looks the process up.
DetectPid ==
    /\ At("start", "detect")
    /\ \/ /\ Alive(launch)
          /\ handles' = [handles EXCEPT !.pid = launch]
          /\ NoFault
          /\ Return(TRUE)
       \/ /\ IF Alive(launch) THEN Fault ELSE NoFault
          /\ Return(FALSE)
          /\ UNCHANGED handles
    /\ UNCHANGED <<hypervisor, booted, vmms, fsds, dying, paused, disks, launch, stuck>>

(***************************************************************************)
(* stop                                                                    *)
(***************************************************************************)
\* VM::stop: Cloud Hypervisor signals the process, StratoVirt first kills
\* its daemon, QEMU and StratoVirt ask the VMM to quit.
Stop(force) ==
    /\ call = Idle
    /\ launch > 0
    /\ call' = [op |-> "stop", force |-> force,
                pc |-> CASE hypervisor = "clh" -> "kill"
                         [] hypervisor = "strato" -> "daemon"
                         [] OTHER -> "quit"]
    /\ UNCHANGED <<hypervisor, booted, vmms, fsds, dying, paused, handles, disks, launch,
                   outcome, stuck, vmFaults>>

\* kill(vmm_pid, SIGKILL or SIGTERM) of Cloud Hypervisor; a process that is
\* gone is not waited for, and without a pid there is nothing to signal.
KillVmm ==
    /\ call.pc = "kill"
    /\ dying' = IF Alive(handles.pid) THEN dying \cup {handles.pid} ELSE dying
    /\ Goto(IF Alive(handles.pid) THEN "wait" ELSE "killfsd")
    /\ UNCHANGED <<hypervisor, booted, vmms, fsds, paused, handles, disks, launch, outcome,
                   stuck, vmFaults>>

\* VirtiofsDaemon::stop; its error ends a stop that is not forced.
StopDaemon ==
    /\ At("stop", "daemon")
    /\ fsds' = fsds \ handles.fsds
    /\ IF handles.fsds \subseteq fsds \/ call.force
       THEN Goto("quit") /\ UNCHANGED outcome
       ELSE Return(FALSE)
    /\ UNCHANGED <<hypervisor, booted, vmms, dying, paused, handles, disks, launch, stuck, vmFaults>>

\* client.execute(quit): answered by the process the client is connected to,
\* unless the connection fails.
Quit ==
    /\ At("stop", "quit")
    /\ \/ /\ Alive(handles.client) /\ NoFault
          /\ dying' = dying \cup {handles.client}
          /\ Goto("wait")
          /\ UNCHANGED outcome
       \/ /\ IF Alive(handles.client) THEN Fault ELSE NoFault
          /\ IF call.force THEN Goto("wait") /\ UNCHANGED outcome ELSE Return(FALSE)
          /\ UNCHANGED dying
    /\ UNCHANGED <<hypervisor, booted, vmms, fsds, paused, handles, disks, launch, stuck>>

\* The ten seconds pass: for certain when nobody told the process to go.
TimesOut == IF handles.chan \in dying THEN Fault ELSE NoFault

\* wait_stop of Cloud Hypervisor, whose error ends the stop.
WaitStopClh ==
    /\ call.pc = "wait" /\ hypervisor = "clh"
    /\ \/ handles.exited /\ Goto("killfsd") /\ NoFault /\ UNCHANGED <<outcome>>
       \/ /\ ~handles.exited
          /\ TimesOut
          /\ IF call.op = "restore" THEN Goto("rollback") /\ UNCHANGED outcome
             ELSE Return(FALSE)
    /\ UNCHANGED <<hypervisor, booted, vmms, fsds, dying, paused, handles, disks, launch, stuck>>


\* wait_stop of QEMU and StratoVirt; a forced stop kills the pid it knows
\* and returns Ok in any case.
WaitStopQmp ==
    /\ call.pc = "wait" /\ hypervisor # "clh"
    /\ \/ /\ handles.chan = 0 \/ handles.exited
          /\ Return(TRUE)
          /\ NoFault
          /\ UNCHANGED dying
       \/ /\ handles.chan # 0 /\ ~handles.exited
          /\ TimesOut
          /\ dying' = IF call.force /\ Alive(handles.pid) THEN dying \cup {handles.pid}
                      ELSE dying
          /\ Return(call.force)
    /\ UNCHANGED <<hypervisor, booted, vmms, fsds, paused, handles, disks, launch, stuck>>

\* The affiliated processes of Cloud Hypervisor; the call that stopped the
\* VM goes on: start and the launch of a restore return their error.
KillVirtiofsd ==
    /\ call.pc = "killfsd"
    /\ fsds' = fsds \ handles.fsds
    /\ IF call.op = "restore" THEN Goto("rollback") /\ UNCHANGED outcome
       ELSE Return(call.op = "stop")
    /\ UNCHANGED <<hypervisor, booted, vmms, dying, paused, handles, disks, launch, stuck, vmFaults>>

(***************************************************************************)
(* snapshot and restore of Cloud Hypervisor                                *)
(***************************************************************************)
\* A request on the API socket: it needs the client's process.
Api == Alive(handles.client)
ApiFails == IF Api THEN Fault ELSE NoFault

\* Snapshottable::snapshot up to vm.pause.
Snapshot ==
    /\ call = Idle /\ hypervisor = "clh" /\ outcome.ok /\ handles.client # 0
    /\ outcome.op \in {"start", "restore", "snapshot"}
    /\ \/ /\ Api /\ NoFault
          /\ paused' = paused \cup {handles.client}
          /\ call' = [op |-> "snapshot", pc |-> "copy", force |-> FALSE]
          /\ UNCHANGED outcome
       \/ /\ ApiFails
          /\ outcome' = [op |-> "snapshot", ok |-> FALSE, force |-> FALSE]
          /\ UNCHANGED <<paused, call>>
    /\ UNCHANGED <<hypervisor, booted, vmms, fsds, dying, handles, disks, launch, stuck>>

\* copy_disk_images, then vm.snapshot; either may fail, and both ways lead
\* to vm.resume.
CaptureState ==
    /\ At("snapshot", "copy")
    /\ \/ Api /\ Goto("resume") /\ NoFault
       \/ ApiFails /\ Goto("resumeErr")
    /\ UNCHANGED <<hypervisor, booted, vmms, fsds, dying, paused, handles, disks, launch,
                   outcome, stuck>>

\* vm.resume, whose error is logged only.
ResumeAfterSnapshot ==
    /\ call.op = "snapshot" /\ call.pc \in {"resume", "resumeErr"}
    /\ \/ Api /\ NoFault /\ paused' = paused \ {handles.client} /\ UNCHANGED stuck
       \/ ApiFails /\ UNCHANGED paused /\ stuck' = TRUE
    /\ Return(call.pc = "resume")
    /\ UNCHANGED <<hypervisor, booted, vmms, fsds, dying, handles, disks, launch>>

\* Snapshottable::restore of a continuation.
Restore ==
    /\ call = Idle /\ hypervisor = "clh" /\ outcome.op = "none" /\ ~booted
    /\ launch < MaxLaunch
    /\ call' = [op |-> "restore", pc |-> "move", force |-> FALSE]
    /\ UNCHANGED <<hypervisor, booted, vmms, fsds, dying, paused, handles, disks, launch,
                   outcome, stuck, vmFaults>>

\* prepare_restore_block_artifacts: the images are renamed one by one into
\* the sandbox directory; a refused rename renames the others back.
MoveDisk ==
    /\ At("restore", "move")
    /\ \/ /\ \E d \in Disks :
               /\ disks[d] = "template"
               /\ disks' = [disks EXCEPT ![d] = "sandbox"]
          /\ NoFault /\ UNCHANGED <<call, outcome>>
       \/ /\ \E d \in Disks : disks[d] = "template"
          /\ Fault
          /\ disks' = [d \in Disks |-> "template"]
          /\ Return(FALSE)
       \/ /\ \A d \in Disks : disks[d] = "sandbox"
          /\ Goto("prepare") /\ NoFault
          /\ UNCHANGED <<disks, outcome>>
    /\ UNCHANGED <<hypervisor, booted, vmms, fsds, dying, paused, handles, launch, stuck>>

\* Mutant: an error returns without the rollback.
PrepareOrReturn ==
    /\ At("restore", "prepare")
    /\ \/ Goto("spawn") /\ launch' = launch + 1 /\ NoFault /\ UNCHANGED outcome
       \/ Fault /\ Return(FALSE) /\ UNCHANGED launch
    /\ UNCHANGED <<hypervisor, booted, vmms, fsds, dying, paused, handles, disks, stuck>>

\* The snapshot's config is validated and patched, its memory linked, and
\* launch_for_restore begins; restore_try! rolls the moves back.
PrepareRestore ==
    /\ At("restore", "prepare")
    /\ \/ Goto("spawn") /\ launch' = launch + 1 /\ NoFault
       \/ Fault /\ Goto("rollback") /\ UNCHANGED launch
    /\ UNCHANGED <<hypervisor, booted, vmms, fsds, dying, paused, handles, disks, outcome, stuck>>

\* vm.restore, vm.resume and wait_agent_ready; restore_try_with_kill! stops
\* the process before the rollback.
LoadSnapshot ==
    /\ At("restore", "load")
    /\ \/ Api /\ NoFault /\ Return(TRUE)
       \/ /\ ApiFails
          /\ call' = [call EXCEPT !.pc = "kill", !.force = TRUE]
          /\ UNCHANGED outcome
    /\ UNCHANGED <<hypervisor, booted, vmms, fsds, dying, paused, handles, disks, launch, stuck>>

\* rollback_pending_moves stops at the first rename that is refused.
RollbackMoves ==
    /\ At("restore", "rollback")
    /\ \/ disks' = [d \in Disks |-> "template"] /\ NoFault
       \/ /\ Fault
          /\ \E done \in (SUBSET Disks) \ {Disks} :
               disks' = [d \in Disks |-> IF d \in done THEN "template" ELSE disks[d]]
    /\ Return(FALSE)
    /\ UNCHANGED <<hypervisor, booted, vmms, fsds, dying, paused, handles, launch, stuck>>

(***************************************************************************)
(* The environment                                                         *)
(***************************************************************************)
\* The sandboxer restarts and recovers the VM: the handles that are not
\* serialized are made again for the pid on disk.  Recovery fails when the
\* process is gone, and the caller stops the VM.
Recover ==
    /\ call = Idle /\ hypervisor = "clh" /\ outcome.ok
    /\ outcome.op \in {"start", "restore"}
    /\ \/ /\ Alive(handles.pid) /\ NoFault
          /\ handles' = [handles EXCEPT !.client = handles.pid, !.chan = handles.pid,
                                        !.exited = FALSE]
          /\ UNCHANGED call
       \/ /\ IF Alive(handles.pid) THEN Fault ELSE NoFault
          /\ handles' = [handles EXCEPT !.client = 0, !.chan = 0, !.exited = FALSE]
          /\ call' = [op |-> "stop", pc |-> "kill", force |-> TRUE]
    /\ UNCHANGED <<hypervisor, booted, vmms, fsds, dying, paused, disks, launch, outcome, stuck>>

\* A VMM process ends, because it was told to or by itself.
VmmExits(p) ==
    /\ Alive(p)
    /\ IF p \in dying THEN NoFault ELSE Fault
    /\ vmms' = vmms \ {p}
    /\ dying' = dying \ {p}
    /\ paused' = paused \ {p}
    /\ UNCHANGED <<hypervisor, booted, fsds, handles, disks, launch, call, outcome, stuck>>

\* A virtiofsd ends once its VMM's connection closed.
VirtiofsdExits(p) ==
    /\ p \in fsds /\ ~Alive(p) /\ p <= handles.chan
    /\ fsds' = fsds \ {p}
    /\ UNCHANGED <<hypervisor, booted, vmms, dying, paused, handles, disks, launch, call,
                   outcome, stuck, vmFaults>>

\* spawn_wait and wait_pid: the exit is sent on the wait channel.  The waiter
\* of QEMU and StratoVirt also sends it when it finds no pid.
ExitSent ==
    /\ handles.chan # 0 /\ ~handles.exited
    /\ IF Alive(handles.chan) THEN hypervisor # "clh" /\ Fault ELSE NoFault
    /\ handles' = [handles EXCEPT !.exited = TRUE]
    /\ UNCHANGED <<hypervisor, booted, vmms, fsds, dying, paused, disks, launch, call,
                   outcome, stuck>>

VmInit ==
    /\ hypervisor \in Kinds
    /\ vmms = {} /\ fsds = {} /\ dying = {} /\ paused = {}
    /\ handles = [pid |-> 0, fsds |-> {}, client |-> 0, chan |-> 0, exited |-> FALSE]
    /\ disks = [d \in Disks |-> "template"]
    /\ launch = 0
    /\ booted = FALSE
    /\ call = Idle
    /\ outcome = [op |-> "none", ok |-> FALSE, force |-> FALSE]
    /\ stuck = FALSE
    /\ vmFaults = 0

StartCall ==
    \/ Start
    \/ StartVirtiofsd
    \/ SpawnVmm("start", Return(FALSE))
    \/ Connect("start", Connected)
    \/ DetectPid

StopCall ==
    \/ \E force \in BOOLEAN : Stop(force)
    \/ KillVmm
    \/ StopDaemon
    \/ Quit
    \/ WaitStopClh
    \/ WaitStopQmp
    \/ KillVirtiofsd

SnapshotCall == Snapshot \/ CaptureState \/ ResumeAfterSnapshot

RestoreCall ==
    \/ Restore
    \/ MoveDisk
    \/ PrepareRestore
    \/ SpawnVmm("restore", Goto("rollback") /\ UNCHANGED outcome)
    \/ Connect("restore", Goto("load") /\ UNCHANGED outcome)
    \/ LoadSnapshot
    \/ RollbackMoves

VmNext ==
    \/ StartCall
    \/ StopCall
    \/ SnapshotCall
    \/ RestoreCall
    \/ Recover
    \/ \E p \in 1..MaxLaunch : VmmExits(p) \/ VirtiofsdExits(p)
    \/ ExitSent

VmSpec == VmInit /\ [][VmNext]_vmVars

(***************************************************************************)
(* Properties                                                              *)
(***************************************************************************)
\* The handles and processes have their types.
VmTypeOK ==
    /\ hypervisor \in Kinds
    /\ dying \subseteq vmms /\ vmms \subseteq 1..launch /\ launch \in 0..MaxLaunch
    /\ fsds \subseteq 1..launch /\ paused \subseteq vmms
    /\ handles \in [pid : 0..launch, fsds : SUBSET (1..launch), client : 0..launch,
                    chan : 0..launch, exited : BOOLEAN]
    /\ disks \in [Disks -> {"template", "sandbox"}]

Returned(op, ok) == call = Idle /\ outcome.op = op /\ outcome.ok = ok

\* Once start or restore returned Ok, the pid, the client and the wait
\* channel the VM holds name the process of that launch, also when an
\* earlier restore failed and left handles of its own behind.
HandlesAgree ==
    Returned("start", TRUE) \/ Returned("restore", TRUE) =>
        handles.pid = launch /\ handles.client = launch /\ handles.chan = launch

\* A forced stop that returned Ok leaves no VMM process running that was
\* not killed or told to quit, also when the quit command failed, provided
\* the start had returned its pid and the waiter of QEMU or StratoVirt did
\* not take it for gone while it ran.
ForcedStopKills ==
    /\ Returned("stop", TRUE) /\ outcome.force /\ handles.pid = launch
    /\ handles.exited => ~Alive(handles.chan)
    => vmms \subseteq dying

\* Cloud Hypervisor: no failure of start or restore leaves a VMM process
\* running unasked, and a forced stop leaves no virtiofsd either.
ClhCleansUp ==
    hypervisor = "clh" =>
        /\ Returned("start", FALSE) \/ Returned("restore", FALSE) => vmms \subseteq dying
        /\ Returned("stop", TRUE) => fsds = {}

\* The disk images move as one: a restore that failed leaves them all in the
\* template, unless a rename back was refused; the VM of a restore that
\* succeeded has them all.
DisksMoveTogether ==
    /\ Returned("restore", TRUE) => \A d \in Disks : disks[d] = "sandbox"
    /\ Returned("restore", FALSE) /\ vmFaults <= 1 => \A d \in Disks : disks[d] = "template"

\* "Always resume": a VM is left paused by a snapshot only when vm.resume
\* itself was refused.
SnapshotResumes == call = Idle /\ ~stuck => paused = {}
==========================================================================
