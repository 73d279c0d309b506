---------------------------- MODULE ShimServer ----------------------------
(* The containerd shim of a pod (src/shim): the sandbox service it forwards *)
(* to the sandboxer, the task service it forwards to the task server of the *)
(* pod, the record it keeps of containers and exec processes, the vsock     *)
(* ports of their stdio, and the delete command containerd runs when a shim *)
(* died.                                                                    *)
(*                                                                          *)
(* A key <<t, Main>> stands for container t, <<t, e>> for its process e.    *)
(* Calls of different keys interleave at every await; containerd does not   *)
(* start a second call for a key while one is running.                      *)
EXTENDS Naturals, FiniteSets

CONSTANTS
    Tasks,          \* container ids
    Execs,          \* exec ids
    Main,           \* the exec id of a container's first process: empty
    MaxPort,        \* the last vsock port find_available_port may return
    MaxStreams,     \* the most stdio pipes a process has
    MaxShimFaults   \* how many calls out of the shim fail

VARIABLES
    shim,           \* the shim process: "up", "down", "deleting", "gone"
    life,           \* how far the sandbox service has come
    box,            \* the sandbox as the sandboxer holds it
    files,          \* the sandbox's directory and how often shm is mounted
    client,         \* whether task_cli is set
    extension,      \* data.sandbox.extensions["tasks"]: a set of keys
    sent,           \* the tasks of the last Update the sandboxer accepted
    known,          \* SandboxData.containers: the keys with their stdio ports
    portmap,        \* PORTMAP: the ports handed out
    guest,          \* the keys the task server of the pod holds
    lock,           \* the key whose start holds the data mutex, or NoKey
    rpc,            \* the task calls in progress
    shimFaults      \* the calls that failed so far

shimVars == <<shim, life, box, files, client, extension, sent, known, portmap,
              guest, lock, rpc, shimFaults>>

Keys == Tasks \X (Execs \cup {Main})
NoKey == <<>>
KeysOf(t) == {k \in Keys : k[1] = t}
Ports == 1..MaxPort

Fails == shimFaults < MaxShimFaults /\ shimFaults' = shimFaults + 1
Works == UNCHANGED shimFaults

Calling(k) == k \in DOMAIN rpc
Begin(k, op, pc, io) ==
    rpc' = [c \in DOMAIN rpc \cup {k} |->
              IF c = k THEN [op |-> op, pc |-> pc, io |-> io, tasks |-> {}] ELSE rpc[c]]
At(k, op, pc) == Calling(k) /\ rpc[k].op = op /\ rpc[k].pc = pc
Goto(k, pc) == rpc' = [rpc EXCEPT ![k].pc = pc]
Return(k) == rpc' = [c \in DOMAIN rpc \ {k} |-> rpc[c]]

\* get_container_data and get_process_data find the key.
Remember(k, io) == known' = [c \in DOMAIN known \cup {k} |-> IF c = k THEN io ELSE known[c]]
\* delete_container_data drops the container with its processes,
\* delete_process_data one process.
Dropped(k) == IF k[2] = Main THEN KeysOf(k[1]) ELSE {k}
Forgotten(k) == [c \in DOMAIN known \ Dropped(k) |-> known[c]]

(***************************************************************************)
(* The sandbox service                                                     *)
(***************************************************************************)
\* setup_sandbox_files: the directory and its files, then the shm mount.
SetupSandboxFiles ==
    /\ shim = "up" /\ life = "new"
    /\ \/ files' = [dir |-> TRUE, shm |-> files.shm + 1] /\ life' = "create" /\ Works
       \/ files' = [files EXCEPT !.dir = TRUE] /\ life' = "failed" /\ Fails
    /\ UNCHANGED <<shim, box, client, extension, sent, known, portmap, guest, lock, rpc>>

\* create_sandbox after its files: SandboxData starts empty.
CreateSandbox ==
    /\ shim = "up" /\ life = "create"
    /\ extension' = {}
    /\ known' = [k \in {} |-> {}]
    /\ \/ box' = "created" /\ life' = "created" /\ Works
       \/ box' \in {"none", "created"} /\ life' = "failed" /\ Fails
    /\ UNCHANGED <<shim, files, client, sent, portmap, guest, lock, rpc>>

\* start_sandbox: Start, then Status for the task address.
StartSandbox ==
    /\ shim = "up" /\ life = "created"
    /\ \/ box' = "running" /\ life' = "connect" /\ Works
       \/ box' \in {"created", "running"} /\ life' = "failed" /\ Fails
    /\ UNCHANGED <<shim, files, client, extension, sent, known, portmap, guest, lock, rpc>>

\* init_task_client, whose connection is given two seconds.
InitTaskClient ==
    /\ shim = "up" /\ life = "connect"
    /\ \/ client' = TRUE /\ life' = "ready" /\ Works
       \/ UNCHANGED client /\ life' = "failed" /\ Fails
    /\ UNCHANGED <<shim, box, files, extension, sent, known, portmap, guest, lock, rpc>>

\* The sandboxer stops and deletes what it has; a stopped pod has no tasks.
Stopped == IF box \in {"created", "running"} THEN "stopped" ELSE box

\* stop_sandbox
StopSandbox ==
    /\ shim = "up" /\ life \in {"ready", "failed"}
    /\ \/ box' = Stopped /\ life' = "stopped" /\ guest' = {} /\ Works
       \/ UNCHANGED <<box, life, guest>> /\ Fails
    /\ UNCHANGED <<shim, files, client, extension, sent, known, portmap, lock, rpc>>

\* cleanup_sandbox_files: the directory, then one unmount of shm.
CleanupSandboxFiles ==
    files' = [dir |-> FALSE, shm |-> IF files.shm = 0 THEN 0 ELSE files.shm - 1]

\* shutdown_sandbox: a refusal of the sandboxer is logged and the files are
\* removed all the same; then exit.signal().
ShutdownSandbox(next) ==
    /\ \/ box' = "none" /\ guest' = {} /\ Works
       \/ UNCHANGED <<box, guest>> /\ Fails
    /\ CleanupSandboxFiles
    /\ shim' = next
    /\ client' = FALSE
    /\ rpc' = [k \in {} |-> {}] /\ lock' = NoKey
    /\ known' = [k \in {} |-> {}] /\ portmap' = {} /\ extension' = {}

Shutdown ==
    /\ shim = "up" /\ life \in {"stopped", "failed"}
    /\ ShutdownSandbox("gone")
    /\ UNCHANGED <<life, sent>>

\* The shim process dies: what it kept in memory is lost.
ShimDies ==
    /\ shim = "up" /\ life # "new"
    /\ shim' = "down"
    /\ client' = FALSE
    /\ rpc' = [k \in {} |-> {}] /\ lock' = NoKey
    /\ known' = [k \in {} |-> {}] /\ portmap' = {} /\ extension' = {}
    /\ UNCHANGED <<life, box, files, sent, guest, shimFaults>>

\* delete_shim, in a process of its own: stop, whose failure is logged ...
DeleteShimStop ==
    /\ shim = "down"
    /\ shim' = "deleting"
    /\ \/ box' = Stopped /\ guest' = {} /\ Works
       \/ UNCHANGED <<box, guest>> /\ Fails
    /\ UNCHANGED <<life, files, client, extension, sent, known, portmap, lock, rpc>>

\* ... then shutdown.
DeleteShimShutdown ==
    /\ shim = "deleting"
    /\ ShutdownSandbox("gone")
    /\ UNCHANGED <<life, sent>>

(***************************************************************************)
(* The vsock ports of stdio                                                *)
(***************************************************************************)
\* Mutant: the ports handed out are those of known processes only.
AllocatedUnknown(n) ==
    LET free == Ports \ UNION {known[k] : k \in DOMAIN known} IN
    {p \in free : Cardinality({q \in free : q <= p}) <= n}

\* find_available_port, n times: the lowest ports that are free.  When they
\* run out the call fails and keeps the ones it was given.
Allocated(n) ==
    LET free == Ports \ portmap IN
    {p \in free : Cardinality({q \in free : q <= p}) <= n}

\* cleanup_connection calls remove_port, whose iterator over the ports is
\* built and never run: PORTMAP stays as it is.
CleanupConnection(ports) == UNCHANGED portmap

(***************************************************************************)
(* The task service                                                        *)
(***************************************************************************)
Serving == shim = "up" /\ client /\ life = "ready"

\* T::new of create and exec.
NewIo(k, op) ==
    \E n \in 1..MaxStreams :
       LET io == Allocated(n) IN
       /\ portmap' = portmap \cup io
       /\ IF Cardinality(io) = n THEN Begin(k, op, "get", io) ELSE UNCHANGED rpc

\* containerd does not use an id again while a call for it is running.
Create(t) ==
    LET k == <<t, Main>> IN
    /\ Serving /\ k \notin DOMAIN known \cup guest
    /\ \A c \in KeysOf(t) : ~Calling(c)
    /\ NewIo(k, "create")
    /\ UNCHANGED <<shim, life, box, files, client, extension, sent, known, guest, lock, shimFaults>>

Exec(t, e) ==
    LET k == <<t, e>> IN
    /\ Serving /\ ~Calling(k) /\ k \notin DOMAIN known \cup guest
    /\ <<t, Main>> \in guest
    /\ NewIo(k, "exec")
    /\ UNCHANGED <<shim, life, box, files, client, extension, sent, known, guest, lock, shimFaults>>

\* get_tasks_extension, under the data mutex.
GetTasksExtension(k) ==
    /\ \E op \in {"create", "exec", "delete"} : At(k, op, "get")
    /\ lock = NoKey
    /\ rpc' = [rpc EXCEPT ![k].tasks = extension, ![k].pc = "update"]
    /\ UNCHANGED <<shim, life, box, files, client, extension, sent, known,
                   portmap, guest, lock, shimFaults>>

\* What prepare_container, prepare_exec and purge make of the tasks they got:
\* prepare_exec pushes the process on the task with its id, if there is one.
Edited(k) ==
    LET tasks == rpc[k].tasks IN
    CASE rpc[k].op = "create" -> tasks \cup {k}
      [] rpc[k].op = "exec"   -> IF <<k[1], Main>> \in tasks THEN tasks \cup {k} ELSE tasks
      [] rpc[k].op = "delete" -> tasks \ Dropped(k)

\* update_tasks_extension: the tasks go into a clone of the sandbox, which is
\* sent; the sandbox in SandboxData keeps the ones it had.
UpdateTasksExtension(k) ==
    /\ \E op \in {"create", "exec", "delete"} : At(k, op, "update")
    /\ lock = NoKey
    /\ \/ sent' = Edited(k) /\ Goto(k, "record") /\ Works
       \/ sent' \in {sent, Edited(k)} /\ Return(k) /\ Fails
    /\ UNCHANGED <<shim, life, box, files, client, extension, known, portmap, guest, lock>>

\* The end of prepare_container: add_container_data.
RecordContainer(k) ==
    /\ At(k, "create", "record") /\ lock = NoKey
    /\ Remember(k, rpc[k].io)
    /\ Goto(k, "call")
    /\ UNCHANGED <<shim, life, box, files, client, extension, sent, portmap, guest, lock, shimFaults>>

\* The end of prepare_exec: add_process_data, if the container is known.
RecordProcess(k) ==
    /\ At(k, "exec", "record") /\ lock = NoKey
    /\ IF <<k[1], Main>> \in DOMAIN known
         THEN Remember(k, rpc[k].io) /\ Goto(k, "call")
         ELSE Return(k) /\ UNCHANGED known
    /\ UNCHANGED <<shim, life, box, files, client, extension, sent, portmap, guest, lock, shimFaults>>


\* TaskHandler::create; the answer may be lost after the guest created it.
CallCreate(k) ==
    /\ At(k, "create", "call")
    /\ \/ guest' = guest \cup {k} /\ Goto(k, "copy") /\ Works
       \/ guest' \in {guest, guest \cup {k}} /\ Return(k) /\ Fails
    /\ UNCHANGED <<shim, life, box, files, client, extension, sent, known, portmap, lock>>

\* TaskHandler::exec; the guest refuses it when the container is gone.
CallExec(k) ==
    /\ At(k, "exec", "call")
    /\ Return(k)
    /\ \/ /\ guest' = IF <<k[1], Main>> \in guest THEN guest \cup {k} ELSE guest
          /\ Works
       \/ UNCHANGED guest /\ Fails
    /\ UNCHANGED <<shim, life, box, files, client, extension, sent, known, portmap, lock>>

\* VSockTransport::copy at the end of create.
CopyIo(k) ==
    /\ At(k, "create", "copy")
    /\ Return(k)
    /\ Works \/ Fails
    /\ UNCHANGED <<shim, life, box, files, client, extension, sent, known, portmap, guest, lock>>

\* start of an exec process: TaskHandler::start ...
StartProcess(k) ==
    /\ Serving /\ ~Calling(k) /\ k \in guest /\ k[2] # Main
    /\ \/ Begin(k, "start", "lock", {}) /\ Works
       \/ UNCHANGED rpc /\ Fails
    /\ UNCHANGED <<shim, life, box, files, client, extension, sent, known, portmap, guest, lock>>

\* ... then the data mutex, which it keeps while the streams are connected.
LockForCopy(k) ==
    /\ At(k, "start", "lock") /\ lock = NoKey
    /\ IF k \in DOMAIN known
         THEN lock' = k /\ Goto(k, "copy")
         ELSE UNCHANGED lock /\ Return(k)
    /\ UNCHANGED <<shim, life, box, files, client, extension, sent, known, portmap, guest, shimFaults>>

CopyLocked(k) ==
    /\ At(k, "start", "copy")
    /\ lock' = NoKey
    /\ Return(k)
    /\ Works \/ Fails
    /\ UNCHANGED <<shim, life, box, files, client, extension, sent, known, portmap, guest>>

\* delete: TaskHandler::delete comes first, and nothing follows its failure.
Delete(k) ==
    /\ Serving /\ ~Calling(k) /\ k \in guest
    /\ \/ guest' = guest \ Dropped(k) /\ Begin(k, "delete", "forget", {}) /\ Works
       \/ UNCHANGED <<guest, rpc>> /\ Fails
    /\ UNCHANGED <<shim, life, box, files, client, extension, sent, known, portmap, lock>>

\* The data mutex: release the ports and forget the key, if the container is
\* known; purge follows.
ForgetIo(k) ==
    /\ At(k, "delete", "forget") /\ lock = NoKey
    /\ IF <<k[1], Main>> \in DOMAIN known /\ k \in DOMAIN known
         THEN known' = Forgotten(k) /\ CleanupConnection(known[k])
         ELSE UNCHANGED <<known, portmap>>
    /\ Goto(k, "get")
    /\ UNCHANGED <<shim, life, box, files, client, extension, sent, guest, lock, shimFaults>>

\* The end of purge.
Purged(k) ==
    /\ At(k, "delete", "record") /\ lock = NoKey
    /\ known' = Forgotten(k)
    /\ Return(k)
    /\ UNCHANGED <<shim, life, box, files, client, extension, sent, portmap, guest, lock, shimFaults>>

ShimInit ==
    /\ shim = "up" /\ life = "new" /\ box = "none"
    /\ files = [dir |-> FALSE, shm |-> 0]
    /\ client = FALSE
    /\ extension = {} /\ sent = {} /\ guest = {} /\ portmap = {}
    /\ known = [k \in {} |-> {}]
    /\ rpc = [k \in {} |-> {}]
    /\ lock = NoKey
    /\ shimFaults = 0

SandboxCall ==
    SetupSandboxFiles \/ CreateSandbox \/ StartSandbox \/ InitTaskClient
    \/ StopSandbox \/ Shutdown \/ ShimDies \/ DeleteShimStop \/ DeleteShimShutdown

TaskCall(k) ==
    \/ GetTasksExtension(k) \/ UpdateTasksExtension(k)
    \/ RecordContainer(k) \/ CallCreate(k) \/ CopyIo(k)
    \/ RecordProcess(k) \/ CallExec(k)
    \/ StartProcess(k) \/ LockForCopy(k) \/ CopyLocked(k)
    \/ Delete(k) \/ ForgetIo(k) \/ Purged(k)

ShimNext ==
    \/ SandboxCall
    \/ \E t \in Tasks : Create(t) \/ \E e \in Execs : Exec(t, e)
    \/ \E k \in Keys : TaskCall(k)

ShimSpec == ShimInit /\ [][ShimNext]_shimVars

(***************************************************************************)
(* Properties                                                              *)
(***************************************************************************)
\* Type correctness of the shim's state.
ShimTypeOK ==
    /\ shim \in {"up", "down", "deleting", "gone"}
    /\ life \in {"new", "create", "created", "connect", "ready", "stopped", "failed"}
    /\ box \in {"none", "created", "running", "stopped"}
    /\ files \in [dir : BOOLEAN, shm : Nat]
    /\ client \in BOOLEAN
    /\ extension \subseteq Keys /\ sent \subseteq Keys /\ guest \subseteq Keys
    /\ DOMAIN known \subseteq Keys /\ \A k \in DOMAIN known : known[k] \subseteq portmap
    /\ portmap \subseteq Ports
    /\ lock \in Keys \cup {NoKey}
    /\ DOMAIN rpc \subseteq Keys
    /\ shimFaults \in 0..MaxShimFaults

\* Two processes never share a vsock port, also while their create or exec is
\* still under way: the guest tells their streams apart by port alone.
PortsDistinct ==
    LET held(k) == (IF k \in DOMAIN known THEN known[k] ELSE {})
                     \cup (IF Calling(k) THEN rpc[k].io ELSE {})
    IN \A j, k \in Keys : j # k => held(j) \cap held(k) = {}

\* Whatever the task server holds, the shim has a record of, whichever calls
\* failed half way: a delete of it finds the ports it has to give back.
GuestIsKnown == shim = "up" => guest \subseteq DOMAIN known

\* After the shutdown, or the delete command that stands in for it, neither
\* the directory nor the shm mount of the sandbox is left, even when the
\* sandboxer refused.
FilesRemoved == shim = "gone" => files = [dir |-> FALSE, shm |-> 0]
============================================================================
