--------------------------- MODULE RuncSandboxer ---------------------------
(* The runc sandboxer (src/runc): pods whose namespaces are held either by  *)
(* a sandbox process, when the pod shares its pid namespace, or by bind     *)
(* mounts of a process that is killed again.  Sandbox processes are forked  *)
(* by a process of their own, the sandbox parent, over a pair of pipes;     *)
(* pods are dumped to sandbox.json and recovered when the sandboxer starts. *)
EXTENDS Naturals, FiniteSets

CONSTANTS
    Pods,           \* sandbox ids
    SharedPid,      \* the pods that share one pid namespace
    MaxForks,       \* how many sandbox processes are forked
    MaxRuncFaults   \* how many steps fail or crash

VARIABLES
    sandboxer,      \* "up", "down"
    parent,         \* whether the sandbox parent is alive
    pods,           \* RuncSandboxer.sandboxes: status and pid
    dumped,         \* sandbox.json of each pod
    nsMounts,       \* the namespace files that are mounted
    owner,          \* the sandbox processes forked so far, with their pod
    running,        \* the ones alive
    starting,       \* the start that holds the parent's mutex
    lost,           \* processes no sandboxer knows since a crash (history)
    runcFaults

runcVars == <<sandboxer, parent, pods, dumped, nsMounts, owner, running,
              starting, lost, runcFaults>>

Statuses == {"created", "running", "stopped"}
Status(s, p) == [status |-> s, pid |-> p]
Absent == Status("absent", 0)
Torn == Status("torn", 0)
Namespaces == {"uts", "ipc", "net"}
NoStart == [pod |-> "none", pc |-> "idle", pid |-> 0]
Stray == "stray"

Fault == runcFaults < MaxRuncFaults /\ runcFaults' = runcFaults + 1
NoFault == UNCHANGED runcFaults
Forked == Cardinality(DOMAIN owner)

\* kill(Pid::from_raw(pid), SIGKILL).unwrap_or_default(): pid 0 is the
\* sandboxer's own process group, the parent and the sandbox processes with it.
KillSandbox(pid) ==
    IF pid = 0
      THEN /\ running' = {} /\ sandboxer' = "down" /\ parent' = FALSE
           /\ pods' = [s \in Pods |-> Absent]
      ELSE /\ running' = running \ {pid}
           /\ UNCHANGED <<sandboxer, parent, pods>>

(***************************************************************************)
(* Sandboxer                                                               *)
(***************************************************************************)
\* dump: the file is truncated and written; a failure leaves it torn.
Dump(s, st) == dumped' = [dumped EXCEPT ![s] = st]

\* create: dump first, then insert.
Create(s) ==
    /\ sandboxer = "up" /\ pods[s] = Absent /\ dumped[s] = Absent
    /\ \/ pods' = [pods EXCEPT ![s] = Status("created", 0)]
          /\ Dump(s, Status("created", 0)) /\ NoFault
       \/ UNCHANGED pods /\ Dump(s, Torn) /\ Fault
    /\ UNCHANGED <<sandboxer, parent, nsMounts, owner, running, starting, lost>>

\* start up to the request: the sandbox's mutex, then the parent's.
Start(s) ==
    /\ sandboxer = "up" /\ pods[s].status = "created" /\ starting = NoStart
    /\ starting' = [pod |-> s, pc |-> "fork", pid |-> 0]
    /\ UNCHANGED <<sandboxer, parent, pods, dumped, nsMounts, owner, running,
                   lost, runcFaults>>

\* fork_sandbox in the parent: a child unshares and forks the sandbox
\* process, whose pid it reports.
ForkSandbox(s) ==
    LET p == Forked + 1 IN
    /\ Forked < MaxForks
    /\ owner' = [q \in DOMAIN owner \cup {p} |-> IF q = p THEN s ELSE owner[q]]
    /\ running' = running \cup {p}

\* fork_sandbox_process.  A dead parent makes the write fail.  When the child
\* of fork_sandbox dies early, or the parent does, read_count meets the end of
\* the pipe and returns zeros: pid 0.
ForkSandboxProcess ==
    /\ starting.pc = "fork" /\ sandboxer = "up"
    /\ \/ /\ parent /\ ForkSandbox(starting.pod)
          /\ starting' = [starting EXCEPT !.pc = "prepare", !.pid = Forked + 1]
          /\ NoFault /\ UNCHANGED parent
       \/ /\ parent /\ parent' \in BOOLEAN
          /\ starting' = [starting EXCEPT !.pc = "prepare", !.pid = 0]
          /\ Fault /\ UNCHANGED <<owner, running>>
       \/ ~parent /\ starting' = NoStart /\ NoFault /\ UNCHANGED <<owner, running, parent>>
    /\ UNCHANGED <<sandboxer, pods, dumped, nsMounts, lost>>

\* prepare_sandbox_ns of a pod that shares its pid namespace.
KeepProcess ==
    /\ starting.pc = "prepare" /\ starting.pod \in SharedPid
    /\ pods' = [pods EXCEPT ![starting.pod] = Status("running", starting.pid)]
    /\ starting' = [starting EXCEPT !.pc = "dump"]
    /\ UNCHANGED <<sandboxer, parent, dumped, nsMounts, owner, running, lost, runcFaults>>

\* The namespaces mounted before a mount fails: uts, then ipc, then net.
Prefixes == {{}, {"uts"}, {"uts", "ipc"}}

\* prepare_sandbox_ns of the others: three bind mounts, then the process is
\* killed.  A process that is gone has no /proc entry to mount.
MountNamespaces ==
    /\ starting.pc = "prepare" /\ starting.pod \notin SharedPid
    /\ starting.pid \in running
    /\ nsMounts' = [nsMounts EXCEPT ![starting.pod] = Namespaces]
    /\ running' = running \ {starting.pid}
    /\ pods' = [pods EXCEPT ![starting.pod] = Status("running", 0)]
    /\ starting' = [starting EXCEPT !.pc = "dump"]
    /\ UNCHANGED <<sandboxer, parent, dumped, owner, lost, runcFaults>>

MountFails ==
    /\ starting.pc = "prepare" /\ starting.pod \notin SharedPid
    /\ IF starting.pid \in running
         THEN \E done \in Prefixes :
                nsMounts' = [nsMounts EXCEPT ![starting.pod] = @ \cup done] /\ Fault
         ELSE UNCHANGED <<nsMounts, runcFaults>>
    /\ KillSandbox(starting.pid)
    /\ starting' = NoStart
    /\ UNCHANGED <<dumped, owner, lost>>

\* The dump at the end of start; its failure kills the process and leaves the
\* status as prepare_sandbox_ns set it.
DumpStarted ==
    LET s == starting.pod IN
    /\ starting.pc = "dump" /\ sandboxer = "up"
    /\ starting' = NoStart
    /\ \/ /\ Dump(s, pods[s]) /\ NoFault
          /\ UNCHANGED <<running, pods, sandboxer, parent>>
       \/ Dump(s, Torn) /\ Fault /\ KillSandbox(starting.pid)
    /\ UNCHANGED <<nsMounts, owner, lost>>

\* RuncSandbox::stop, waiting for the sandbox's mutex.  Nothing is dumped.
Stop(s) ==
    LET p == pods[s].pid IN
    /\ sandboxer = "up" /\ pods[s].status \in {"created", "running"}
    /\ starting.pod # s
    /\ \/ /\ pods[s].status = "running" /\ p = 0
          /\ LET left == nsMounts[s] \ {"uts"} IN
             IF "uts" \notin nsMounts[s]
               THEN UNCHANGED <<nsMounts, pods>>
               ELSE IF "ipc" \in left
                 THEN /\ nsMounts' = [nsMounts EXCEPT ![s] = left \ {"ipc"}]
                      /\ pods' = [pods EXCEPT ![s] = Status("stopped", 0)]
                 ELSE nsMounts' = [nsMounts EXCEPT ![s] = left] /\ UNCHANGED pods
          /\ UNCHANGED running
       \/ /\ ~(pods[s].status = "running" /\ p = 0)
          /\ running' = running \ {p}
          /\ pods' = [pods EXCEPT ![s] = Status("stopped", 0)]
          /\ UNCHANGED nsMounts
    /\ UNCHANGED <<sandboxer, parent, dumped, owner, starting, lost, runcFaults>>

\* delete only takes the pod out of the map.
Delete(s) ==
    /\ sandboxer = "up" /\ pods[s].status = "stopped"
    /\ pods' = [pods EXCEPT ![s] = Absent]
    /\ UNCHANGED <<sandboxer, parent, dumped, nsMounts, owner, running, starting,
                   lost, runcFaults>>

\* append_container and remove_container dump the pod as it is.
DumpContainers(s) ==
    /\ sandboxer = "up" /\ pods[s] # Absent /\ starting.pod # s
    /\ \/ Dump(s, pods[s]) /\ NoFault
       \/ Dump(s, Torn) /\ Fault
    /\ UNCHANGED <<sandboxer, parent, pods, nsMounts, owner, running, starting, lost>>

\* The sandboxer dies.  The end of the request pipe makes the parent fork one
\* more sandbox process, for no pod, before its answer finds no reader.
SandboxerDies ==
    /\ sandboxer = "up" /\ Fault
    /\ sandboxer' = "down"
    /\ parent' = FALSE
    /\ IF parent /\ Forked < MaxForks THEN ForkSandbox(Stray) ELSE UNCHANGED <<owner, running>>
    /\ pods' = [s \in Pods |-> Absent]
    /\ starting' = NoStart
    /\ lost' = lost \cup {p \in running : p \notin {dumped[s].pid : s \in Pods}}
    /\ UNCHANGED <<dumped, nsMounts>>

\* main: a new parent, then recover.  A torn file is removed with its
\* directory; whether the process of a pod still runs is not looked at.
Restart ==
    /\ sandboxer = "down"
    /\ sandboxer' = "up" /\ parent' = TRUE
    /\ starting' = NoStart
    /\ pods' = [s \in Pods |-> IF dumped[s] = Torn THEN Absent ELSE dumped[s]]
    /\ dumped' = [s \in Pods |-> IF dumped[s] = Torn THEN Absent ELSE dumped[s]]
    /\ UNCHANGED <<nsMounts, owner, running, lost, runcFaults>>

\* A sandbox process dies: by itself, when its netns cannot be opened, or
\* killed from outside.
ProcessDies(p) ==
    /\ p \in running /\ Fault
    /\ running' = running \ {p}
    /\ UNCHANGED <<sandboxer, parent, pods, dumped, nsMounts, owner, starting, lost>>

RuncInit ==
    /\ sandboxer = "up" /\ parent = TRUE
    /\ pods = [s \in Pods |-> Absent] /\ dumped = [s \in Pods |-> Absent]
    /\ nsMounts = [s \in Pods |-> {}]
    /\ owner = [p \in {} |-> Stray] /\ running = {}
    /\ starting = NoStart /\ lost = {}
    /\ runcFaults = 0

RuncNext ==
    \/ \E s \in Pods : Create(s) \/ Start(s) \/ Stop(s) \/ Delete(s) \/ DumpContainers(s)
    \/ ForkSandboxProcess \/ KeepProcess \/ MountNamespaces \/ MountFails \/ DumpStarted
    \/ SandboxerDies \/ Restart
    \/ \E p \in DOMAIN owner : ProcessDies(p)

RuncSpec == RuncInit /\ [][RuncNext]_runcVars

(***************************************************************************)
(* Properties                                                              *)
(***************************************************************************)
\* Type correctness of the runc sandboxer's state.
RuncTypeOK ==
    /\ sandboxer \in {"up", "down"} /\ parent \in BOOLEAN
    /\ \A s \in Pods : pods[s].status \in Statuses \cup {"absent"}
    /\ \A s \in Pods : dumped[s].status \in {"created", "running", "stopped", "absent", "torn"}
    /\ \A s \in Pods : nsMounts[s] \subseteq Namespaces
    /\ running \subseteq DOMAIN owner /\ lost \subseteq DOMAIN owner
    /\ runcFaults \in 0..MaxRuncFaults

\* A process of a pod is always within somebody's reach: held by its status in
\* memory or on disk, by the start in progress, or lost in a crash before the
\* start was dumped; in particular a pod that was stopped has none.
ProcessIsHeld ==
    \A p \in running : owner[p] # Stray =>
        \/ pods[owner[p]].pid = p
        \/ starting.pid = p
        \/ sandboxer = "down" /\ dumped[owner[p]].pid = p
        \/ p \in lost
============================================================================
