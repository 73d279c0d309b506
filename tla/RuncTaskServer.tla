--------------------------- MODULE RuncTaskServer ---------------------------
(* The task server of the runc sandboxer (src/runc/src/task.rs, runc.rs): a *)
(* process forked beside the sandboxer that drives runc, copies stdio, reaps *)
(* children and records their exits, and outlives the sandboxer until its   *)
(* last container is removed.                                               *)
(*                                                                          *)
(* A key <<c, Main>> is the first process of container c, <<c, e>> an exec  *)
(* process.  The task service of containerd_shim keeps the containers behind *)
(* one mutex: a create, and the start of an exec, hold it from before runc   *)
(* is run until the pid is known (external).                                *)
EXTENDS Naturals, Sequences, SequencesExt, FiniteSets

CONSTANTS
    Conts,          \* container ids
    ContExecs,      \* exec ids
    First,          \* the exec id of a container's first process
    MaxRunPid,      \* how many processes are spawned
    MaxTaskFaults   \* how many steps fail

VARIABLES
    server,         \* "serving", "closing" or "down"
    sandboxerUp,    \* whether the sandboxer is alive
    shared,         \* whether the pod shares its pid namespace
    table,          \* the processes of TaskService.containers
    holder,         \* the call holding the containers mutex
    rootfs,         \* the containers whose rootfs is mounted
    alive,          \* the processes alive, with their key
    zombies,        \* the processes dead and not reaped
    events,         \* the exit events sent to process_exits
    copies,         \* the processes whose stdio is being copied
    signalled,      \* the ones whose exit_signal was given
    taskFaults

taskVars == <<server, sandboxerUp, shared, table, holder, rootfs, alive, zombies,
              events, copies, signalled, taskFaults>>

TaskKeys == Conts \X (ContExecs \cup {First})
Nobody == [key |-> <<>>, pid |-> 0]
Init0(c) == <<c, First>>
Spawned == Cardinality(DOMAIN alive)
Living == {p \in DOMAIN alive : alive[p] # <<>>}
Fault == taskFaults < MaxTaskFaults /\ taskFaults' = taskFaults + 1
NoFault == UNCHANGED taskFaults
Unlocked == holder = Nobody /\ server # "down"
Put(k, pid, st) == table' = [j \in DOMAIN table \cup {k} |->
                               IF j = k THEN [pid |-> pid, state |-> st] ELSE table[j]]

\* Processes that die become zombies of the task server, their subreaper.
Die(ps) ==
    /\ alive' = [p \in DOMAIN alive |-> IF p \in ps THEN <<>> ELSE alive[p]]
    /\ zombies' = zombies \cup (ps \cap Living)

\* The processes of a container: its pid namespace or its cgroup.
ProcessesOf(c) == {p \in Living : alive[p][1] = c}

\* runc create and runc exec leave a process and its stdio copies behind.
Spawn(k) ==
    /\ Spawned < MaxRunPid
    /\ alive' = [p \in DOMAIN alive \cup {Spawned + 1} |->
                   IF p = Spawned + 1 THEN k ELSE alive[p]]
    /\ copies' = copies \cup {Spawned + 1}
    /\ holder' = [key |-> k, pid |-> Spawned + 1]

\* RuncFactory::create up to runc create: rewrite_spec, the rootfs mounts,
\* write_stdio.  A failure leaves the rootfs mounted.
FactoryCreate(c) ==
    /\ Unlocked /\ Init0(c) \notin DOMAIN table
    /\ rootfs' = rootfs \cup {c}
    /\ \/ Spawn(Init0(c)) /\ NoFault
       \/ UNCHANGED <<alive, copies, holder>> /\ Fault
    /\ UNCHANGED <<server, sandboxerUp, shared, table, zombies, events, signalled>>

\* RuncExecFactory::create
ExecCreate(c, e) ==
    /\ Unlocked /\ Init0(c) \in DOMAIN table /\ <<c, e>> \notin DOMAIN table
    /\ Put(<<c, e>>, 0, "created")
    /\ UNCHANGED <<server, sandboxerUp, shared, holder, rootfs, alive, zombies,
                   events, copies, signalled, taskFaults>>

\* RuncExecLifecycle::start up to runc exec, which needs a live container.
ExecStart(c, e) ==
    LET k == <<c, e>> IN
    /\ Unlocked /\ k \in DOMAIN table
    /\ table[k].state = "created" /\ table[k].pid = 0
    /\ table[Init0(c)].pid \in Living
    /\ \/ Spawn(k) /\ NoFault
       \/ UNCHANGED <<alive, copies, holder>> /\ Fault
    /\ UNCHANGED <<server, sandboxerUp, shared, table, rootfs, zombies, events, signalled>>

\* copy_io_or_console and the pid file; on a failure the caller is told and
\* the process stays.
RecordPid ==
    /\ holder # Nobody
    /\ LET k == holder.key IN
       \/ /\ Put(k, holder.pid, IF k[2] = First THEN "created" ELSE "running")
          /\ NoFault
       \/ UNCHANGED table /\ Fault
    /\ holder' = Nobody
    /\ UNCHANGED <<server, sandboxerUp, shared, rootfs, alive, zombies, events, copies, signalled>>

\* RuncInitLifecycle::start
InitStart(c) ==
    /\ Unlocked /\ Init0(c) \in DOMAIN table
    /\ table[Init0(c)].state = "created"
    /\ table[Init0(c)].pid \in Living
    /\ table' = [table EXCEPT ![Init0(c)].state = "running"]
    /\ UNCHANGED <<server, sandboxerUp, shared, holder, rootfs, alive, zombies,
                   events, copies, signalled, taskFaults>>

\* kill: runc kill for the first process, whose end takes a private pid
\* namespace with it; kill(pid) for an exec process that runs.
Kill(k) ==
    /\ Unlocked /\ k \in DOMAIN table
    /\ table[k].pid \in Living
    /\ Die(IF k[2] = First /\ ~shared THEN ProcessesOf(k[1]) ELSE {table[k].pid})
    /\ UNCHANGED <<server, sandboxerUp, shared, table, holder, rootfs, events,
                   copies, signalled, taskFaults>>

\* A process ends by itself.
Ends(p) ==
    /\ p \in Living
    /\ Die(IF alive[p][2] = First /\ ~shared THEN ProcessesOf(alive[p][1]) ELSE {p})
    /\ UNCHANGED <<server, sandboxerUp, shared, table, holder, rootfs, events,
                   copies, signalled, taskFaults>>

\* handle_signals on SIGCHLD: waitpid until nothing is left, one event each.
HandleSigchld ==
    /\ server # "down" /\ zombies # {}
    /\ events' = events \o SetToSeq(zombies)
    /\ zombies' = {}
    /\ UNCHANGED <<server, sandboxerUp, shared, table, holder, rootfs, alive,
                   copies, signalled, taskFaults>>

\* process_exits: one event, under the containers mutex.  When the first
\* process of a container in a shared namespace ends, all its processes are
\* killed first.
ProcessExit ==
    /\ Unlocked /\ events # <<>>
    /\ events' = Tail(events)
    /\ LET p == Head(events)
           ks == {k \in DOMAIN table : table[k].pid = p} IN
       /\ table' = [k \in DOMAIN table |->
                      IF k \in ks THEN [table[k] EXCEPT !.state = "stopped"] ELSE table[k]]
       /\ IF shared /\ \E k \in ks : k[2] = First
            THEN Die(UNION {ProcessesOf(k[1]) : k \in ks})
            ELSE UNCHANGED <<alive, zombies>>
    /\ UNCHANGED <<server, sandboxerUp, shared, holder, rootfs, copies, signalled, taskFaults>>

\* RuncInitLifecycle::delete: runc delete --force, then exit_signal; an exec
\* process only has its exit_signal.
Delete(k) ==
    LET gone == IF k[2] = First THEN {j \in DOMAIN table : j[1] = k[1]} ELSE {k} IN
    /\ Unlocked /\ k \in DOMAIN table /\ table[k].state # "running"
    /\ table' = [j \in DOMAIN table \ gone |-> table[j]]
    /\ signalled' = signalled \cup {table[k].pid}
    /\ IF k[2] = First THEN Die(ProcessesOf(k[1])) ELSE UNCHANGED <<alive, zombies>>
    /\ UNCHANGED <<server, sandboxerUp, shared, holder, rootfs, events, copies, taskFaults>>

\* spawn_copy ends at the end of the stream or at the exit_signal.
CopyEnds(p) ==
    /\ p \in copies /\ (p \in signalled \/ p \notin Living)
    /\ copies' = copies \ {p}
    /\ UNCHANGED <<server, sandboxerUp, shared, table, holder, rootfs, alive,
                   zombies, events, signalled, taskFaults>>

\* run_task_server: the end of the pipe tells that the sandboxer is gone; the
\* mutex is taken to see that no container is left, and released again.
SandboxerExits ==
    /\ sandboxerUp /\ sandboxerUp' = FALSE
    /\ UNCHANGED <<server, shared, table, holder, rootfs, alive, zombies, events,
                   copies, signalled, taskFaults>>
CheckEmpty ==
    /\ ~sandboxerUp /\ server = "serving" /\ holder = Nobody
    /\ DOMAIN table = {}
    /\ server' = "closing"
    /\ UNCHANGED <<sandboxerUp, shared, table, holder, rootfs, alive, zombies,
                   events, copies, signalled, taskFaults>>
ShutdownServer ==
    /\ server = "closing"
    /\ server' = "down"
    /\ holder' = Nobody
    /\ UNCHANGED <<sandboxerUp, shared, table, rootfs, alive, zombies, events,
                   copies, signalled, taskFaults>>

RuncTaskInit ==
    /\ server = "serving" /\ sandboxerUp = TRUE /\ shared \in BOOLEAN
    /\ table = [k \in {} |-> Nobody] /\ holder = Nobody
    /\ rootfs = {} /\ alive = <<>> /\ zombies = {}
    /\ events = <<>> /\ copies = {} /\ signalled = {} /\ taskFaults = 0

RuncTaskNext ==
    \/ \E c \in Conts : FactoryCreate(c) \/ InitStart(c)
    \/ \E c \in Conts, e \in ContExecs : ExecCreate(c, e) \/ ExecStart(c, e)
    \/ \E k \in TaskKeys : Kill(k) \/ Delete(k)
    \/ \E p \in 1..MaxRunPid : Ends(p) \/ CopyEnds(p)
    \/ RecordPid \/ HandleSigchld \/ ProcessExit
    \/ SandboxerExits \/ CheckEmpty \/ ShutdownServer

RuncTaskSpec == RuncTaskInit /\ [][RuncTaskNext]_taskVars

(***************************************************************************)
(* Properties                                                              *)
(***************************************************************************)
\* Type correctness of the task server's state.
RuncTaskTypeOK ==
    /\ server \in {"serving", "closing", "down"} /\ sandboxerUp \in BOOLEAN
    /\ DOMAIN table \subseteq TaskKeys
    /\ \A k \in DOMAIN table : table[k].state \in {"created", "running", "stopped"}
    /\ holder = Nobody \/ holder.key \in TaskKeys
    /\ rootfs \subseteq Conts /\ zombies \subseteq DOMAIN alive
    /\ copies \subseteq DOMAIN alive

\* The end of a process is never lost: until the record of it says stopped,
\* the process is alive, to be reaped, or its event is waiting, even when it
\* ended before runc had returned.
ExitNotLost ==
    \A k \in DOMAIN table :
       (table[k].pid # 0 /\ table[k].state # "stopped")
          => \/ table[k].pid \in Living \cup zombies
             \/ \E i \in 1..Len(events) : events[i] = table[k].pid

\* Once a container is recorded as stopped none of its exec processes lives
\* on, in a private pid namespace or a shared one.
ExecsEndWithInit ==
    \A c \in Conts :
       (Init0(c) \in DOMAIN table /\ table[Init0(c)].state = "stopped" /\ holder = Nobody)
          => \A p \in ProcessesOf(c) : \A k \in DOMAIN table : table[k].pid # p
============================================================================
