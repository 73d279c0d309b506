--------------------------- MODULE WasmSandboxer ---------------------------
(* The wasm sandboxer (src/wasm): a task server per pod inside the          *)
(* sandboxer's own process, with WasmEdge, where a container is a forked    *)
(* child, or Wasmtime, where it is a task that an epoch interrupts.  There  *)
(* is no recovery: "TODO: Support recovery".                                *)
(*                                                                          *)
(* The containers of a pod are behind one mutex that the task service of    *)
(* containerd_shim holds through a create, start, kill or delete (external).*)
EXTENDS Naturals, Sequences, FiniteSets

CONSTANTS
    WasmPods,       \* sandbox ids
    Modules,        \* container ids
    MaxEpoch,       \* how often an engine's epoch is incremented
    MaxWasmPid,     \* how many children are forked
    MaxWasmFaults

VARIABLES
    engine,         \* the feature the sandboxer is built with
    wasmPods,       \* status and task server of each pod
    modules,        \* the containers of the task servers
    children,       \* the forked children alive, by pid
    escaped,        \* children that returned from start into the server's code
    wasmZombies,    \* children dead and not reaped
    lastPid,        \* the pid of the latest child; pids are not used again
    funcs,          \* the containers whose _start is running in a task
    exits,          \* the events on their way to process_exits or exec_exits
    reaper,         \* handle_signals: "waiting" for a signal or in its "loop"
    wasmFaults

wasmVars == <<engine, wasmPods, modules, children, escaped, wasmZombies, lastPid,
              funcs, exits, reaper, wasmFaults>>

NoModule == [state |-> "absent", pid |-> 0, epoch |-> 0, deadline |-> 0, killed |-> FALSE]
ContIds == WasmPods \X Modules
Fault == wasmFaults < MaxWasmFaults /\ wasmFaults' = wasmFaults + 1
NoFault == UNCHANGED wasmFaults
Served(c) == wasmPods[c[1]].server
Set(c, f, v) == [modules EXCEPT ![c][f] = v]
(***************************************************************************)
(* The pods                                                                *)
(***************************************************************************)
CreatePod(p) ==
    /\ wasmPods[p].status = "absent"
    /\ wasmPods' = [wasmPods EXCEPT ![p].status = "created"]
    /\ UNCHANGED <<engine, lastPid, modules, children, escaped, wasmZombies, funcs, exits, reaper, wasmFaults>>

\* start: start_task_service, bind, start; the status is last.
StartPod(p) ==
    /\ wasmPods[p].status = "created"
    /\ \/ wasmPods' = [wasmPods EXCEPT ![p] = [status |-> "running", server |-> TRUE]] /\ NoFault
       \/ UNCHANGED wasmPods /\ Fault
    /\ UNCHANGED <<engine, lastPid, modules, children, escaped, wasmZombies, funcs, exits, reaper>>

\* stop: the server is taken out before its shutdown is tried, so that a
\* second stop, after a failed shutdown, only sets the status.
StopPod(p) ==
    /\ wasmPods[p].status \in {"created", "running"}
    /\ \/ wasmPods' = [wasmPods EXCEPT ![p] = [status |-> "stopped", server |-> FALSE]] /\ NoFault
       \/ wasmPods[p].server /\ wasmPods' = [wasmPods EXCEPT ![p].server = FALSE] /\ Fault
    /\ UNCHANGED <<engine, lastPid, modules, children, escaped, wasmZombies, funcs, exits, reaper>>

\* delete: the pod leaves the map; its containers are not looked at.
DeletePod(p) ==
    /\ wasmPods[p].status = "stopped"
    /\ wasmPods' = [wasmPods EXCEPT ![p] = [status |-> "deleted", server |-> FALSE]]
    /\ UNCHANGED <<engine, lastPid, modules, children, escaped, wasmZombies, funcs, exits, reaper, wasmFaults>>

(***************************************************************************)
(* WasmEdge                                                                *)
(***************************************************************************)
WasmEdgeCreate(c) ==
    /\ engine = "wasmedge" /\ Served(c) /\ modules[c].state = "absent"
    /\ modules' = Set(c, "state", "created")
    /\ UNCHANGED <<engine, lastPid, wasmPods, children, escaped, wasmZombies, funcs, exits, reaper, wasmFaults>>

\* WasmEdgeInitLifecycle::start.  A child that cannot join its cgroup returns
\* the error instead of exiting.
WasmEdgeStart(c) ==
    LET pid == lastPid + 1 IN
    /\ engine = "wasmedge" /\ Served(c) /\ modules[c].state = "created"
    /\ pid <= MaxWasmPid /\ lastPid' = pid
    /\ modules' = [modules EXCEPT ![c].state = "running", ![c].pid = pid]
    /\ \/ children' = children \cup {pid} /\ NoFault /\ UNCHANGED escaped
       \/ escaped' = escaped \cup {pid} /\ Fault /\ UNCHANGED children
    /\ UNCHANGED <<engine, wasmPods, wasmZombies, funcs, exits, reaper>>

\* run_wasi_func in the child returns, or fails on its way, and the child
\* exits; a child that escaped ends only when it is killed.
RunWasiFuncEnds(pid) ==
    /\ pid \in children
    /\ children' = children \ {pid}
    /\ wasmZombies' = wasmZombies \cup {pid}
    /\ UNCHANGED <<engine, lastPid, wasmPods, modules, escaped, funcs, exits, reaper, wasmFaults>>

WasmEdgeKill(c) ==
    /\ engine = "wasmedge" /\ Served(c)
    /\ modules[c].state = "running" /\ modules[c].pid \in children \cup escaped
    /\ children' = children \ {modules[c].pid}
    /\ escaped' = escaped \ {modules[c].pid}
    /\ wasmZombies' = wasmZombies \cup {modules[c].pid}
    /\ modules' = Set(c, "killed", TRUE)
    /\ UNCHANGED <<engine, lastPid, wasmPods, funcs, exits, reaper, wasmFaults>>

\* delete of the cgroup.  Container ids are not used again.
WasmEdgeDelete(c) ==
    /\ engine = "wasmedge" /\ Served(c)
    /\ modules[c].state \in {"created", "stopped"}
    /\ modules' = Set(c, "state", "deleted")
    /\ UNCHANGED <<engine, lastPid, wasmPods, children, escaped, wasmZombies, funcs, exits, reaper, wasmFaults>>

\* SIGCHLD wakes handle_signals.
Sigchld ==
    /\ engine = "wasmedge" /\ wasmZombies # {} /\ reaper = "waiting"
    /\ reaper' = "loop"
    /\ UNCHANGED <<engine, lastPid, wasmPods, modules, children, escaped, wasmZombies, funcs, exits, wasmFaults>>

\* One turn of its loop: a child is reaped and its event sent to every pod; the
\* loop ends when there are no children at all.  StillAlive does not end it.
WaitPid ==
    /\ reaper = "loop"
    /\ \/ \E pid \in wasmZombies :
            /\ wasmZombies' = wasmZombies \ {pid}
            /\ exits' = Append(exits, pid)
            /\ UNCHANGED reaper
       \/ /\ wasmZombies \cup children \cup escaped = {}
          /\ reaper' = "waiting"
          /\ UNCHANGED <<wasmZombies, exits>>
    /\ UNCHANGED <<engine, lastPid, wasmPods, modules, children, escaped, funcs, wasmFaults>>

\* process_exits, under the containers mutex.
ProcessExits ==
    /\ engine = "wasmedge" /\ exits # <<>>
    /\ exits' = Tail(exits)
    /\ modules' = [c \in ContIds |->
                     IF modules[c].pid = Head(exits)
                       THEN [modules[c] EXCEPT !.state = "stopped"] ELSE modules[c]]
    /\ UNCHANGED <<engine, lastPid, wasmPods, children, escaped, wasmZombies, funcs, reaper, wasmFaults>>

(***************************************************************************)
(* Wasmtime                                                                *)
(***************************************************************************)
\* create, with an engine of its own whose epoch starts at zero.
WasmtimeCreate(c) ==
    /\ engine = "wasmtime" /\ Served(c) /\ modules[c].state = "absent"
    /\ modules' = Set(c, "state", "created")
    /\ UNCHANGED <<engine, lastPid, wasmPods, children, escaped, wasmZombies, funcs, exits, reaper, wasmFaults>>

\* start: the deadline is one tick after the epoch of this moment; compiling
\* or instantiating may fail; the function runs in a task.  The state stays
\* CREATED until the exit.
WasmtimeStart(c) ==
    /\ engine = "wasmtime" /\ Served(c) /\ modules[c].state = "created" /\ c \notin funcs
    /\ modules[c].deadline = 0
    /\ \/ /\ modules' = Set(c, "deadline", modules[c].epoch + 1)
          /\ funcs' = funcs \cup {c} /\ NoFault
       \/ UNCHANGED <<modules, funcs>> /\ Fault
    /\ UNCHANGED <<engine, lastPid, wasmPods, children, escaped, wasmZombies, exits, reaper>>

\* kill increments the epoch, whatever the signal.
WasmtimeKill(c) ==
    /\ engine = "wasmtime" /\ Served(c) /\ modules[c].state \in {"created", "stopped"}
    /\ modules[c].epoch < MaxEpoch
    /\ modules' = [modules EXCEPT ![c].epoch = @ + 1, ![c].killed = c \in funcs]
    /\ UNCHANGED <<engine, lastPid, wasmPods, children, escaped, wasmZombies, funcs, exits, reaper, wasmFaults>>

\* delete increments the epoch too, and the container is forgotten.
WasmtimeDelete(c) ==
    /\ engine = "wasmtime" /\ Served(c) /\ modules[c].state \in {"created", "stopped"}
    /\ modules' = [modules EXCEPT ![c].state = "deleted", ![c].epoch = @ + 1,
                                  ![c].killed = c \in funcs]
    /\ UNCHANGED <<engine, lastPid, wasmPods, children, escaped, wasmZombies, funcs, exits,
                   reaper, wasmFaults>>

\* The function returns, or traps because the epoch reached its deadline, and
\* the task notifies.
FuncEnds(c) ==
    /\ c \in funcs
    /\ funcs' = funcs \ {c}
    /\ exits' = Append(exits, c)
    /\ UNCHANGED <<engine, lastPid, wasmPods, modules, children, escaped, wasmZombies, reaper, wasmFaults>>

\* exec_exits finds the container by its id.
ExecExits ==
    /\ engine = "wasmtime" /\ exits # <<>>
    /\ exits' = Tail(exits)
    /\ LET c == Head(exits) IN
       modules' = IF modules[c].state = "deleted" THEN modules ELSE Set(c, "state", "stopped")
    /\ UNCHANGED <<engine, lastPid, wasmPods, children, escaped, wasmZombies, funcs, reaper, wasmFaults>>

WasmInit ==
    /\ engine \in {"wasmedge", "wasmtime"}
    /\ wasmPods = [p \in WasmPods |-> [status |-> "absent", server |-> FALSE]]
    /\ modules = [c \in ContIds |-> NoModule]
    /\ lastPid = 0 /\ children = {} /\ escaped = {} /\ wasmZombies = {} /\ funcs = {}
    /\ exits = <<>> /\ reaper = "waiting" /\ wasmFaults = 0

WasmNext ==
    \/ \E p \in WasmPods : CreatePod(p) \/ StartPod(p) \/ StopPod(p) \/ DeletePod(p)
    \/ \E c \in ContIds :
          \/ WasmEdgeCreate(c) \/ WasmEdgeStart(c) \/ WasmEdgeKill(c) \/ WasmEdgeDelete(c)
          \/ WasmtimeCreate(c) \/ WasmtimeStart(c) \/ WasmtimeKill(c) \/ WasmtimeDelete(c)
          \/ FuncEnds(c)
    \/ \E pid \in 1..MaxWasmPid : RunWasiFuncEnds(pid)
    \/ Sigchld \/ WaitPid \/ ProcessExits \/ ExecExits

WasmSpec == WasmInit /\ [][WasmNext]_wasmVars

(***************************************************************************)
(* Properties                                                              *)
(***************************************************************************)
\* Type correctness of the wasm sandboxer's state.
WasmTypeOK ==
    /\ \A p \in WasmPods : wasmPods[p].status \in {"absent", "created", "running", "stopped", "deleted"}
    /\ \A c \in ContIds : modules[c].state \in {"absent", "created", "running", "stopped", "deleted"}
    /\ children \cup escaped \cup wasmZombies \subseteq 1..MaxWasmPid
    /\ funcs \subseteq ContIds /\ reaper \in {"waiting", "loop"}

\* The end of a container is never lost between the child or task, the reaper
\* and the pod's listener, although the reaper sleeps until it is signalled.
WasmExitNotLost ==
    \A c \in ContIds :
       LET m == modules[c] IN
       /\ m.state = "running" =>
            \/ m.pid \in children \cup escaped \cup wasmZombies
            \/ \E i \in 1..Len(exits) : exits[i] = m.pid
       /\ (engine = "wasmtime" /\ m.deadline # 0 /\ m.state = "created") =>
            c \in funcs \/ \E i \in 1..Len(exits) : exits[i] = c

\* A kill or a delete that came after the start reaches the function: its
\* deadline is not in the future any more, however many kills came before.
KillReachesFunc ==
    \A c \in funcs : modules[c].killed => modules[c].epoch >= modules[c].deadline
============================================================================
