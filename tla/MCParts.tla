------------------------------- MODULE MCParts -------------------------------
(***************************************************************************)
(* One instance of every component that is checked by itself.  A behaviour *)
(* is one of the component that part names, and the variables x1 .. x15    *)
(* stand for that component's variables; the rest of them are not used.    *)
(* The modules extended here have variables of their own.                  *)
(***************************************************************************)
EXTENDS PodResources, MountOptions, WarmForkInjection, HotPlug

CONSTANTS None, NoTask, Main, First, Free, u1, u2, v1, v2

VARIABLES part, x1, x2, x3, x4, x5, x6, x7, x8, x9, x10, x11, x12, x13, x14, x15

\* Two things of a kind that the components do not tell apart.
Twins == {u1, u2}
Pair == {v1, v2}
Symmetry == Permutations(Twins) \cup Permutations(Pair)

\* Containers with an overlay over one of two layers and a shared large directory,
\* with a block device, a small file and a tmpfs, and with special mounts only.
Overlay(l) == [src |-> "overlay", type |-> "overlay", lower |-> l, kind |-> "overlay", ro |-> FALSE]
Bind(s, k, ro) == [src |-> s, type |-> "bind", lower |-> None, kind |-> k, ro |-> ro]
StorageOptions ==
  {[rootfs |-> <<Overlay("l1")>>, mounts |-> <<Bind("d", "largedir", TRUE)>>, pipes |-> 1],
   [rootfs |-> <<Overlay("l2")>>, mounts |-> <<Bind("d", "largedir", TRUE)>>, pipes |-> 0],
   [rootfs |-> <<Bind("k", "block", FALSE)>>,
    mounts |-> <<Bind("f", "file", FALSE), Bind("t", "tmpfs", FALSE)>>, pipes |-> 0],
   [rootfs |-> <<>>, mounts |-> <<Bind("s", "shm", FALSE), Bind("x", "special", FALSE)>>, pipes |-> 0]}

\* The storages of a restored container that nobody has adopted yet.
RestoredStorage(m, n) ==
  [id |-> n, host |-> m.src, type |-> m.type, lower |-> m.lower, via |-> "image",
   ident |-> IF m.lower # None THEN <<"overlay", m.lower>> ELSE <<m.type, m.src>>,
   dev |-> n + 1, guest |-> TRUE,
   refs |-> [c \in Twins \cup {"orphan"} |-> IF c = "orphan" THEN 1 ELSE 0]]
RestoredStorages ==
  <<RestoredStorage(Overlay("l1"), 1), RestoredStorage(Bind("d", "largedir", TRUE), 3)>>

\* Three interfaces; a default route before the route to its gateway, one by a network
\* of an interface, and one that leaves by another interface than its gateway's.
OnHost == [n \in {"n1", "n2", "n3"} |-> IF n = "n1" THEN "e1" ELSE IF n = "n2" THEN "e2" ELSE "e3"]
Route(d, n, v) == [dest |-> d, dev |-> n, via |-> v]
SomeRoutes ==
  {<<Route("default", "n1", "gateway"), Route("gateway", "n1", "direct")>>,
   <<Route("default", "n2", "n2"), Route("n2", "n2", "direct")>>,
   <<Route("default", "n1", "n2")>>}

GT == INSTANCE GuestTasks WITH
       NewIds <- Twins, Restored <- {"r"}, Execs <- {"e"},
       Mounts <- [c \in Twins |-> <<[mp |-> "m", dev |-> "d"]>>], Devices <- {"d"},
       MaxPid <- 3, MaxFailed <- 1,
       tasks <- x1, adoptions <- x2, handoff <- x3, fresh <- x4, procs <- x5, npid <- x6, runcs
       <- x7, exits <- x8, refs <- x9, mountpoints <- x10, plugged <- x11, cache <- x12, subs
       <- x13, failed <- x14, req <- x15
CS == INSTANCE ContainerStorage WITH
       Containers <- Twins, Orphans <- {"orphan"}, Options <- StorageOptions,
       Processes <- {"p"}, Restored <- RestoredStorages, Backends <- {"virtiofs", "virtio-blk"},
       MaxIds <- 4, MaxFaults <- 1,
       policy <- x1, containers <- x2, storages <- x3, orphans <- x4, ids <- x5, mounted <- x6,
       images <- x7, devices <- x8, faults <- x9, job <- x10
CT == INSTANCE ContinuationStore WITH
       Tasks <- Twins, Sandboxes <- Pair, Identities <- {"i"}, Templates <- {"t"},
       IdentityOf <- [t \in {"t"} |-> "i"], Disked <- {}, ConcurrentStarts <- FALSE,
       AdminDeletes <- FALSE, IoErrors <- FALSE, MaxCrashes <- 1,
       entry <- x1, consumed <- x2, disks <- x3, sandbox <- x4, vm <- x5, orphans <- x6, dumped
       <- x7, task <- x8, gc <- x9, phase <- x10, crashes <- x11
VM == INSTANCE VmProcess WITH
       Disks <- {"d1", "d2"}, MaxLaunch <- 2, MaxVmFaults <- 2,
       hypervisor <- x1, vmms <- x2, fsds <- x3, dying <- x4, paused <- x5, handles <- x6,
       disks <- x7, launch <- x8, booted <- x9, call <- x10, outcome <- x11, stuck <- x12,
       vmFaults <- x13
CK == INSTANCE ClockSync WITH
       MaxSkew <- 6, MaxDelay <- 2, Tolerance <- 1, Width <- 8, MaxRounds <- 2,
       skew <- x1, before <- x2, now <- x3, packet <- x4, clock <- x5, rounds <- x6
GN == INSTANCE GuestNetwork WITH
       Nics <- {"n1", "n2", "n3"}, Names <- {"e1", "e2", "e3"}, HostName <- OnHost,
       RouteLists <- SomeRoutes, MaxNetFaults <- 1, MaxUpdates <- 2,
       links <- x1, table <- x2, live <- x3, request <- x4, answer <- x5, asked <- x6, updates
       <- x7, netFaults <- x8
SH == INSTANCE ShimServer WITH
       Tasks <- Twins, Execs <- {"e1"}, MaxPort <- 3, MaxStreams <- 2,
       MaxShimFaults <- 1,
       shim <- x1, life <- x2, box <- x3, files <- x4, client <- x5, extension <- x6, sent <- x7, known <- x8, portmap <- x9, guest <- x10, lock <- x11, rpc <- x12, shimFaults <- x13
RS == INSTANCE RuncSandboxer WITH
       Pods <- {"p1", "p2"}, SharedPid <- {"p1"}, MaxForks <- 3, MaxRuncFaults <- 2,
       sandboxer <- x1, parent <- x2, pods <- x3, dumped <- x4, nsMounts <- x5, owner <- x6,
       running <- x7, starting <- x8, lost <- x9, runcFaults <- x10
RT == INSTANCE RuncTaskServer WITH
       Conts <- Twins, ContExecs <- {"e1"}, MaxRunPid <- 2, MaxTaskFaults <- 1,
       server <- x1, sandboxerUp <- x2, shared <- x3, table <- x4, holder <- x5, rootfs <- x6,
       alive <- x7, zombies <- x8, events <- x9, copies <- x10, signalled <- x11, taskFaults <- x12
WS == INSTANCE WasmSandboxer WITH
       WasmPods <- Twins, Modules <- {"m1"}, MaxEpoch <- 2, MaxWasmPid <- 3,
       MaxWasmFaults <- 1,
       engine <- x1, wasmPods <- x2, modules <- x3, children <- x4, escaped <- x5, wasmZombies
       <- x6, lastPid <- x7, funcs <- x8, exits <- x9, reaper <- x10, wasmFaults <- x11
QK == INSTANCE QuarkSandboxer WITH
       QuarkPods <- {"p1"}, QuarkConts <- {"c1"}, QuarkExecs <- {"e1"}, MaxStack <- 2,
       MaxSpawns <- 1, MaxQuarkFaults <- 2,
       quarkPods <- x1, bundles <- x2, stacked <- x3, spawned <- x4, strays <- x5, wiped <- x6,
       stuck <- x7, quarkFaults <- x8

-----------------------------------------------------------------------------
\* The variables from the n-th on are not the component's.
Unused14 == x14 = None /\ x15 = None
Unused13 == x13 = None /\ Unused14
Unused12 == x12 = None /\ Unused13
Unused11 == x11 = None /\ Unused12
Unused9 == x9 = None /\ x10 = None /\ Unused11
Unused7 == x7 = None /\ x8 = None /\ Unused9
Unused1 == x1 = None /\ x2 = None /\ x3 = None /\ x4 = None /\ x5 = None /\ x6 = None /\ Unused7

\* The injection and the hot-plug when they are not the part that runs.
NoInjection == InjectInit /\ autonomous /\ work = [t \in Targets |-> "accept"]
NoPlugging == PlugInit /\ machine = "qemu"


PartsInit ==
  \/ part = "tasks" /\ GT!TaskInit /\ NoInjection /\ NoPlugging /\ PodInit /\ MountInit
  \/ part = "storage" /\ CS!Init /\ Unused11 /\ NoInjection /\ NoPlugging /\ PodInit /\ MountInit
  \/ part = "continuation" /\ CT!Init /\ Unused12 /\ NoInjection /\ NoPlugging /\ PodInit /\ MountInit
  \/ part = "process" /\ VM!VmInit /\ Unused14 /\ NoInjection /\ NoPlugging /\ PodInit /\ MountInit
  \/ part = "plug" /\ PlugInit /\ Unused1 /\ NoInjection /\ PodInit /\ MountInit
  \/ part = "inject" /\ InjectInit /\ Unused1 /\ NoPlugging /\ PodInit /\ MountInit
  \/ part = "clock" /\ CK!ClockInit /\ Unused7 /\ NoInjection /\ NoPlugging /\ PodInit /\ MountInit
  \/ part = "cgroups" /\ PodInit /\ Unused1 /\ NoInjection /\ NoPlugging /\ MountInit
  \/ part = "mount" /\ MountInit /\ Unused1 /\ NoInjection /\ NoPlugging /\ PodInit
  \/ part = "network" /\ GN!NetInit /\ Unused9 /\ NoInjection /\ NoPlugging /\ PodInit /\ MountInit
  \/ part = "shim" /\ SH!ShimInit /\ Unused14 /\ NoInjection /\ NoPlugging /\ PodInit /\ MountInit
  \/ part = "runc" /\ RS!RuncInit /\ Unused11 /\ NoInjection /\ NoPlugging /\ PodInit /\ MountInit
  \/ part = "runctask" /\ RT!RuncTaskInit /\ Unused13 /\ NoInjection /\ NoPlugging /\ PodInit /\ MountInit
  \/ part = "wasm" /\ WS!WasmInit /\ Unused12 /\ NoInjection /\ NoPlugging /\ PodInit /\ MountInit
  \/ part = "quark" /\ QK!QuarkInit /\ Unused9 /\ NoInjection /\ NoPlugging /\ PodInit /\ MountInit

PartsNext ==
  \/ part = "tasks" /\ GT!TaskNext /\ UNCHANGED <<part, injectVars, plugVars, podVars, mountVars>>
  \/ part = "storage" /\ CS!Next /\ UNCHANGED <<part, injectVars, plugVars, podVars, mountVars, x11, x12, x13, x14, x15>>
  \/ part = "continuation" /\ CT!Next /\ UNCHANGED <<part, injectVars, plugVars, podVars, mountVars, x12, x13, x14, x15>>
  \/ part = "process" /\ VM!VmNext /\ UNCHANGED <<part, injectVars, plugVars, podVars, mountVars, x14, x15>>
  \/ part = "plug" /\ PlugNext /\ UNCHANGED <<part, injectVars, podVars, mountVars, x1, x2, x3, x4, x5, x6, x7, x8, x9, x10, x11, x12, x13, x14, x15>>
  \/ part = "inject" /\ InjectNext /\ UNCHANGED <<part, plugVars, podVars, mountVars, x1, x2, x3, x4, x5, x6, x7, x8, x9, x10, x11, x12, x13, x14, x15>>
  \/ part = "clock" /\ CK!ClockNext /\ UNCHANGED <<part, injectVars, plugVars, podVars, mountVars, x7, x8, x9, x10, x11, x12, x13, x14, x15>>
  \/ part = "cgroups" /\ PodNext /\ UNCHANGED <<part, injectVars, plugVars, mountVars, x1, x2, x3, x4, x5, x6, x7, x8, x9, x10, x11, x12, x13, x14, x15>>
  \/ part = "mount" /\ MountNext /\ UNCHANGED <<part, injectVars, plugVars, podVars, x1, x2, x3, x4, x5, x6, x7, x8, x9, x10, x11, x12, x13, x14, x15>>
  \/ part = "network" /\ GN!NetNext /\ UNCHANGED <<part, injectVars, plugVars, podVars, mountVars, x9, x10, x11, x12, x13, x14, x15>>
  \/ part = "shim" /\ SH!ShimNext /\ UNCHANGED <<part, injectVars, plugVars, podVars, mountVars, x14, x15>>
  \/ part = "runc" /\ RS!RuncNext /\ UNCHANGED <<part, injectVars, plugVars, podVars, mountVars, x11, x12, x13, x14, x15>>
  \/ part = "runctask" /\ RT!RuncTaskNext /\ UNCHANGED <<part, injectVars, plugVars, podVars, mountVars, x13, x14, x15>>
  \/ part = "wasm" /\ WS!WasmNext /\ UNCHANGED <<part, injectVars, plugVars, podVars, mountVars, x12, x13, x14, x15>>
  \/ part = "quark" /\ QK!QuarkNext /\ UNCHANGED <<part, injectVars, plugVars, podVars, mountVars, x9, x10, x11, x12, x13, x14, x15>>

PartsSpec == PartsInit /\ [][PartsNext]_<<part, injectVars, plugVars, podVars, mountVars, x1, x2, x3, x4, x5, x6, x7, x8, x9, x10, x11, x12, x13, x14, x15>>

-----------------------------------------------------------------------------
(* The properties of the components' modules. *)

\* The state of each component has its type.
PartsTypeOK ==
  /\ part = "tasks" => GT!TaskTypeOK
  /\ part = "storage" => CS!TypeOK
  /\ part = "continuation" => CT!TypeOK
  /\ part = "process" => VM!VmTypeOK
  /\ part = "plug" => PlugTypeOK
  /\ part = "inject" => InjectTypeOK
  /\ part = "clock" => CK!ClockTypeOK
  /\ part = "cgroups" => PodTypeOK
  /\ part = "network" => GN!NetTypeOK
  /\ part = "shim" => SH!ShimTypeOK
  /\ part = "runc" => RS!RuncTypeOK
  /\ part = "runctask" => RT!RuncTaskTypeOK
  /\ part = "wasm" => WS!WasmTypeOK
  /\ part = "quark" => QK!QuarkTypeOK

\* No exit is lost: of a process of the guest, of a runc container or exec, of a
\* Wasm module.
ExitsReported ==
  /\ part = "tasks" => GT!ExitIsPending
  /\ part = "runctask" => RT!ExitNotLost
  /\ part = "wasm" => WS!WasmExitNotLost


\* A restored workload runs once: one VM runs from a continuation at a time, and in
\* the guest one container has its process.
WorkloadRunsOnce ==
  /\ part = "tasks" => GT!WorkloadRunsOnce
  /\ part = "continuation" => CT!RunsOnce



\* A restore takes all the disks or none, and a snapshot leaves the VM running.
SnapshotsWhole ==
  part = "process" => VM!DisksMoveTogether /\ VM!SnapshotResumes



\* A mount that succeeds has the options asked for: of contrary ones the last, the
\* read-only flag of a bind mount and the propagation.
MountsHonoured ==
  part = "mount" => LastWordDecides /\ ReadOnlyHonoured /\ PropagationHonoured


=============================================================================
