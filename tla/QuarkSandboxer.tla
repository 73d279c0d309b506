--------------------------- MODULE QuarkSandboxer ---------------------------
(***************************************************************************)
(* The sandboxer for the quark runtime (src/quark/src).  A pod is a quark  *)
(* process and a base directory; a container is a bundle below it in which *)
(* the host mounts the root file system, the volumes and the io files of   *)
(* the container and of its exec processes.  The model keeps, for every    *)
(* mount point, how many mounts are stacked on it: the code mounts over a  *)
(* path again whenever it is asked to, and the clean-up has to get rid of  *)
(* all of them before it deletes the directory tree.                       *)
(*                                                                         *)
(* Requests are atomic: every one of them holds the mutex of the sandbox.  *)
(* Container ids are taken to have one length, as the CRI's ids have, so   *)
(* that no bundle path is a prefix of another one.                         *)
(***************************************************************************)
EXTENDS Naturals, FiniteSets

CONSTANTS
    QuarkPods,      \* sandbox ids
    QuarkConts,     \* container ids
    QuarkExecs,     \* exec process ids
    MaxStack,       \* bound: mounts stacked on one path when a request begins
    MaxSpawns,      \* bound: quark processes spawned for one pod
    MaxQuarkFaults  \* bound: system calls that fail

VARIABLES
    quarkPods,      \* pod -> the QuarkSandbox record and its base directory
    bundles,        \* <<pod, container>> -> QuarkContainer and its bundle
    stacked,        \* <<pod, container>> -> path below the bundle -> mounts
    spawned,        \* pod -> quark processes spawned so far
    strays,         \* pod -> quark processes alive that status does not name
    wiped,          \* volumes whose content a remove_dir_all deleted
    stuck,          \* bundles below which an unmount failed
    quarkFaults     \* failures so far

quarkVars == <<quarkPods, bundles, stacked, spawned, strays, wiped, stuck, quarkFaults>>

Bundles == QuarkPods \X QuarkConts
Paths == {"rootfs", "volume", "io"} \cup QuarkExecs

NoMounts == [x \in Paths |-> 0]
NoBundle == [dir |-> "none", tmp |-> FALSE, held |-> FALSE, processes |-> {}]
NoPod == [known |-> FALSE, dir |-> "none", status |-> "created", alive |-> FALSE]

\* A system call of the request fails.
QuarkFault == quarkFaults < MaxQuarkFaults /\ quarkFaults' = quarkFaults + 1
QuarkOk == quarkFaults' = quarkFaults

\* bind_mount and mount_rootfs: one more mount on top of each path of S.
BindMount(mounts, S) == [x \in Paths |-> mounts[x] + IF x \in S THEN 1 ELSE 0]

\* bind_unmount_io: the paths recorded in a process's io are the ones inside
\* the guest ("/<container>/<process>-stdin"), which do not exist on the host:
\* nothing is unmounted.
BindUnmountIo(mounts, S) == mounts

\* cleanup_mounts: one unmount for every line of /proc/mounts below the
\* directory, so one for every stacked mount; the paths of failed stay.
CleanupMounts(mounts, failed) == [x \in Paths |-> IF x \in failed THEN mounts[x] ELSE 0]

\* create: a fresh record takes the place of one that may still be there.
QuarkCreate(p) ==
    /\ quarkPods[p].dir # "ok"
    /\ quarkPods' = [quarkPods EXCEPT ![p] = [NoPod EXCEPT !.known = TRUE, !.dir = "ok"]]
    /\ strays' = [strays EXCEPT ![p] = @ + IF quarkPods[p].alive THEN 1 ELSE 0]
    /\ bundles' = [b \in Bundles |-> IF b[1] = p THEN [bundles[b] EXCEPT !.held = FALSE, !.processes = {}]
                                                 ELSE bundles[b]]
    /\ QuarkOk
    /\ UNCHANGED <<stacked, spawned, wiped, stuck>>

\* start: the spawned command daemonizes the quark process, whose pid the code
\* reads from a file.  No status is checked, and a pid file that cannot be read
\* leaves a process nobody knows.
QuarkStart(p) ==
    /\ quarkPods[p].known
    /\ spawned[p] < MaxSpawns
    /\ spawned' = [spawned EXCEPT ![p] = @ + 1]
    /\ \/ /\ QuarkOk
          /\ quarkPods' = [quarkPods EXCEPT ![p].status = "running", ![p].alive = TRUE]
          /\ strays' = [strays EXCEPT ![p] = @ + IF quarkPods[p].alive THEN 1 ELSE 0]
       \/ /\ QuarkFault
          /\ strays' = [strays EXCEPT ![p] = @ + 1]
          /\ UNCHANGED quarkPods
    /\ UNCHANGED <<bundles, stacked, wiped, stuck>>

\* The quark process ends by itself; nothing watches it.
QuarkDies(p) ==
    /\ \/ /\ quarkPods[p].alive
          /\ quarkPods' = [quarkPods EXCEPT ![p].alive = FALSE]
          /\ UNCHANGED strays
       \/ /\ strays[p] > 0
          /\ strays' = [strays EXCEPT ![p] = @ - 1]
          /\ UNCHANGED quarkPods
    /\ UNCHANGED <<bundles, stacked, spawned, wiped, stuck, quarkFaults>>

\* stop: kill the process the status names, if it names one; then the sandbox
\* is stopped and its exit signal raised.
QuarkStop(p) ==
    /\ quarkPods[p].known
    /\ quarkPods' = [quarkPods EXCEPT ![p].status = "stopped",
                                      ![p].alive = @ /\ quarkPods[p].status # "running"]
    /\ UNCHANGED <<bundles, stacked, spawned, strays, wiped, stuck, quarkFaults>>

\* remove_dir_all on a tree in which failed is still mounted: the walk goes
\* into the mounted volumes and deletes what they hold, and then stops at the
\* first mount point, which is busy.
Wiped(b, mounts) == IF mounts["volume"] > 0 THEN {b} ELSE {}
Busy(mounts) == \E x \in Paths : mounts[x] > 0

\* delete: unmount everything below the base directory and delete it.  The
\* sandbox stays in the map whatever happens.
QuarkDelete(p) ==
    /\ quarkPods[p].known
    /\ \E failed \in SUBSET Paths :
        LET mine  == {b \in Bundles : b[1] = p}
            after == [b \in Bundles |-> IF b \in mine THEN CleanupMounts(stacked[b], failed) ELSE stacked[b]]
            left  == {b \in mine : Busy(after[b])}
        IN  /\ stacked' = after
            /\ stuck' = stuck \cup left
            /\ wiped' = wiped \cup UNION {Wiped(b, after[b]) : b \in mine}
            /\ \/ /\ failed = {} /\ left = {} /\ quarkPods[p].dir # "none"
                  /\ QuarkOk
                  /\ quarkPods' = [quarkPods EXCEPT ![p].dir = "none"]
                  /\ bundles' = [b \in Bundles |-> IF b \in mine
                                    THEN [bundles[b] EXCEPT !.dir = "none", !.tmp = FALSE] ELSE bundles[b]]
               \/ /\ QuarkFault
                  /\ quarkPods' = [quarkPods EXCEPT ![p].dir = IF @ = "none" THEN @ ELSE "partial"]
                  /\ bundles' = [b \in Bundles |-> IF b \in mine /\ bundles[b].dir = "ok"
                                    THEN [bundles[b] EXCEPT !.dir = "partial"] ELSE bundles[b]]
    /\ UNCHANGED <<spawned, strays>>

\* write_file_atomic: the temporary file must not exist yet; a write that
\* fails after its creation leaves it there.
WriteFails(b) == bundles[b].tmp

\* append_container: root file system, bind volumes and io are mounted one
\* after the other, then the spec is written; an error returns at once and
\* undoes nothing.
AppendContainer(b) ==
    /\ quarkPods[b[1]].known
    /\ \A x \in Paths : stacked[b][x] < MaxStack
    /\ \/ /\ ~WriteFails(b)
          /\ QuarkOk
          /\ stacked' = [stacked EXCEPT ![b] = BindMount(@, {"rootfs", "volume", "io"})]
          /\ bundles' = [bundles EXCEPT ![b] = [dir |-> "ok", tmp |-> FALSE, held |-> TRUE, processes |-> {}]]
       \/ \E done \in {{}, {"rootfs"}, {"rootfs", "volume"}, {"rootfs", "volume", "io"}}, t \in BOOLEAN :
            /\ t => done = {"rootfs", "volume", "io"}
            /\ WriteFails(b) /\ t => quarkFaults' = quarkFaults
            /\ ~(WriteFails(b) /\ t) => QuarkFault
            /\ stacked' = [stacked EXCEPT ![b] = BindMount(@, done)]
            /\ bundles' = [bundles EXCEPT ![b].dir = IF @ = "none" THEN "partial" ELSE @,
                                          ![b].tmp = @ \/ t]
    /\ quarkPods' = [quarkPods EXCEPT ![b[1]].dir = IF @ = "none" THEN "partial" ELSE @]
    /\ UNCHANGED <<spawned, strays, wiped, stuck>>

\* update_container with the processes S: all the processes recorded before
\* are forgotten (the push of the id is outside the test for removal), so every
\* process of S is mounted as a new one.
UpdateContainer(b, S) ==
    /\ bundles[b].held
    /\ \A x \in Paths : stacked[b][x] < MaxStack
    /\ LET removed == BindUnmountIo(stacked[b], bundles[b].processes \ S)
       IN  \/ /\ bundles[b].dir # "none"
              /\ QuarkOk
              /\ stacked' = [stacked EXCEPT ![b] = BindMount(removed, S)]
              /\ bundles' = [bundles EXCEPT ![b].processes = S]
           \/ \E done \in SUBSET S :
                /\ bundles[b].dir = "none" => done = {}
                /\ QuarkFault
                /\ stacked' = [stacked EXCEPT ![b] = BindMount(removed, done)]
                /\ bundles' = [bundles EXCEPT ![b].processes = {}]
    /\ UNCHANGED <<quarkPods, spawned, strays, wiped, stuck>>

\* remove_container: unmount everything below the bundle and delete it; the
\* container is only forgotten when the directory is gone.
RemoveContainer(b) ==
    /\ quarkPods[b[1]].known
    /\ \E failed \in SUBSET Paths :
        LET after == CleanupMounts(stacked[b], failed)
        IN  /\ stacked' = [stacked EXCEPT ![b] = after]
            /\ stuck' = stuck \cup IF Busy(after) /\ failed # {} THEN {b} ELSE {}
            /\ wiped' = wiped \cup Wiped(b, after)
            /\ \/ /\ failed = {} /\ ~Busy(after) /\ bundles[b].dir # "none"
                  /\ QuarkOk
                  /\ bundles' = [bundles EXCEPT ![b] = NoBundle]
               \/ /\ QuarkFault
                  /\ bundles' = [bundles EXCEPT ![b].dir = IF @ = "ok" THEN "partial" ELSE @]
    /\ UNCHANGED <<quarkPods, spawned, strays>>

QuarkInit ==
    /\ quarkPods = [p \in QuarkPods |-> NoPod]
    /\ bundles = [b \in Bundles |-> NoBundle]
    /\ stacked = [b \in Bundles |-> NoMounts]
    /\ spawned = [p \in QuarkPods |-> 0]
    /\ strays = [p \in QuarkPods |-> 0]
    /\ wiped = {} /\ stuck = {}
    /\ quarkFaults = 0

QuarkNext ==
    \/ \E p \in QuarkPods : QuarkCreate(p) \/ QuarkStart(p) \/ QuarkDies(p) \/ QuarkStop(p) \/ QuarkDelete(p)
    \/ \E b \in Bundles : AppendContainer(b) \/ RemoveContainer(b)
    \/ \E b \in Bundles, S \in SUBSET QuarkExecs : UpdateContainer(b, S)

QuarkSpec == QuarkInit /\ [][QuarkNext]_quarkVars

-----------------------------------------------------------------------------
\* Every variable keeps its type.
QuarkTypeOK ==
    /\ quarkPods \in [QuarkPods -> [known : BOOLEAN, dir : {"none", "ok", "partial"},
                                    status : {"created", "running", "stopped"}, alive : BOOLEAN]]
    /\ bundles \in [Bundles -> [dir : {"none", "ok", "partial"}, tmp : BOOLEAN,
                                held : BOOLEAN, processes : SUBSET QuarkExecs]]
    /\ stacked \in [Bundles -> [Paths -> 0..MaxStack]]
    /\ spawned \in [QuarkPods -> 0..MaxSpawns]
    /\ strays \in [QuarkPods -> 0..MaxSpawns]
    /\ wiped \subseteq Bundles /\ stuck \subseteq Bundles
    /\ quarkFaults \in 0..MaxQuarkFaults

\* As long as no removal has begun to take its bundle down, a container the sandbox
\* lists has its root file system, its volumes and the io of every recorded
\* process mounted, whatever updates came before and wherever they failed.
RecordedIsMounted ==
    \A b \in Bundles : bundles[b].held /\ bundles[b].dir = "ok" =>
        \A x \in {"rootfs", "volume", "io"} \cup bundles[b].processes : stacked[b][x] > 0

\* remove_dir_all never walks into a mounted volume of the pod unless the
\* kernel refused to unmount something below that bundle: the clean-up removes
\* every mount stacked on a path, and not only the topmost one.
VolumesSpared == wiped \subseteq stuck
=============================================================================
