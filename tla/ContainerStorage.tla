-------------------------- MODULE ContainerStorage --------------------------
(***************************************************************************)
(* Containers of one VM sandbox: append_container, update_container and     *)
(* remove_container, the chain of handlers they run and roll back, and the  *)
(* storages (DeviceGraph) their mounts attach, share and release.           *)
(*                                                                          *)
(* The sandbox's mutex is held for a whole request, so requests do not      *)
(* interleave; what makes them hard is that every handler, and every step   *)
(* inside one, may fail.  A device id, a storage id and a pipe's id are the *)
(* numbers that increment_and_get_id hands out.                             *)
(***************************************************************************)
EXTENDS Naturals, Sequences, SequencesExt, FiniteSets

CONSTANTS
  Containers,   \* ids that containerd gives to containers
  Orphans,      \* ids of the containers a restored snapshot was running
  Options,      \* ContainerOptions: [rootfs, mounts, pipes]
  Processes,    \* ids of exec processes
  Restored,     \* the storages a restored snapshot brings
  Backends,     \* the storage backends a sandbox may be configured with
  MaxIds,       \* bound: ids handed out before a request
  MaxFaults,    \* bound: calls that fail
  None

VARIABLES
  policy,      \* storage_policy: [backend, allowLarge]
  containers,  \* sandbox.containers: None, or [opt, root, uses, io, procs]
  storages,    \* sandbox.storages, in order
  orphans,     \* restore.orphan_container_ids
  ids,         \* id_generator
  mounted,     \* host: ids of storages mounted in the shared directory
  images,      \* host: ids of storages with an image file
  devices,     \* VM: attached devices, [id, kind]
  faults,      \* calls that have failed
  job          \* the request that holds the sandbox, and its handler chain

vars == <<policy, containers, storages, orphans, ids, mounted, images, devices, faults, job>>

ContainerIds == Containers \cup Orphans

IdleJob == [pc |-> "idle", c |-> None, opt |-> None, hs |-> <<>>, i |-> 0]

\* A step in which a call fails, or does not.
Fault(fails) ==
  /\ faults' = faults + (IF fails THEN 1 ELSE 0)
  /\ faults' <= MaxFaults

-----------------------------------------------------------------------------
(* Storages and the mounts they serve. *)

\* source_identity_for_mount
Identity(m) ==
  IF m.lower # None THEN <<"overlay", m.lower>>
  ELSE IF m.src # None THEN <<m.type, m.src>> ELSE None

IsForMount(s, m) == s.host = m.src /\ s.type = m.type

\* storage_matches_mount: by identity when both have one, else by source, else
\* by the image layers.
Matches(s, m, root) ==
  IF s.ident # None /\ Identity(m) # None
  THEN s.ident = Identity(m) /\ s.type = m.type
  ELSE \/ ~root /\ IsForMount(s, m)
       \/ s.lower # None /\ s.lower = m.lower /\ s.type = m.type

Refers(s, c) == s.refs[c] > 0
Refer(s, c) == [s EXCEPT !.refs[c] = @ + 1]
Defer(s, c) == [s EXCEPT !.refs[c] = 0]
Unreferenced(s) == \A c \in ContainerIds : ~Refers(s, c)

\* The identity each handler records for what it attached.
StoredIdentity(m, via) ==
  CASE via = "block" -> <<"block", m.src>>
    [] via = "tmpfs" -> <<"tmpfs", m.src>>
    [] m.type = "overlay" -> IF m.lower = None THEN None ELSE <<"overlay", m.lower>>
    [] OTHER -> <<"bind", m.src>>

NewStorage(m, via, id, dev, c) ==
  [id |-> id, host |-> m.src, type |-> m.type, lower |-> m.lower, via |-> via,
   ident |-> StoredIdentity(m, via), dev |-> dev,
   guest |-> via \in {"block", "image", "tmpfs"},
   refs |-> [x \in ContainerIds |-> IF x = c THEN 1 ELSE 0]]

\* What attach_storage may come to for a mount that no storage serves: the ids it
\* consumed, what it attached, and on failure what it leaves on the host or the VM.
Result(ok, used, via, left) == [ok |-> ok, used |-> used, via |-> via, left |-> left]
Fails(used, left) == Result(FALSE, used, "nothing", left)
Attached(used, via) == Result(TRUE, used, via, "nothing")

\* LocalBlockProvider::prepare removes the image when building or filling it fails,
\* and BlockAttachTransaction::attach releases it when the hotplug fails.
PrepareFails == Fails(1, "nothing")
HotplugResults == {Fails(2, "nothing"), Attached(2, "image")}
ImageResults == {PrepareFails} \cup HotplugResults

\* scan_dir and the thresholds tell small directories from large ones; what is
\* small is pushed into the guest file by file, and one push may fail.
Small(m) == m.kind \in {"file", "smalldir"}
InjectResults == {Fails(1, "nothing"), Attached(1, "file")}

BindBlkResults(m, root) ==
  CASE Small(m) /\ ~root -> InjectResults
    [] m.kind = "largedir" /\ policy.allowLarge -> ImageResults
    [] OTHER -> {Fails(1, "nothing")}

\* bind_mount mounts first and remounts read-only after.
BindResults(m) ==
  {Fails(1, "nothing")}
  \cup (IF m.kind = "special" THEN {} ELSE {Attached(1, "bind")})
  \cup (IF m.kind # "special" /\ m.ro THEN {Fails(1, "mount")} ELSE {})

\* get_fstype runs after the hotplug.
BlockResults == {Fails(2, "nothing"), Fails(2, "device"), Attached(2, "block")}

TmpfsResults == {Fails(1, "nothing"), Attached(1, "tmpfs")}
OverlayResults == {Fails(1, "nothing"), Attached(1, "bind")}

AttachResults(m, root) ==
  CASE m.kind = "block" -> BlockResults
    [] m.kind = "tmpfs" -> TmpfsResults
    [] m.kind = "shm" -> {Attached(1, "nothing")}
    [] m.type = "bind" /\ m.kind # "shm" ->
         IF policy.backend = "virtio-blk" THEN BindBlkResults(m, root) ELSE BindResults(m)
    [] m.type = "overlay" ->
         IF policy.backend = "virtio-blk" THEN ImageResults ELSE OverlayResults
    [] OTHER -> {Attached(1, "nothing")}

\* What the policy or the mount's kind refuses fails without any call failing.
Refused(m, root) == \A r \in AttachResults(m, root) : ~r.ok

-----------------------------------------------------------------------------
(* gc_storages detaches the unreferenced storages in order and stops at the *)
(* first that cannot be detached; detach_storage may fail before it did     *)
(* anything, or after it unmounted.                                         *)

Collectable(sts) == SelectSeq(sts, Unreferenced)

GcResults(sts) ==
  LET zero == Collectable(sts)
      Prefix(n) == {zero[k].id : k \in 1..n}
      Without(n) == SelectSeq(sts, LAMBDA s : s.id \notin Prefix(n))
      Stop(n, unmounts) ==
        [ok |-> n = Len(zero), gone |-> Prefix(n), left |-> Without(n),
         unmounted |-> IF unmounts THEN {zero[n + 1].id} ELSE {}]
  IN  {Stop(n, FALSE) : n \in 0..Len(zero)}
      \cup {Stop(n, TRUE) : n \in {k \in 0..(Len(zero) - 1) : zero[k + 1].via = "bind"}}

\* The devices of storages that were detached.
DevicesOf(gone) ==
  {storages[k].dev : k \in {j \in DOMAIN storages : storages[j].id \in gone}}

GcEffect(r) ==
  /\ Fault(~r.ok)
  /\ storages' = r.left
  /\ mounted' = mounted \ (r.gone \cup r.unmounted)
  /\ images' = images \ r.gone
  /\ devices' = {d \in devices : d.id \notin DevicesOf(r.gone)}

-----------------------------------------------------------------------------
(* The handler chain. *)

Handler(h) == [h |-> h, m |-> None, root |-> FALSE, p |-> None]
MountHandler(m, root) == [Handler("mount") EXCEPT !.m = m, !.root = root]
ProcHandler(h, p) == [Handler(h) EXCEPT !.p = p]

\* container_append_handlers
AppendChain(opt) ==
  <<Handler("metadata"), Handler("namespace")>>
  \o [k \in DOMAIN opt.rootfs |-> MountHandler(opt.rootfs[k], TRUE)]
  \o [k \in DOMAIN opt.mounts |-> MountHandler(opt.mounts[k], FALSE)]
  \o <<Handler("storage")>>
  \o (IF opt.pipes > 0 THEN <<Handler("io")>> ELSE <<>>)
  \o <<Handler("spec")>>

\* container_update_handlers
UpdateChain(c, procs) ==
  LET have == DOMAIN containers[c].procs IN
  SetToSeq({ProcHandler("procremove", p) : p \in have \ procs})
  \o SetToSeq({ProcHandler("proc", p) : p \in procs \ have})

Current == job.hs[job.i]
At(h) == job.pc = "handle" /\ Current.h = h
BackAt(h) == job.pc = "rollback" /\ Current.h = h

\* A handler that succeeded; after the last one the request dumps the sandbox.
Handled == job' = IF job.i = Len(job.hs) THEN IdleJob ELSE [job EXCEPT !.i = @ + 1]
Succeeds == Handled /\ Fault(FALSE)


\* A handler that failed: finished_index is that of the last handler that
\* succeeded, and 0 when there is none.
Failed == job' = [job EXCEPT !.pc = "rollback", !.i = IF @ = 1 THEN 1 ELSE @ - 1]

\* ... because a call in it did.
CallFails == Failed /\ Fault(TRUE)

RolledBack == job' = IF job.i = 1 THEN IdleJob ELSE [job EXCEPT !.i = @ - 1]

NewContainer(opt) ==
  [opt |-> opt, root |-> None, uses |-> {}, io |-> {}, procs |-> << >>]

AppendContainer(c, opt) ==
  /\ job.pc = "idle" /\ containers[c] = None
  /\ ids <= MaxIds
  /\ job' = [pc |-> "handle", c |-> c, opt |-> opt, hs |-> AppendChain(opt), i |-> 1]
  /\ UNCHANGED <<policy, containers, storages, orphans, ids, mounted, images, devices, faults>>

UpdateContainer(c, procs) ==
  /\ job.pc = "idle" /\ containers[c] # None
  /\ UpdateChain(c, procs) # <<>>
  /\ ids <= MaxIds
  /\ job' = [pc |-> "handle", c |-> c, opt |-> None, hs |-> UpdateChain(c, procs), i |-> 1]
  /\ UNCHANGED <<policy, containers, storages, orphans, ids, mounted, images, devices, faults>>

MetadataAdd ==
  /\ At("metadata")
  /\ \/ /\ containers' = [containers EXCEPT ![job.c] = NewContainer(job.opt)]
        /\ Succeeds
     \/ CallFails /\ UNCHANGED containers
  /\ UNCHANGED <<policy, storages, orphans, ids, mounted, images, devices>>

MetadataRollback ==
  /\ BackAt("metadata")
  /\ containers' = [containers EXCEPT ![job.c] = None]
  /\ RolledBack
  /\ UNCHANGED <<policy, storages, orphans, ids, mounted, images, devices, faults>>

\* The namespace handler only rewrites the spec, and rolls nothing back.
Namespaces ==
  /\ \/ At("namespace") /\ Handled
     \/ BackAt("namespace") /\ RolledBack
  /\ UNCHANGED <<policy, containers, storages, orphans, ids, mounted, images, devices, faults>>

\* Mutant: orphans are looked for with the root file system only.
OrphansForRoot(m, root) ==
  {o \in orphans : root /\ \E k \in DOMAIN storages :
                             Matches(storages[k], m, root) /\ Refers(storages[k], o)}

\* find_orphan_for_mount: an orphan of the first matching storage that has one.
OrphansFor(m, root) ==
  LET held(s) == {o \in orphans : Refers(s, o)}
      k == SelectInSeq(storages, LAMBDA s : Matches(s, m, root) /\ held(s) # {})
  IN  IF k = 0 THEN {} ELSE held(storages[k])

ReusableIndex(m, root) == SelectInSeq(storages, LAMBDA s : Matches(s, m, root))

\* A restored container already runs on the storage: the guest renames it, and
\* its reference passes to the new container.
AdoptOrphan ==
  /\ At("mount")
  /\ \E o \in OrphansFor(Current.m, Current.root) :
       LET k == ReusableIndex(Current.m, Current.root) IN
       \/ /\ storages' = [storages EXCEPT ![k] = Refer(Defer(@, o), job.c)]
          /\ orphans' = orphans \ {o}
          /\ Succeeds
       \/ CallFails /\ UNCHANGED <<storages, orphans>>
  /\ UNCHANGED <<policy, containers, ids, mounted, images, devices>>

ReuseStorage ==
  /\ At("mount")
  /\ OrphansFor(Current.m, Current.root) = {}
  /\ LET k == ReusableIndex(Current.m, Current.root) IN
       /\ k # 0
       /\ storages' = [storages EXCEPT ![k] = Refer(@, job.c)]
  /\ Handled
  /\ UNCHANGED <<policy, containers, orphans, ids, mounted, images, devices, faults>>

\* A mount that no storage serves.
AttachStorage ==
  /\ At("mount")
  /\ OrphansFor(Current.m, Current.root) = {}
  /\ ReusableIndex(Current.m, Current.root) = 0
  /\ \E r \in AttachResults(Current.m, Current.root) :
       LET id == ids + 1
           dev == IF r.used = 2 THEN ids + 2 ELSE 0
           has(via) == r.via = via \/ (via = "bind" /\ r.left = "mount")
       IN  /\ ids' = ids + r.used
           /\ storages' = IF r.ok /\ r.via # "nothing"
                          THEN Append(storages, NewStorage(Current.m, r.via, id, dev, job.c))
                          ELSE storages
           /\ mounted' = IF has("bind") THEN mounted \cup {id} ELSE mounted
           /\ images' = IF has("image") THEN images \cup {id} ELSE images
           /\ devices' = IF r.via \in {"block", "image"} \/ r.left = "device"
                         THEN devices \cup {[id |-> dev, kind |-> IF r.via = "image"
                                                                  THEN "image" ELSE "block"]}
                         ELSE devices
           /\ IF r.ok THEN Handled ELSE Failed
           /\ Fault(~r.ok /\ ~Refused(Current.m, Current.root))
  /\ UNCHANGED <<policy, containers, orphans>>

\* deference_storage; a failure of its gc_storages is only logged.
MountRollback ==
  /\ BackAt("mount")
  /\ LET k == SelectInSeq(storages, LAMBDA s : IsForMount(s, Current.m) /\ Refers(s, job.c))
         sts == IF k = 0 THEN storages ELSE [storages EXCEPT ![k] = Defer(@, job.c)]
     IN  \E r \in GcResults(sts) : GcEffect(r)
  /\ RolledBack
  /\ UNCHANGED <<policy, containers, orphans, ids>>

\* The storage that serves a mount: the first that is for it.
ServedBy(m) == SelectInSeq(storages, LAMBDA s : IsForMount(s, m))

\* StorageHandler: the container's mounts and root are pointed at storages; a
\* rootfs mount must have one.  The storages are written to a file.
UseStorages ==
  /\ At("storage")
  /\ LET opt == containers[job.c].opt
         mounts == {opt.mounts[k] : k \in DOMAIN opt.mounts}
         roots == {opt.rootfs[k] : k \in DOMAIN opt.rootfs}
         used == {ServedBy(m) : m \in mounts \cup roots} \ {0}
     IN  \/ /\ \A m \in roots : ServedBy(m) # 0
            /\ containers' = [containers EXCEPT
                 ![job.c].uses = {storages[k].id : k \in used},
                 ![job.c].root = IF opt.rootfs = <<>> THEN None
                                 ELSE storages[ServedBy(Last(opt.rootfs))].id]
            /\ Succeeds
         \/ CallFails /\ UNCHANGED containers
  /\ UNCHANGED <<policy, storages, orphans, ids, mounted, images, devices>>

StorageRollback ==
  /\ BackAt("storage")
  /\ RolledBack
  /\ UNCHANGED <<policy, containers, storages, orphans, ids, mounted, images, devices, faults>>

\* hot_attach_pipe, called for n pipes.
Pipes(n) == {[id |-> ids + k, kind |-> "pipe"] : k \in 1..n}
PipeIds(n) == {ids + k : k \in 1..n}

\* Attaching n pipes stops at the first that fails, which consumed an id too; the
\* devices are recorded, by `record`, only when all were attached and the io file
\* was written.
AttachPipes(n, record) ==
  \/ /\ ids' = ids + n
     /\ devices' = devices \cup Pipes(n)
     /\ containers' = record
     /\ Succeeds
  \/ /\ \E k \in 0..n :
          /\ ids' = ids + (IF k < n THEN k + 1 ELSE n)
          /\ devices' = devices \cup Pipes(k)
     /\ UNCHANGED containers
     /\ CallFails

ContainerIo ==
  /\ At("io")
  /\ AttachPipes(job.opt.pipes, [containers EXCEPT ![job.c].io = PipeIds(job.opt.pipes)])
  /\ UNCHANGED <<policy, storages, orphans, mounted, images>>

\* Devices are detached one by one, until one fails.
DetachedOf(io) == {gone \in SUBSET io : \A x \in gone, y \in io \ gone : x < y}

Detach(gone) == devices' = {d \in devices : d.id \notin gone}

IoRollback ==
  /\ BackAt("io")
  /\ \E gone \in DetachedOf(containers[job.c].io) :
       /\ Detach(gone)
       /\ Fault(gone # containers[job.c].io)
       /\ containers' = IF gone = containers[job.c].io
                        THEN [containers EXCEPT ![job.c].io = {}] ELSE containers
  /\ RolledBack
  /\ UNCHANGED <<policy, storages, orphans, ids, mounted, images>>

\* SpecHandler writes config.json, and pushes it into the guest when there is no
\* shared directory.
WriteSpec ==
  /\ At("spec")
  /\ Succeeds \/ CallFails
  /\ UNCHANGED <<policy, containers, storages, orphans, ids, mounted, images, devices>>

ProcessAdd ==
  /\ At("proc")
  /\ AttachPipes(1, [containers EXCEPT ![job.c].procs = (Current.p :> PipeIds(1)) @@ @])
  /\ UNCHANGED <<policy, storages, orphans, mounted, images>>

\* remove_io_devices_for_process ignores the devices that cannot be detached.
DetachProcess(p, fails) ==
  LET io == containers[job.c].procs[p] IN
  \E gone \in SUBSET io : Detach(gone) /\ Fault(fails \/ gone # io)

ForgetProcess(p) ==
  containers' = [containers EXCEPT ![job.c].procs = [q \in DOMAIN @ \ {p} |-> @[q]]]

\* Only the removal of the io file can fail it, after the devices are gone.
ProcessRemove ==
  /\ At("procremove")
  /\ \/ DetachProcess(Current.p, FALSE) /\ ForgetProcess(Current.p) /\ Handled
     \/ DetachProcess(Current.p, TRUE) /\ UNCHANGED containers /\ Failed
  /\ UNCHANGED <<policy, storages, orphans, ids, mounted, images>>

\* The first handler is rolled back even when it is the one that failed.
ProcessRollback ==
  /\ \/ /\ BackAt("proc") /\ Current.p \in DOMAIN containers[job.c].procs
        /\ \/ DetachProcess(Current.p, FALSE) /\ ForgetProcess(Current.p)
           \/ DetachProcess(Current.p, TRUE) /\ UNCHANGED containers
     \/ /\ BackAt("proc") \/ BackAt("procremove")
        /\ Current.h = "proc" => Current.p \notin DOMAIN containers[job.c].procs
        /\ UNCHANGED <<containers, devices, faults>>
  /\ RolledBack
  /\ UNCHANGED <<policy, storages, orphans, ids, mounted, images>>

-----------------------------------------------------------------------------
(* remove_container: the references go first, then what nothing refers to, *)
(* then the bundle, the container, and the devices of its own io.           *)

DeferAll(c) == [k \in DOMAIN storages |-> Defer(storages[k], c)]

IoOf(c) == IF containers[c] = None THEN {} ELSE containers[c].io

RemoveContainer(c) ==
  /\ job.pc = "idle"
  /\ \E r \in GcResults(DeferAll(c)) :
       /\ storages' = r.left
       /\ mounted' = mounted \ (r.gone \cup r.unmounted)
       /\ images' = images \ r.gone
       /\ \/ /\ devices' = {d \in devices : d.id \notin DevicesOf(r.gone)}
             /\ Fault(TRUE)                        \* gc failed, or removing the bundle
             /\ UNCHANGED containers
          \/ /\ r.ok
             /\ \E gone \in DetachedOf(IoOf(c)) :
                  /\ devices' = {d \in devices : d.id \notin DevicesOf(r.gone) \cup gone}
                  /\ Fault(gone # IoOf(c))
             /\ containers' = [containers EXCEPT ![c] = None]
  /\ UNCHANGED <<policy, orphans, ids, job>>

-----------------------------------------------------------------------------
RestoredDevices == {[id |-> Restored[k].dev, kind |-> Restored[k].via] :
                      k \in {j \in DOMAIN Restored : Restored[j].dev # 0}}

\* A sandbox that was cold started, or restored from a snapshot whose containers
\* run on their storages.
Init ==
  /\ policy \in [backend : Backends, allowLarge : BOOLEAN]
  /\ containers = [c \in Containers |-> None]
  /\ mounted = {} /\ faults = 0
  /\ job = IdleJob
  /\ \/ /\ storages = <<>> /\ orphans = {} /\ ids = 0
        /\ images = {} /\ devices = {}
     \/ /\ policy.backend = "virtio-blk"
        /\ storages = Restored /\ orphans = Orphans
        /\ ids = 2 * Len(Restored)
        /\ images = {Restored[k].id : k \in {j \in DOMAIN Restored : Restored[j].via = "image"}}
        /\ devices = RestoredDevices

Next ==
  \/ \E c \in Containers :
       \/ \E opt \in Options : AppendContainer(c, opt)
       \/ \E procs \in SUBSET Processes : UpdateContainer(c, procs)
       \/ RemoveContainer(c)
  \/ MetadataAdd \/ MetadataRollback \/ Namespaces
  \/ AdoptOrphan \/ ReuseStorage \/ AttachStorage \/ MountRollback
  \/ UseStorages \/ StorageRollback \/ ContainerIo \/ IoRollback \/ WriteSpec
  \/ ProcessAdd \/ ProcessRemove \/ ProcessRollback

Spec == Init /\ [][Next]_vars

-----------------------------------------------------------------------------
(* Properties. *)

Idle == job.pc = "idle"
Present == {c \in Containers : containers[c] # None}

\* Type invariant of the sandbox's containers and storages and of what the VM has.
TypeOK ==
  /\ DOMAIN containers = Containers /\ ids \in Nat /\ faults \in 0..MaxFaults
  /\ orphans \subseteq Orphans
  /\ mounted \cup images \subseteq 1..ids
  /\ devices \subseteq [id : 1..ids, kind : {"block", "image", "pipe"}]
  /\ \A k \in DOMAIN storages : storages[k].refs \in [ContainerIds -> 0..4]
  /\ job.pc \in {"idle", "handle", "rollback"} /\ job.i \in 0..Len(job.hs)

\* The image files and the image devices in the VM are, at every moment and
\* whatever failed (building the image, the hotplug, the rollback, a detach),
\* those of the storages in the list: none is lost and no storage is without.
ImagesAreOwned ==
  LET st == {storages[k] : k \in {j \in DOMAIN storages : storages[j].via = "image"}} IN
  /\ images = {s.id : s \in st}
  /\ {d.id : d \in {e \in devices : e.kind = "image"}} = {s.dev : s \in st}

\* Between requests only containers that exist hold storages: a failed append
\* gives back every reference its handlers took, also when the rollback of one of
\* them failed, and a failed remove has given its own back already.
HoldersExist ==
  Idle => \A k \in DOMAIN storages, c \in Containers :
            Refers(storages[k], c) => c \in Present

\* A container never shares a storage with a restored container that has not been
\* adopted ("refusing to co-run restored orphan with a new container"), and the
\* storage of one that has not been adopted is not collected.
OrphansRunAlone ==
  \A o \in orphans :
    /\ \A k \in DOMAIN storages, c \in Containers :
         ~(Refers(storages[k], o) /\ Refers(storages[k], c))
    /\ \A k \in DOMAIN Restored :
         Refers(Restored[k], o) => \E j \in DOMAIN storages : storages[j] = Restored[k]

\* When no call fails, a sandbox whose containers are all removed keeps nothing of
\* their storages: no mount, no image, no block device.
NothingLeft ==
  Idle /\ faults = 0 /\ Present = {} /\ orphans = {} =>
    LET kept == {storages[k].id : k \in DOMAIN storages} IN
    /\ \A k \in DOMAIN storages : \E o \in Orphans : Refers(storages[k], o)
    /\ mounted \subseteq kept
    /\ \A d \in devices : d.kind # "pipe" => \E k \in DOMAIN storages : storages[k].dev = d.id
=============================================================================
