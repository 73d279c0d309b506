---------------------------- MODULE PodResources ----------------------------
(***************************************************************************)
(* The resources of a pod and its cgroups (src/vmm/sandbox/src/utils.rs,   *)
(* cgroup.rs, and the calls of sandbox.rs).  The limits of the containers  *)
(* and of the overhead are merged into those of the pod; the pod has three *)
(* cgroups, one for everything, one for the vcpu threads and one for the   *)
(* rest of the VMM.                                                        *)
(*                                                                         *)
(* A cpuset is the sequence of its ranges, as cpuset_parts reads them and  *)
(* cpuset_tostring writes them; an unreadable text is Malformed.           *)
(***************************************************************************)
EXTENDS Integers, Sequences, SequencesExt, FiniteSets

CONSTANTS
    MaxCpu,          \* bound: the highest cpu number
    PageSizes,       \* the huge page sizes of the node
    MaxPages,        \* bound: a huge page limit
    Malformed,       \* a cpuset text that does not parse
    MaxCgroupFaults  \* bound: cgroup operations that fail

VARIABLES
    stage,           \* where the sandbox is: "none" ... "deleted"
    resources,       \* LinuxContainerResources of the containers
    overhead,        \* the same of the overhead
    total,           \* what get_total_resources returned for them
    cgroups,         \* the cgroup directories that exist
    attached,        \* the directories the SandboxCgroup of the sandbox names
    hugetlb,         \* page size -> the limit written to the pod's cgroup, 0 for none
    located,         \* thread -> the cgroup it is in
    cgroupFaults

podVars == <<stage, resources, overhead, total, cgroups, attached, hugetlb,
             located, cgroupFaults>>

Ranges == {r \in (0..MaxCpu) \X (0..MaxCpu) : r[1] <= r[2]}
CpusOf(r) == r[1]..r[2]
Disjoint(c) == \A i, j \in DOMAIN c : i # j => CpusOf(c[i]) \cap CpusOf(c[j]) = {}
\* The texts a node's configuration holds: ranges that do not overlap, in any
\* order, or one that does not parse.
Cpusets == {c \in UNION {[1..n -> Ranges] : n \in 0..2} : Disjoint(c)} \cup {Malformed}
Covered(c) == UNION {CpusOf(c[i]) : i \in DOMAIN c}
PageLimits == [size : PageSizes, limit : 1..MaxPages]
\* The two fields are merged independently: one of them varies at a time.
Limits == [cpus : Cpusets, pages : {<<>>}] \cup [cpus : {<<>>}, pages : {<<l>> : l \in PageLimits}]

\* Mutant: ranges that only border on each other count as meeting.
CpusetTouches(r, s) == ~(s[2] + 1 < r[1]) /\ ~(s[1] > r[2] + 1)

\* cpuset_intersect
CpusetIntersect(r, s) == ~(s[2] < r[1]) /\ ~(s[1] > r[2])

\* merge_cpuset: base grown by delta when the two touch.
MergeCpuset(base, delta) ==
    IF delta[2] < base[1] \/ delta[1] > base[2] THEN base
    ELSE << IF delta[1] < base[1] THEN delta[1] ELSE base[1],
            IF delta[2] > base[2] THEN delta[2] ELSE base[2] >>

\* merge_cpusets: every range of the first cpuset takes in those of the second
\* that it meets; then the ranges of the second that meet none are appended.
MergeCpusets(c, d) ==
    LET grown == [i \in DOMAIN c |-> FoldLeft(MergeCpuset, c[i], d)]
        Push(parts, r) == IF \E i \in DOMAIN parts : CpusetIntersect(r, parts[i])
                          THEN parts ELSE Append(parts, r)
    IN  FoldLeft(Push, grown, d)

\* The merge of a text pair: an error keeps the first one.
MergeTexts(c, d) == IF Malformed \in {c, d} THEN c ELSE MergeCpusets(c, d)

\* merge_resources, huge pages: the limit of the overhead is added to the
\* entries of its size; found is never set, so it is pushed as well.
MergeHugepages(p, q) ==
    LET Merge(limits, h) ==
            Append([i \in DOMAIN limits |->
                       IF limits[i].size = h.size THEN [limits[i] EXCEPT !.limit = @ + h.limit]
                                                  ELSE limits[i]], h)
    IN  FoldLeft(Merge, p, q)

MergeResources(r, o) ==
    [cpus |-> MergeTexts(r.cpus, o.cpus), pages |-> MergeHugepages(r.pages, o.pages)]

\* apply_hugetlb_resources: the entries are written in order, the last one of a
\* size stays.
Applied(pages, size) ==
    LET mine == SelectSeq(pages, LAMBDA h : h.size = size)
    IN  IF mine = <<>> THEN 0 ELSE Last(mine).limit

-----------------------------------------------------------------------------
AllCgroups == {"sandbox", "vcpu", "pod_overhead"}
Threads == {"vmm", "vcpu", "virtiofsd"}

CgroupFault == cgroupFaults < MaxCgroupFaults /\ cgroupFaults' = cgroupFaults + 1
CgroupOk == cgroupFaults' = cgroupFaults

\* create_sandbox_cgroups: the pod's cgroup, then the two below it; an error
\* returns without a SandboxCgroup, whatever was created.
CreatedBefore == {{}, {"sandbox"}, {"sandbox", "vcpu"}}

\* create, first half: cgroups from the request's resources.  When the creation
\* itself fails the roll-back acts on the default SandboxCgroup, which names no
\* directory.
CreateCgroups ==
    /\ stage = "none"
    /\ \/ /\ CgroupOk
          /\ cgroups' = AllCgroups /\ attached' = AllCgroups
          /\ stage' = "updating"
       \/ \E made \in CreatedBefore :
            /\ CgroupFault
            /\ cgroups' = cgroups \cup made
            /\ stage' = "refused"
            /\ UNCHANGED attached
    /\ UNCHANGED <<resources, overhead, total, hugetlb, located>>

\* update_res_for_sandbox_cgroups: apply the merged limits.  A failure removes
\* the cgroups and ends the create.
UpdateCgroups(r, o) ==
    /\ stage = "updating"
    /\ resources' = r /\ overhead' = o
    /\ total' = MergeResources(r, o)
    /\ \/ /\ CgroupOk
          /\ stage' = "created"
          /\ hugetlb' = [z \in PageSizes |-> Applied(total'.pages, z)]
          /\ UNCHANGED cgroups
       \/ /\ CgroupFault
          /\ stage' = "refused"
          /\ cgroups' = cgroups \ attached
          /\ UNCHANGED hugetlb
    /\ UNCHANGED <<attached, located>>


\* add_process_into_sandbox_cgroups in the order of add_to_cgroup: the process
\* of the VMM takes its threads along, then its vcpu threads are moved, then
\* the affiliated processes.
Moves == << [threads |-> {"vmm", "vcpu"}, to |-> "sandbox"],
            [threads |-> {"vmm", "vcpu"}, to |-> "pod_overhead"],
            [threads |-> {"vcpu"}, to |-> "vcpu"],
            [threads |-> {"virtiofsd"}, to |-> "sandbox"],
            [threads |-> {"virtiofsd"}, to |-> "pod_overhead"] >>
Move(at, step) == [t \in Threads |-> IF t \in step.threads THEN step.to ELSE at[t]]

\* add_to_cgroup.  A failure stops the VM; the threads of the next start begin on the host.
AddToCgroup ==
    /\ stage = "created"
    /\ \/ /\ CgroupOk
          /\ located' = FoldLeft(Move, located, Moves)
          /\ stage' = "running"
       \/ /\ CgroupFault
          /\ located' = [t \in Threads |-> "host"]
          /\ stage' = "created"
    /\ UNCHANGED <<resources, overhead, total, hugetlb, cgroups, attached>>

\* recover: the cgroups are created again below the dumped parent path; the
\* limits are not applied again, and the processes stay where they are.
RecoverCgroups ==
    /\ stage = "running"
    /\ CgroupOk
    /\ cgroups' = AllCgroups /\ attached' = AllCgroups
    /\ UNCHANGED <<stage, resources, overhead, total, hugetlb, located>>

\* The VM is stopped: its threads end.
StopVm ==
    /\ stage \in {"created", "running"}
    /\ stage' = "stopped"
    /\ located' = [t \in Threads |-> "none"]
    /\ UNCHANGED <<resources, overhead, total, hugetlb, cgroups, attached, cgroupFaults>>

\* remove_sandbox_cgroups: the threads still in a cgroup are moved to its
\* parent, then the directory is deleted; the children first.  A failure ends
\* the delete, and a later one skips what is gone.
Removable == {{}, {"vcpu"}, {"vcpu", "pod_overhead"}}
RemoveCgroups ==
    /\ stage = "stopped"
    /\ \/ /\ CgroupOk
          /\ cgroups' = cgroups \ attached
          /\ stage' = "deleted"
       \/ \E gone \in Removable :
            /\ CgroupFault
            /\ cgroups' = cgroups \ gone
            /\ UNCHANGED stage
    /\ UNCHANGED <<resources, overhead, total, hugetlb, attached, located>>

NoLimits == [cpus |-> <<>>, pages |-> <<>>]

PodInit ==
    /\ stage = "none"
    /\ resources = NoLimits /\ overhead = NoLimits /\ total = NoLimits
    /\ cgroups = {} /\ attached = {} /\ hugetlb = [z \in PageSizes |-> 0]
    /\ located = [t \in Threads |-> "host"]
    /\ cgroupFaults = 0

PodNext ==
    \/ CreateCgroups \/ AddToCgroup \/ RecoverCgroups \/ StopVm \/ RemoveCgroups
    \/ stage = "updating" /\ \E r, o \in Limits : UpdateCgroups(r, o)

PodSpec == PodInit /\ [][PodNext]_podVars

-----------------------------------------------------------------------------
\* Every variable keeps its type.
PodTypeOK ==
    /\ stage \in {"none", "updating", "created", "running", "stopped", "deleted", "refused"}
    /\ \A l \in {resources, overhead, total} : l.cpus # Malformed => Range(l.cpus) \subseteq Ranges
    /\ cgroups \subseteq AllCgroups /\ attached \subseteq AllCgroups
    /\ hugetlb \in [PageSizes -> 0..MaxPages]
    /\ located \in [Threads -> AllCgroups \cup {"host", "none"}]
    /\ cgroupFaults \in 0..MaxCgroupFaults

\* The merged cpuset holds exactly the cpus of the two: merge_cpusets loses no
\* range when several of them touch, in whatever order they are written.
CpusetIsUnion ==
    Malformed \notin {resources.cpus, overhead.cpus} =>
        Covered(total.cpus) = Covered(resources.cpus) \cup Covered(overhead.cpus)

\* The vcpu threads of a running sandbox are in the vcpu cgroup and everything
\* else of the VM in pod_overhead, whatever order the process, its threads and
\* the affiliated processes are moved in, and after a restart of the sandboxer.
VcpusApart ==
    stage = "running" =>
        /\ located["vcpu"] = "vcpu"
        /\ located["vmm"] = "pod_overhead" /\ located["virtiofsd"] = "pod_overhead"

\* A sandbox that was deleted has left no cgroup behind, however often the
\* removal failed half-way before.
DeletedHasNoCgroup == stage = "deleted" => cgroups = {}
=============================================================================
