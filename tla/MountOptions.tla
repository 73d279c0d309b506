---------------------------- MODULE MountOptions ----------------------------
(***************************************************************************)
(* mount and bind_mount of src/vmm/common/src/mount.rs, by which the       *)
(* sandboxer and the guest agent mount storages: the options are parsed to *)
(* mount flags and file system data, and one call becomes up to three      *)
(* mount(2) calls, because the kernel ignores "ro" on a new bind mount and *)
(* takes a change of propagation only by itself.                           *)
(*                                                                         *)
(* A set of flags is the set of its bits.  SysMount is the kernel's side,  *)
(* as far as the calls depend on it.                                       *)
(***************************************************************************)
EXTENDS Naturals, Sequences, SequencesExt, FiniteSets, TLC

CONSTANTS
    Words,          \* the option words that requests use
    MaxOptions,     \* bound: the options of a request
    MaxMountFaults  \* bound: mount(2) calls that fail for no reason of ours

VARIABLES
    call,           \* the request under way
    target,         \* the mount on the target
    mountFaults

mountVars == <<call, target, mountFaults>>

\* MOUNT_FLAGS: the words that set bits, and the words that clear one.
SetBy ==
    "bind" :> {"BIND"} @@ "rbind" :> {"BIND", "REC"} @@ "defaults" :> {} @@ "dirsync" :> {"DIRSYNC"}
    @@ "mand" :> {"MANDLOCK"} @@ "noatime" :> {"NOATIME"} @@ "nodev" :> {"NODEV"}
    @@ "nodiratime" :> {"NODIRATIME"} @@ "noexec" :> {"NOEXEC"} @@ "nosuid" :> {"NOSUID"}
    @@ "relatime" :> {"RELATIME"} @@ "remount" :> {"REMOUNT"} @@ "ro" :> {"RDONLY"}
    @@ "strictatime" :> {"STRICTATIME"} @@ "sync" :> {"SYNCHRONOUS"}
    @@ "shared" :> {"SHARED"} @@ "rshared" :> {"SHARED", "REC"} @@ "slave" :> {"SLAVE"}
    @@ "rslave" :> {"SLAVE", "REC"} @@ "private" :> {"PRIVATE"} @@ "rprivate" :> {"PRIVATE", "REC"}
    @@ "unbindable" :> {"UNBINDABLE"} @@ "runbindable" :> {"UNBINDABLE", "REC"}
ClearedBy ==
    "async" :> {"SYNCHRONOUS"} @@ "atime" :> {"NOATIME"} @@ "dev" :> {"NODEV"}
    @@ "diratime" :> {"NODIRATIME"} @@ "exec" :> {"NOEXEC"} @@ "nomand" :> {"MANDLOCK"}
    @@ "norelatime" :> {"RELATIME"} @@ "nostrictatime" :> {"STRICTATIME"} @@ "rw" :> {"RDONLY"}
    @@ "suid" :> {"NOSUID"}

PropagationTypes == {"SHARED", "PRIVATE", "SLAVE", "UNBINDABLE"}
Propagation == PropagationTypes \cup {"REC", "SILENT"}

\* parse_options: the words of the table change the flags in their order, the
\* others are data for the file system.
ParseOptions(options) ==
    LET Handle(acc, word) ==
            IF word \in DOMAIN SetBy THEN [acc EXCEPT !.flags = @ \cup SetBy[word]]
            ELSE IF word \in DOMAIN ClearedBy THEN [acc EXCEPT !.flags = @ \ ClearedBy[word]]
            ELSE [acc EXCEPT !.data = Append(@, word)]
    IN  FoldLeft(Handle, [flags |-> {}, data |-> <<>>], options)

-----------------------------------------------------------------------------
\* mount(2) on the target: the mounts it can return, none when it refuses.
SysMount(old, flags) ==
    IF "REMOUNT" \in flags
    THEN IF old.mounted THEN {[old EXCEPT !.ro = "RDONLY" \in flags]} ELSE {}
    ELSE IF "BIND" \in flags
    THEN {[mounted |-> TRUE, ro |-> FALSE, kind |-> "bind", shared |-> old.shared]}
    ELSE IF flags \cap PropagationTypes # {}
    THEN {[old EXCEPT !.shared = f] : f \in {g \in PropagationTypes :
                old.mounted /\ flags \cap PropagationTypes = {g}}}
    ELSE {[mounted |-> TRUE, ro |-> "RDONLY" \in flags, kind |-> "fs", shared |-> old.shared]}

\* Nothing on the target; a mount takes the propagation of its parent, which is
\* shared on the hosts this runs on.
NoMount == [mounted |-> FALSE, ro |-> FALSE, kind |-> "none", shared |-> "SHARED"]

NoCall == [op |-> "none", step |-> 0, options |-> <<>>, flags |-> {}, data |-> <<>>, named |-> FALSE]

\* A request: the operation, its options, and whether it names a source or a
\* file system type (bind_mount always does).
Request(op, options, named) ==
    /\ call.op = "none"
    /\ op = "bind_mount" => named
    /\ LET parsed == ParseOptions(options)
       IN  call' = [op |-> op, step |-> 1, options |-> options, flags |-> parsed.flags,
                    data |-> parsed.data, named |-> named]
    /\ UNCHANGED <<target, mountFaults>>

\* The mount(2) calls of mount, in their order, each with its condition; a step
\* whose condition is false makes no call.
MountSteps(c) ==
    LET oflags == c.flags \ PropagationTypes
        only   == c.flags \subseteq Propagation /\ ~c.named /\ c.data = <<>>
    IN  << [when |-> ~only /\ ("REMOUNT" \notin c.flags \/ c.data # <<>>), flags |-> oflags],
           [when |-> c.flags \cap PropagationTypes # {}, flags |-> c.flags \cap Propagation],
           [when |-> {"BIND", "RDONLY"} \subseteq oflags, flags |-> oflags \cup {"REMOUNT"}] >>

\* Mutant: one call does it all.
BindMountOnce(c) == << [when |-> TRUE, flags |-> c.flags \cup {"BIND"}] >>

\* The calls of bind_mount.
BindMountSteps(c) ==
    << [when |-> TRUE, flags |-> c.flags \cup {"BIND"}],
       [when |-> "RDONLY" \in c.flags, flags |-> c.flags \cup {"BIND", "REMOUNT"}] >>

Steps(c) == IF c.op = "mount" THEN MountSteps(c) ELSE BindMountSteps(c)

Step ==
    /\ call.step \in DOMAIN Steps(call)
    /\ LET s == Steps(call)[call.step]
       IN  \/ /\ ~s.when
              /\ call' = [call EXCEPT !.step = @ + 1]
              /\ UNCHANGED <<target, mountFaults>>
           \/ /\ s.when
              /\ target' \in SysMount(target, s.flags)
              /\ call' = [call EXCEPT !.step = @ + 1]
              /\ UNCHANGED mountFaults
           \/ /\ s.when
              /\ \/ SysMount(target, s.flags) = {} /\ UNCHANGED mountFaults
                 \/ mountFaults < MaxMountFaults /\ mountFaults' = mountFaults + 1
              /\ call' = NoCall
              /\ UNCHANGED target

Done == call.op # "none" /\ call.step > Len(Steps(call))

Return ==
    /\ Done
    /\ call' = NoCall
    /\ UNCHANGED <<target, mountFaults>>

\* unmount, between two users of a target.
Unmount ==
    /\ call.op = "none"
    /\ target.mounted
    /\ target' = NoMount
    /\ UNCHANGED <<call, mountFaults>>

MountInit ==
    /\ call = NoCall
    /\ target = NoMount
    /\ mountFaults = 0

Options == UNION {[1..n -> Words] : n \in 0..MaxOptions}

MountNext ==
    \/ \E op \in {"mount", "bind_mount"}, o \in Options, named \in BOOLEAN : Request(op, o, named)
    \/ Step \/ Return \/ Unmount

MountSpec == MountInit /\ [][MountNext]_mountVars

-----------------------------------------------------------------------------
Mentions(word) ==
    IF word \in DOMAIN SetBy THEN SetBy[word]
    ELSE IF word \in DOMAIN ClearedBy THEN ClearedBy[word] ELSE {}

\* The last word on a bit decides it: a flag is set exactly when the last
\* option that mentions it sets it, and what is no flag is passed on as data in
\* its order.
LastWordDecides ==
    call.op # "none" =>
        /\ \A bit \in UNION {Mentions(call.options[i]) : i \in DOMAIN call.options} :
            LET last == CHOOSE i \in DOMAIN call.options :
                            /\ bit \in Mentions(call.options[i])
                            /\ \A j \in DOMAIN call.options :
                                bit \in Mentions(call.options[j]) => j <= i
            IN  bit \in call.flags <=> call.options[last] \in DOMAIN SetBy
        /\ Len(call.data) = Cardinality({i \in DOMAIN call.options :
                                call.options[i] \notin DOMAIN SetBy \cup DOMAIN ClearedBy})

\* Read-only is what was asked for: when a request to mount something returns
\* without an error, the target is read-only exactly if its options end up
\* saying so, although a bind mount starts out writable; and a remount of a bind
\* mount as read-only makes it so.
ReadOnlyHonoured ==
    Done /\ (call.named \/ "BIND" \in call.flags) =>
        /\ "REMOUNT" \notin call.flags => (target.ro <=> "RDONLY" \in call.flags)
        /\ {"REMOUNT", "BIND", "RDONLY"} \subseteq call.flags => target.ro

\* The propagation that mount was asked for is in force when it returns without
\* an error, whatever mounts and remounts it needed besides.
PropagationHonoured ==
    Done /\ call.op = "mount" /\ call.flags \cap PropagationTypes # {}
        => target.shared \in call.flags
=============================================================================
