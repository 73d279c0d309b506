------------------------- MODULE TemplatePoolTypes --------------------------
(***************************************************************************)
(* Type correctness of TemplatePool, for every value of its constants: one *)
(* lemma for each group of variables, then the induction.                  *)
(***************************************************************************)
EXTENDS TemplatePoolTasks, SequenceTheorems

\* Dropping an entry from a queue of templates leaves a queue of templates.
LEMMA WithoutType ==
  ASSUME NEW q \in Seq(Templates), NEW t
  PROVE  Without(q, t) \in Seq(Templates)
<1>1. CASE t \notin ToSet(q)
  BY <1>1 DEF Without
<1>2. CASE t \in ToSet(q)
  <2> DEFINE i == CHOOSE i \in DOMAIN q : q[i] = t
  <2>1. i \in 1 .. Len(q)
    BY <1>2 DEF ToSet
  <2>2. Len(q) - 1 \in Nat
    BY <2>1
  <2>3. \A j \in 1 .. Len(q) - 1 : (IF j < i THEN q[j] ELSE q[j + 1]) \in Templates
    BY <2>1
  <2>4. Without(q, t) = [j \in 1 .. Len(q) - 1 |-> IF j < i THEN q[j] ELSE q[j + 1]]
    BY <1>2 DEF Without
  <2> QED
    BY <2>2, <2>3, <2>4
<1> QED BY <1>1, <1>2

\* What TasksOK says of one task.
LEMMA TaskFields ==
  ASSUME TasksOK, NEW p \in Tasks
  PROVE  /\ task[p].pc \in StartPcs \cup AddPcs => task[p].tmpl \in Templates
         /\ task[p].pc \in StartPcs \cup DeletePcs => task[p].sb \in Sandboxes
         /\ task[p].tmpl \in Templates \cup {None}
         /\ task[p].victims \subseteq Templates
         /\ task[p].gone \in Templates \cup {None}
         /\ task[p].late \in BOOLEAN
<1>1. task[p] \in TaskType /\ Shaped(task[p])
  BY DEF TasksOK, ShapedTask
<1>2. /\ task[p].pc \in StartPcs \cup AddPcs => task[p].tmpl \in Templates
      /\ task[p].pc \in StartPcs \cup DeletePcs => task[p].sb \in Sandboxes
  BY <1>1, PcsDisjoint DEF Shaped, Point
<1>3. /\ task[p].tmpl \in Templates \cup {None}
      /\ task[p].victims \subseteq Templates
      /\ task[p].gone \in Templates \cup {None}
      /\ task[p].late \in BOOLEAN
  BY <1>1 DEF TaskType
<1> QED BY <1>2, <1>3

\* Storing a well-typed sandbox keeps the sandboxes typed.
LEMMA SetSandboxType ==
  ASSUME sandbox \in [Sandboxes -> SandboxType], NEW s \in Sandboxes,
         NEW r \in SandboxType, SetSandbox(s, r)
  PROVE  (sandbox \in [Sandboxes -> SandboxType])'
BY DEF SetSandbox

\* The sandbox objects keep their type.
LEMMA SandboxTyped ==
  ASSUME TasksOK, sandbox \in [Sandboxes -> SandboxType],
         dumped \in [Sandboxes -> Templates \cup {None, NoDir}], Next
  PROVE  (sandbox \in [Sandboxes -> SandboxType])'
<1>0. \A s \in Sandboxes : sandbox[s] \in SandboxType
  OBVIOUS
<1>1. ASSUME NEW s \in Sandboxes, Create(s)
      PROVE  (sandbox \in [Sandboxes -> SandboxType])'
  <2>1. [sandbox[s] EXCEPT !.exists = TRUE, !.inMap = TRUE] \in SandboxType
    BY <1>0, Zenon DEF SandboxType
  <2> QED BY <1>1, <2>1, SetSandboxType DEF Create
<1>2. ASSUME NEW p \in Tasks, StartStep(p)
      PROVE  (sandbox \in [Sandboxes -> SandboxType])'
  <2> DEFINE s == task[p].sb
  <2>0. task[p].pc \in {"lock_wait", "restoring", "post", "post_clear"} =>
          s \in Sandboxes /\ task[p].tmpl \in Templates /\ sandbox[s] \in SandboxType
    BY TaskFields DEF StartPcs
  <2>1. CASE BeginRestore(p)
    <3>1. [sandbox[s] EXCEPT !.lock = p, !.template = task[p].tmpl] \in SandboxType
      BY <2>0, <2>1, Zenon DEF BeginRestore, SandboxType
    <3> QED BY <2>0, <2>1, <3>1, SetSandboxType DEF BeginRestore
  <2>2. CASE RestoreFailed(p) \/ PostCleared(p)
    <3>1. [sandbox[s] EXCEPT !.lock = Free, !.template = None] \in SandboxType
      BY <2>0, <2>2, Zenon DEF RestoreFailed, PostCleared, SandboxType
    <3> QED BY <2>0, <2>2, <3>1, SetSandboxType DEF RestoreFailed, PostCleared
  <2>3. CASE Restored(p)
    <3>0. s \in Sandboxes /\ sandbox[s] \in SandboxType
      BY <2>0, <2>3 DEF Restored
    <3>1. \A b, c \in BOOLEAN :
            [sandbox[s] EXCEPT !.holds = b, !.late = c] \in SandboxType
      BY <3>0, Zenon DEF SandboxType
    <3>2. KeepsReference(task[p].tmpl) \in BOOLEAN
      BY DEF KeepsReference
    <3>3. task[p].late \in BOOLEAN
      BY TaskFields
    <3>4. [sandbox[s] EXCEPT !.holds = KeepsReference(task[p].tmpl),
                             !.late = task[p].late] \in SandboxType
      BY <3>1, <3>2, <3>3, Zenon
    <3> QED BY <2>3, <3>0, <3>4, SetSandboxType DEF Restored
  <2>4. CASE PostFailed(p)
    <3>1. [sandbox[s] EXCEPT !.holds = FALSE] \in SandboxType
      BY <2>0, <2>4, Zenon DEF PostFailed, SandboxType
    <3> QED BY <2>0, <2>4, <3>1, SetSandboxType DEF PostFailed
  <2>5. CASE Dumped(p)
    <3>1. [sandbox[s] EXCEPT !.lock = Free] \in SandboxType
      BY <2>0, <2>5 DEF Dumped, SandboxType
    <3> QED BY <2>0, <2>5, <3>1, SetSandboxType DEF Dumped
  <2>6. CASE UNCHANGED sandbox BY <2>6
  <2> QED BY <1>2, <2>1, <2>2, <2>3, <2>4, <2>5, <2>6, Zenon
          DEF StartStep, MarkConsumed, MarkFailed, Validated, Rejected, Complete,
              FailShared, RemoveMarker, PushBack
<1>3. ASSUME NEW p \in Tasks, DeleteStep(p)
      PROVE  (sandbox \in [Sandboxes -> SandboxType])'
  <2> DEFINE s == task[p].sb
  <2>0. task[p].pc \in DeletePcs => s \in Sandboxes /\ sandbox[s] \in SandboxType
    BY TaskFields
  <2>1. CASE DeleteBody(p)
    <3>1. [sandbox[s] EXCEPT !.lock = p] \in SandboxType
      BY <2>0, <2>1 DEF DeleteBody, SandboxType, DeletePcs
    <3> QED BY <2>0, <2>1, <3>1, SetSandboxType DEF DeleteBody, DeletePcs
  <2>2. CASE DeleteRelease(p)
    <3>1. \A b \in BOOLEAN : [sandbox[s] EXCEPT !.holds = b] \in SandboxType
      BY <2>0, <2>2 DEF DeleteRelease, SandboxType, DeletePcs
    <3>2. sandbox[s].holds \in BOOLEAN
      BY <2>0, <2>2 DEF DeleteRelease, SandboxType, DeletePcs
    <3>3. [sandbox[s] EXCEPT !.holds = IF task[p].tmpl = None THEN @ ELSE FALSE]
            \in SandboxType
      BY <3>1, <3>2, Zenon
    <3> QED BY <2>0, <2>2, <3>3, SetSandboxType DEF DeleteRelease, DeletePcs
  <2>3. CASE DeleteUnlock(p)
    <3>1. [sandbox[s] EXCEPT !.lock = IF @ = p THEN Free ELSE @] \in SandboxType
      BY <2>0, <2>3 DEF DeleteUnlock, SandboxType, DeletePcs
    <3> QED BY <2>0, <2>3, <3>1, SetSandboxType DEF DeleteUnlock, DeletePcs
  <2>4. CASE DeleteRemove(p)
    <3>1. [sandbox[s] EXCEPT !.inMap = FALSE] \in SandboxType
      BY <2>0, <2>4, Zenon DEF DeleteRemove, SandboxType, DeletePcs
    <3> QED BY <2>0, <2>4, <3>1, SetSandboxType DEF DeleteRemove, DeletePcs
  <2>5. CASE UNCHANGED sandbox BY <2>5
  <2> QED BY <1>3, <2>1, <2>2, <2>3, <2>4, <2>5
          DEF DeleteStep, DestroyStop, DestroyDir, DeleteFailed
<1>4. CASE Crash
  <2>1. \A s \in Sandboxes : [NoSandbox EXCEPT !.exists = sandbox[s].exists,
                                               !.late = sandbox[s].late] \in SandboxType
    BY <1>0, Zenon DEF SandboxType, NoSandbox
  <2> QED BY <1>4, <2>1, Zenon DEF Crash
<1>5. CASE RecoverSandboxes
  <2>1. PICK R \in SUBSET {s \in Sandboxes : dumped[s] # NoDir} :
          sandbox' = [s \in Sandboxes |->
            IF s \notin R THEN sandbox[s]
            ELSE [sandbox[s] EXCEPT
                    !.inMap = TRUE, !.template = dumped[s],
                    !.holds = dumped[s] # None /\ KeepsReference(dumped[s])]]
    BY <1>5, Zenon DEF RecoverSandboxes
  <2>2. ASSUME NEW s \in R
        PROVE  [sandbox[s] EXCEPT
                    !.inMap = TRUE, !.template = dumped[s],
                    !.holds = dumped[s] # None /\ KeepsReference(dumped[s])]
                 \in SandboxType
    <3>1. \A b \in BOOLEAN : [sandbox[s] EXCEPT !.inMap = TRUE, !.template = dumped[s],
                                                !.holds = b] \in SandboxType
      BY <1>0, <2>2, Zenon DEF SandboxType
    <3>2. (dumped[s] # None /\ KeepsReference(dumped[s])) \in BOOLEAN
      OBVIOUS
    <3> QED BY <3>1, <3>2, Zenon
  <2>3. \A s \in Sandboxes : sandbox'[s] \in SandboxType
    BY <1>0, <2>1, <2>2, Zenon
  <2> QED BY <2>1, <2>3, Zenon
<1>6. ASSUME NEW p \in Tasks, Request(p)
      PROVE  UNCHANGED sandbox
  BY <1>6, Zenon DEF Request, StartWithKey, StartWithId, DeleteLookup, RemoveById, AddBegin,
              Maintain
<1>7. ASSUME NEW p \in Tasks, GcStep(p) \/ AddStep(p)
      PROVE  UNCHANGED sandbox
  BY <1>7, Zenon DEF GcStep, GcTotal, GcSelect, SweepRetain, SweepDone, SweepRemove,
              SweepFailed, AddStep, AddTotal, AddSelect, AddKey, AddEvict, AddRetain,
              AddFailed, AddAbandoned, AddSave, AddPush
<1>8. RecoveryStep => RecoverSandboxes \/ UNCHANGED sandbox
  BY DEF RecoveryStep, LoadFromDisk, CollectActive, RebuildActiveRefs,
         GcOrphanedConsumed, Serve
<1>9. CASE UNCHANGED sandbox BY <1>9
<1> QED
  BY <1>1, <1>2, <1>3, <1>4, <1>5, <1>6, <1>7, <1>8, <1>9 DEF Next, TaskStep

\* Retaining and appending keep the queues typed.
LEMMA QueuesType ==
  ASSUME available \in [Keys -> Seq(Templates)]
  PROVE  /\ \A t : Retain(t) \in [Keys -> Seq(Templates)]
         /\ \A t \in Templates :
              [available EXCEPT ![KeyOf[t]] = Append(@, t)] \in [Keys -> Seq(Templates)]
<1>1. \A t : Retain(t) \in [Keys -> Seq(Templates)]
  BY WithoutType DEF Retain
<1>2. ASSUME NEW t \in Templates
      PROVE  [available EXCEPT ![KeyOf[t]] = Append(@, t)] \in [Keys -> Seq(Templates)]
  <2>1. KeyOf[t] \in Keys
    BY PoolAssumption
  <2>2. Append(available[KeyOf[t]], t) \in Seq(Templates)
    BY <2>1
  <2> QED BY <2>1, <2>2
<1> QED BY <1>1, <1>2

\* A function on 1 .. n is a sequence.
LEMMA FunctionIsSeq ==
  ASSUME NEW S, NEW n \in Nat, NEW f \in [1 .. n -> S]
  PROVE  f \in Seq(S)
OBVIOUS

\* What is loaded from the disk is well typed.
LEMMA ListingsType ==
  ASSUME NEW S \in SUBSET Templates, NEW q \in Listings(S)
  PROVE  q \in [Keys -> Seq(Templates)]
<1> DEFINE Of(k) == SetToSeqs({t \in S : KeyOf[t] = k})
<1>1. /\ q \in [Keys -> UNION {Of(k) : k \in Keys}]
      /\ \A k \in Keys : q[k] \in Of(k)
  BY DEF Listings
<1>2. ASSUME NEW k \in Keys PROVE q[k] \in Seq(Templates)
  <2> DEFINE T == {t \in S : KeyOf[t] = k}
  <2>1. q[k] \in [1 .. Cardinality(T) -> T]
    BY <1>1 DEF SetToSeqs
  <2>2. Cardinality(T) \in Nat
    BY PoolAssumption, FS_Subset, FS_CardinalityType
  <2>3. q[k] \in Seq(T)
    BY <2>1, <2>2, FunctionIsSeq, Zenon
  <2>4. T \subseteq Templates
    OBVIOUS
  <2> QED BY <2>3, <2>4
<1> QED BY <1>1, <1>2

\* The queues of the pool keep their type.
LEMMA AvailableTyped ==
  ASSUME TasksOK, available \in [Keys -> Seq(Templates)], Next
  PROVE  (available \in [Keys -> Seq(Templates)])'
<1>1. ASSUME NEW p \in Tasks, Request(p)
      PROVE  UNCHANGED available \/ \E t : available' = Retain(t)
  BY <1>1, Zenon DEF Request, StartWithKey, StartWithId, PeekForRestore, PeekWithRef, Acquire,
              DeleteLookup, RemoveById, AddBegin, Maintain, pool
<1>2. ASSUME NEW p \in Tasks, StartStep(p)
      PROVE  \/ UNCHANGED available
             \/ \E t \in Templates :
                  available' = [available EXCEPT ![KeyOf[t]] = Append(@, t)]
  <2>1. CASE MarkFailed(p) \/ PushBack(p)
    <3>1. task[p].tmpl \in Templates
      BY <2>1, TaskFields, Zenon DEF MarkFailed, PushBack, StartPcs
    <3> QED BY <2>1, <3>1, Zenon DEF MarkFailed, PushBack
  <2>2. CASE UNCHANGED available BY <2>2
  <2> QED BY <1>2, <2>1, <2>2, Zenon
          DEF StartStep, MarkConsumed, Validated, Rejected, BeginRestore, RestoreFailed,
              Restored, PostFailed, PostCleared, Dumped, Complete, FailShared,
              RemoveMarker, pool
<1>3. ASSUME NEW p \in Tasks, DeleteStep(p)
      PROVE  UNCHANGED available
  BY <1>3 DEF DeleteStep, DeleteBody, DestroyStop, DestroyDir, DeleteFailed,
              DeleteRelease, DeleteUnlock, DeleteRemove, pool
<1>4. ASSUME NEW p \in Tasks, GcStep(p)
      PROVE  UNCHANGED available \/ \E t : available' = Retain(t)
  BY <1>4, Zenon DEF GcStep, GcTotal, GcSelect, SweepRetain, SweepDone, SweepRemove,
              SweepFailed, pool
<1>5. ASSUME NEW p \in Tasks, AddStep(p)
      PROVE  \/ UNCHANGED available
             \/ \E t : available' = Retain(t)
             \/ \E t \in Templates :
                  available' = [available EXCEPT ![KeyOf[t]] = Append(@, t)]
  <2>1. CASE AddPush(p)
    <3>1. task[p].tmpl \in Templates
      BY <2>1, TaskFields DEF AddPush, AddPcs
    <3> QED BY <2>1, <3>1, Zenon DEF AddPush
  <2>2. CASE UNCHANGED available \/ \E t : available' = Retain(t) BY <2>2
  <2> QED BY <1>5, <2>1, <2>2, Zenon
          DEF AddStep, AddTotal, AddSelect, AddKey, AddEvict, AddRetain, AddFailed,
              AddAbandoned, AddSave, pool
<1>6. CASE Crash
  <2>1. <<>> \in Seq(Templates)
    OBVIOUS
  <2> QED BY <1>6, <2>1, Zenon DEF Crash
<1>7. CASE LoadFromDisk
  BY <1>7, ListingsType DEF LoadFromDisk, Loadable
<1>8. RecoveryStep => LoadFromDisk \/ UNCHANGED available
  BY Zenon DEF RecoveryStep, RecoverSandboxes, CollectActive, RebuildActiveRefs,
         GcOrphanedConsumed, Serve, pool
<1>9. (\E s \in Sandboxes : Create(s)) => UNCHANGED available
  BY DEF Create, pool
<1>10. CASE \/ UNCHANGED available
            \/ \E t : available' = Retain(t)
            \/ \E t \in Templates :
                 available' = [available EXCEPT ![KeyOf[t]] = Append(@, t)]
  BY <1>10, QueuesType, Zenon
<1> QED
  BY <1>1, <1>2, <1>3, <1>4, <1>5, <1>6, <1>7, <1>8, <1>9, <1>10 DEF Next, TaskStep

\* The number of sandboxes that account for a reference is finite.
LEMMA ActiveRefsType == ActiveRefs \in [Templates -> Nat]
<1>1. ASSUME NEW t \in Templates
      PROVE  Cardinality({s \in Sandboxes : sandbox[s].inMap /\ sandbox[s].template = t
                                            /\ KeepsReference(t)}) \in Nat
  BY PoolAssumption, FS_Subset, FS_CardinalityType
<1> QED BY <1>1 DEF ActiveRefs

\* The counts of references stay natural numbers.
LEMMA CountsTyped ==
  ASSUME TasksOK, available \in [Keys -> Seq(Templates)],
         in_flight_restores \in [Templates -> Nat], in_use_count \in [Templates -> Nat],
         recovery.refs \in [Templates -> Nat], Next
  PROVE  (in_flight_restores \in [Templates -> Nat] /\ in_use_count \in [Templates -> Nat])'
<1> DEFINE Counts == [Templates -> Nat]
           OK == in_flight_restores' \in Counts /\ in_use_count' \in Counts
<1>0. ASSUME NEW c \in Counts, NEW t
      PROVE  /\ [c EXCEPT ![t] = @ + 1] \in Counts
             /\ [c EXCEPT ![t] = IF @ = 0 THEN 0 ELSE @ - 1] \in Counts
  <2>1. \A x \in Templates : c[x] + 1 \in Nat /\ (IF c[x] = 0 THEN 0 ELSE c[x] - 1) \in Nat
    OBVIOUS
  <2>2. CASE t \in Templates BY <2>1, <2>2
  <2>3. CASE t \notin Templates BY <2>3, Zenon
  <2> QED BY <2>2, <2>3
<1>a. \A t : /\ [in_flight_restores EXCEPT ![t] = @ + 1] \in Counts
             /\ [in_flight_restores EXCEPT ![t] = IF @ = 0 THEN 0 ELSE @ - 1] \in Counts
             /\ [in_use_count EXCEPT ![t] = @ + 1] \in Counts
             /\ [in_use_count EXCEPT ![t] = IF @ = 0 THEN 0 ELSE @ - 1] \in Counts
  BY <1>0
<1> HIDE DEF Counts
<1>b. in_flight_restores \in Counts /\ in_use_count \in Counts
  BY DEF Counts
<1> SUFFICES OK BY DEF Counts
<1>1. ASSUME NEW p \in Tasks, Request(p) PROVE OK
  <2>1. ASSUME NEW s, NEW t, PeekForRestore(p, s, t) \/ PeekWithRef(p, s, t) \/ Acquire(p, s, t)
        PROVE  OK
    BY <1>a, <1>b, <2>1, Zenon DEF PeekForRestore, PeekWithRef, Acquire
  <2>2. ASSUME NEW s, NEW t, StartWithId(p, s, t) PROVE OK
    BY <1>a, <1>b, <2>1, <2>2, Zenon DEF StartWithId
  <2>3. ASSUME NEW s, NEW k, StartWithKey(p, s, k) PROVE OK
    BY <2>1, <2>3 DEF StartWithKey
  <2> QED BY <1>1, <1>b, <2>2, <2>3, Zenon
          DEF Request, DeleteLookup, RemoveById, AddBegin, Maintain, pool
<1>2. ASSUME NEW p \in Tasks, StartStep(p) PROVE OK
  <2>1. CASE Restored(p) BY <1>a, <1>b, <2>1, Zenon DEF Restored
  <2>2. CASE PostFailed(p) BY <1>a, <1>b, <2>2, ZenonT(60) DEF PostFailed, deref
  <2>3. CASE Complete(p) BY <1>a, <1>b, <2>3, ZenonT(60) DEF Complete, end_restore
  <2>4. CASE FailShared(p)
    <3> DEFINE t == task[p].tmpl
    <3>1. CASE end_restore(p, t, "idle") /\ UNCHANGED in_use_count
      BY <1>a, <1>b, <3>1, Zenon DEF end_restore
    <3>2. CASE deref(p, t, "idle") /\ UNCHANGED in_flight_restores
      BY <1>a, <1>b, <3>2, Zenon DEF deref
    <3> QED BY <2>4, <3>1, <3>2 DEF FailShared
  <2> QED BY <1>2, <1>b, <2>1, <2>2, <2>3, <2>4, Zenon
       DEF StartStep, MarkConsumed, MarkFailed, Validated, Rejected, BeginRestore,
           RestoreFailed, PostCleared, Dumped, RemoveMarker, PushBack, pool
<1>3. ASSUME NEW p \in Tasks, DeleteStep(p) PROVE OK
  BY <1>a, <1>b, <1>3, ZenonT(60) DEF DeleteStep, DeleteBody, DestroyStop, DestroyDir, DeleteFailed,
              DeleteRelease, DeleteUnlock, DeleteRemove, deref, pool
<1>4. ASSUME NEW p \in Tasks, GcStep(p) \/ AddStep(p)
      PROVE  UNCHANGED in_flight_restores /\ UNCHANGED in_use_count
  BY <1>4, Zenon DEF GcStep, GcTotal, GcSelect, SweepRetain, SweepDone, SweepRemove,
              SweepFailed, AddStep, AddTotal, AddSelect, AddKey, AddEvict, AddRetain,
              AddFailed, AddAbandoned, AddSave, AddPush, pool
<1>5. CASE Crash BY <1>5, Zenon DEF Crash, Counts
<1>6. CASE RebuildActiveRefs BY <1>b, <1>6 DEF RebuildActiveRefs, Counts
<1>7. RecoveryStep => \/ RebuildActiveRefs
                      \/ UNCHANGED in_flight_restores /\ UNCHANGED in_use_count
  BY Zenon DEF RecoveryStep, LoadFromDisk, RecoverSandboxes, CollectActive,
         GcOrphanedConsumed, Serve, pool
<1>8. (\E s \in Sandboxes : Create(s)) =>
        UNCHANGED in_flight_restores /\ UNCHANGED in_use_count
  BY DEF Create, pool
<1>9. CASE UNCHANGED in_flight_restores /\ UNCHANGED in_use_count BY <1>b, <1>9
<1> QED
  BY <1>1, <1>2, <1>3, <1>4, <1>5, <1>6, <1>7, <1>8, <1>9 DEF Next, TaskStep

\* The template directories and markers keep their type.
LEMMA DiskTyped ==
  ASSUME TasksOK, dir \in [Templates -> {"unborn", "absent", "staged", "saved"}],
         consumed \in SUBSET Templates, Next
  PROVE  /\ (dir \in [Templates -> {"unborn", "absent", "staged", "saved"}])'
         /\ (consumed \in SUBSET Templates)'
<1>1. ASSUME NEW p \in Tasks, StartStep(p)
      PROVE  UNCHANGED dir /\ consumed' \in SUBSET Templates
  <2>1. task[p].pc = "marking" => task[p].tmpl \in Templates
    BY TaskFields DEF StartPcs
  <2> QED BY <1>1, <2>1, Zenon
       DEF StartStep, MarkConsumed, MarkFailed, Validated, Rejected, BeginRestore,
           RestoreFailed, Restored, PostFailed, PostCleared, Dumped, Complete,
           FailShared, RemoveMarker, PushBack, pool
<1>2. ASSUME NEW p \in Tasks, Request(p)
      PROVE  /\ UNCHANGED consumed
             /\ UNCHANGED dir \/ \E t : dir' = [dir EXCEPT ![t] = "staged"]
  BY <1>2, Zenon DEF Request, StartWithKey, StartWithId, DeleteLookup, RemoveById, AddBegin,
              Maintain, pool
<1>3. ASSUME NEW p \in Tasks, DeleteStep(p) \/ GcStep(p)
      PROVE  /\ consumed' \subseteq consumed
             /\ UNCHANGED dir \/ \E t : dir' = [dir EXCEPT ![t] = "absent"]
  BY <1>3, Zenon DEF DeleteStep, DeleteBody, DestroyStop, DestroyDir, DeleteFailed,
              DeleteRelease, DeleteUnlock, DeleteRemove, GcStep, GcTotal, GcSelect,
              SweepRetain, SweepDone, SweepRemove, SweepFailed, pool
<1>4. ASSUME NEW p \in Tasks, AddStep(p)
      PROVE  /\ consumed' \subseteq consumed
             /\ \/ UNCHANGED dir
                \/ \E t : dir' = [dir EXCEPT ![t] = "absent"]
                \/ \E t : dir' = [dir EXCEPT ![t] = "saved"]
  BY <1>4, Zenon DEF AddStep, AddTotal, AddSelect, AddKey, AddEvict, AddRetain, AddFailed,
              AddAbandoned, AddSave, AddPush, pool
<1>5. RecoveryStep =>
        /\ consumed' \subseteq consumed
        /\ UNCHANGED dir \/ \E t : dir' = [dir EXCEPT ![t] = "absent"]
  BY Zenon DEF RecoveryStep, LoadFromDisk, RecoverSandboxes, CollectActive, RebuildActiveRefs,
         GcOrphanedConsumed, Serve, pool
<1>6. (\E s \in Sandboxes : Create(s)) \/ Crash => UNCHANGED dir /\ UNCHANGED consumed
  BY Zenon DEF Create, Crash, pool
<1>7. /\ consumed' \in SUBSET Templates
      /\ \/ UNCHANGED dir
         \/ \E t : dir' = [dir EXCEPT ![t] = "staged"]
         \/ \E t : dir' = [dir EXCEPT ![t] = "absent"]
         \/ \E t : dir' = [dir EXCEPT ![t] = "saved"]
  BY <1>1, <1>2, <1>3, <1>4, <1>5, <1>6 DEF Next, TaskStep
<1> QED BY <1>7

\* The dumps on disk keep their type.
LEMMA DumpedTyped ==
  ASSUME TasksOK, dumped \in [Sandboxes -> Templates \cup {None, NoDir}], Next
  PROVE  (dumped \in [Sandboxes -> Templates \cup {None, NoDir}])'
<1>1. ASSUME NEW p \in Tasks, TaskStep(p)
      PROVE  \/ UNCHANGED dumped
             \/ \E s, d : /\ d \in Templates \cup {None, NoDir}
                          /\ dumped' = [dumped EXCEPT ![s] = d]
  <2>1. CASE Dumped(p)
    BY <2>1, TaskFields DEF Dumped, StartPcs
  <2>2. CASE DeleteStep(p)
    BY <2>2 DEF DeleteStep, DeleteBody, DestroyStop, DestroyDir, DeleteFailed,
                DeleteRelease, DeleteUnlock, DeleteRemove
  <2>3. StartStep(p) => Dumped(p) \/ UNCHANGED dumped
    BY Zenon DEF StartStep, MarkConsumed, MarkFailed, Validated, Rejected, BeginRestore,
           RestoreFailed, Restored, PostFailed, PostCleared, Complete,
           FailShared, RemoveMarker, PushBack
  <2>4. GcStep(p) \/ AddStep(p) => UNCHANGED dumped
    BY Zenon DEF GcStep, GcTotal, GcSelect, SweepRetain, SweepDone, SweepRemove,
           SweepFailed, AddStep, AddTotal, AddSelect, AddKey, AddEvict, AddRetain,
           AddFailed, AddAbandoned, AddSave, AddPush
  <2> QED BY <1>1, <2>1, <2>2, <2>3, <2>4 DEF TaskStep
<1>2. ASSUME NEW p \in Tasks, Request(p) PROVE UNCHANGED dumped
  BY <1>2, Zenon DEF Request, StartWithKey, StartWithId, DeleteLookup, RemoveById, AddBegin,
              Maintain
<1>3. CASE RecoverSandboxes BY <1>3, Zenon DEF RecoverSandboxes
<1>4. RecoveryStep => RecoverSandboxes \/ UNCHANGED dumped
  BY DEF RecoveryStep, LoadFromDisk, CollectActive, RebuildActiveRefs,
         GcOrphanedConsumed, Serve
<1>5. CASE \E s \in Sandboxes : Create(s) BY <1>5 DEF Create
<1>6. CASE UNCHANGED dumped BY <1>6
<1>7. CASE \E s, d : /\ d \in Templates \cup {None, NoDir}
                     /\ dumped' = [dumped EXCEPT ![s] = d]
  BY <1>7, Zenon
<1>8. Crash => UNCHANGED dumped BY Zenon DEF Crash
<1> QED BY <1>1, <1>2, <1>3, <1>4, <1>5, <1>6, <1>7, <1>8 DEF Next

Phases == {"serving", "down", "loaded", "recovered", "collected", "rebuilt"}

RecoveryType == [ids : SUBSET Templates, refs : [Templates -> Nat],
                 scan : SUBSET Templates]

\* The phase, the recovery's variables and the count of crashes keep their type.
LEMMA ProcessTyped ==
  ASSUME sandbox \in [Sandboxes -> SandboxType], phase \in Phases,
         recovery \in RecoveryType, crashes \in 0 .. MaxCrashes, Next
  PROVE  (phase \in Phases /\ recovery \in RecoveryType /\ crashes \in 0 .. MaxCrashes)'
<1>0. NoRecovery \in RecoveryType
  BY DEF NoRecovery, RecoveryType
<1>1. ASSUME NEW p \in Tasks, TaskStep(p) \/ Request(p)
      PROVE  UNCHANGED phase /\ UNCHANGED recovery /\ UNCHANGED crashes
  <2>1. CASE StartStep(p)
    BY <2>1, Zenon DEF StartStep, MarkConsumed, MarkFailed, Validated, Rejected, BeginRestore,
           RestoreFailed, Restored, PostFailed, PostCleared, Dumped, Complete,
           FailShared, RemoveMarker, PushBack
  <2>2. CASE DeleteStep(p)
    BY <2>2 DEF DeleteStep, DeleteBody, DestroyStop, DestroyDir, DeleteFailed,
                DeleteRelease, DeleteUnlock, DeleteRemove
  <2>3. CASE GcStep(p) \/ AddStep(p)
    BY <2>3, Zenon DEF GcStep, GcTotal, GcSelect, SweepRetain, SweepDone, SweepRemove,
           SweepFailed, AddStep, AddTotal, AddSelect, AddKey, AddEvict, AddRetain,
           AddFailed, AddAbandoned, AddSave, AddPush
  <2>4. CASE Request(p)
    BY <2>4, Zenon DEF Request, StartWithKey, StartWithId, DeleteLookup, RemoveById, AddBegin,
              Maintain
  <2> QED BY <1>1, <2>1, <2>2, <2>3, <2>4 DEF TaskStep
<1>2. (\E s \in Sandboxes : Create(s)) =>
        UNCHANGED phase /\ UNCHANGED recovery /\ UNCHANGED crashes
  BY DEF Create
<1>3. CASE Crash
  <2>0. crashes < MaxCrashes /\ MaxCrashes \in Nat
    BY <1>3, PoolAssumption, Zenon DEF Crash
  <2>1. crashes + 1 \in 0 .. MaxCrashes
    BY <2>0
  <2> QED BY <1>0, <1>3, <2>1, Zenon DEF Crash, Phases
<1>4. CASE LoadFromDisk BY <1>4 DEF LoadFromDisk, Phases
<1>5. CASE RecoverSandboxes BY <1>5, Zenon DEF RecoverSandboxes, Phases
<1>6. CASE CollectActive
  <2> DEFINE ids == {sandbox[s].template : s \in
                       {x \in Sandboxes : sandbox[x].inMap}} \ {None}
  <2>1. ids \in SUBSET Templates
    BY DEF SandboxType
  <2>2. [ids |-> ids, refs |-> ActiveRefs, scan |-> Templates] \in RecoveryType
    BY <2>1, ActiveRefsType DEF RecoveryType
  <2> QED BY <1>6, <2>2 DEF CollectActive, Phases
<1>7. CASE RebuildActiveRefs BY <1>7 DEF RebuildActiveRefs, Phases
<1>8. ASSUME NEW t \in Templates, GcOrphanedConsumed(t)
      PROVE (phase \in Phases /\ recovery \in RecoveryType /\ crashes \in 0 .. MaxCrashes)'
  <2>1. [recovery EXCEPT !.scan = @ \ {t}] \in RecoveryType
    BY DEF RecoveryType
  <2> QED BY <1>8, <2>1 DEF GcOrphanedConsumed
<1>9. CASE Serve BY <1>0, <1>9 DEF Serve, Phases
<1>10. CASE UNCHANGED phase /\ UNCHANGED recovery /\ UNCHANGED crashes BY <1>10
<1> QED
  BY <1>1, <1>2, <1>3, <1>4, <1>5, <1>6, <1>7, <1>8, <1>9, <1>10 DEF Next, RecoveryStep

\* The tasks keep their type and shape.
LEMMA TasksTyped ==
  ASSUME TasksOK, available \in [Keys -> Seq(Templates)],
         sandbox \in [Sandboxes -> SandboxType], Next
  PROVE  TasksOK'
<1>1. CASE Crash BY <1>1, IdleTaskType, Zenon DEF Crash, TasksOK
<1>2. (\E s \in Sandboxes : Create(s)) \/ RecoveryStep => UNCHANGED task
  BY Zenon DEF Create, RecoveryStep, LoadFromDisk, RecoverSandboxes, CollectActive,
         RebuildActiveRefs, GcOrphanedConsumed, Serve
<1>3. CASE UNCHANGED task BY <1>3 DEF TasksOK
<1> QED
  BY <1>1, <1>2, <1>3, StartTaskType, DeleteTaskType, GcTaskType, AddTaskType,
     RequestTaskType DEF Next, TaskStep

\* Every variable keeps its type: the induction step.
LEMMA TypeStep ==
  ASSUME TypeOK, TasksOK, [Next]_vars
  PROVE  TypeOK' /\ TasksOK'
<1>0. /\ available \in [Keys -> Seq(Templates)]
      /\ in_flight_restores \in [Templates -> Nat]
      /\ in_use_count \in [Templates -> Nat]
      /\ dir \in [Templates -> {"unborn", "absent", "staged", "saved"}]
      /\ consumed \in SUBSET Templates
      /\ sandbox \in [Sandboxes -> SandboxType]
      /\ dumped \in [Sandboxes -> Templates \cup {None, NoDir}]
      /\ phase \in Phases /\ recovery \in RecoveryType /\ crashes \in 0 .. MaxCrashes
  BY DEF TypeOK, Phases, RecoveryType
<1>1. recovery.refs \in [Templates -> Nat]
  BY <1>0 DEF RecoveryType
<1>2. CASE Next
  <2>1. TasksOK' BY <1>0, <1>2, TasksTyped
  <2>2. (task \in [Tasks -> TaskType])' BY <2>1 DEF TasksOK, ShapedTask
  <2> QED BY <1>0, <1>1, <1>2, <2>1, <2>2, AvailableTyped, CountsTyped, DiskTyped,
             SandboxTyped, DumpedTyped, ProcessTyped DEF TypeOK, Phases, RecoveryType
<1>3. CASE UNCHANGED vars BY <1>3 DEF vars, TypeOK, TasksOK
<1> QED BY <1>2, <1>3

\* The initial state is well typed.
LEMMA TypeInit ==
  ASSUME Init
  PROVE  TypeOK /\ TasksOK
<1>1. available \in [Keys -> Seq(Templates)]
  BY PoolAssumption, ListingsType, Zenon DEF Init
<1>2. NoSandbox \in SandboxType
  BY DEF NoSandbox, SandboxType
<1>3. NoRecovery \in RecoveryType
  BY DEF NoRecovery, RecoveryType
<1>4. TasksOK
  BY IdleTaskType DEF Init, TasksOK
<1>5. task \in [Tasks -> TaskType]
  BY <1>4 DEF TasksOK, ShapedTask
<1> QED BY <1>1, <1>2, <1>3, <1>4, <1>5, PoolAssumption
        DEF Init, TypeOK, Phases, RecoveryType

\* In every reachable state every variable of the pool, of its tasks and of the
\* recovery has its type: counts stay natural numbers through deref and
\* end_restore, queues hold templates, a task of a start has a template and a
\* sandbox.
THEOREM TypeCorrect == Spec => [](TypeOK /\ TasksOK)
<1>1. Init => TypeOK /\ TasksOK BY TypeInit
<1>2. (TypeOK /\ TasksOK) /\ [Next]_vars => (TypeOK /\ TasksOK)' BY TypeStep
<1> QED BY <1>1, <1>2, PTL DEF Spec
=============================================================================
