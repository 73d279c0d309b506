------------------------- MODULE TemplatePoolTasks --------------------------
(***************************************************************************)
(* The tasks of TemplatePool keep their type: whatever operation a task    *)
(* runs, its local variables have the values the operation's next step     *)
(* expects.                                                                *)
(***************************************************************************)
EXTENDS TemplatePool, FiniteSetTheorems, TLAPS

AllPcs == {"idle"} \cup StartPcs \cup DeletePcs \cup GcPcs \cup AddPcs

EvictPcs == {"add_evict", "add_retain"}

\* A start and an add work on a template, a start and a delete on a sandbox; an
\* eviction made by an add returns to the add.
Shaped(r) ==
  /\ Point(r) \in StartPcs \cup AddPcs => r.tmpl \in Templates
  /\ Point(r) \in StartPcs \cup DeletePcs => r.sb \in Sandboxes
  /\ r.pc \in EvictPcs => r.next \in {"add_key", "add_save"}

ShapedTask == {r \in TaskType : Shaped(r)}

TasksOK == task \in [Tasks -> ShapedTask]

\* An idle task, as Finish leaves one, has the shape the invariant asks for.
LEMMA IdleTaskType == IdleTask \in ShapedTask
BY DEF IdleTask, TaskType, NextPcs, ShapedTask, Shaped, Point, GcPcs, StartPcs,
       AddPcs, DeletePcs, EvictPcs

\* A step that gives one task a well-shaped record keeps every task well shaped.
LEMMA BecomeType ==
  ASSUME TasksOK, NEW p \in Tasks, NEW r \in ShapedTask, Become(p, r)
  PROVE  TasksOK'
BY DEF Become, TasksOK

\* The pcs of the operations differ.
LEMMA PcsDisjoint ==
  /\ StartPcs \cap GcPcs = {} /\ DeletePcs \cap GcPcs = {} /\ AddPcs \cap GcPcs = {}
  /\ StartPcs \cap DeletePcs = {} /\ StartPcs \cap AddPcs = {}
  /\ DeletePcs \cap AddPcs = {}
  /\ "idle" \notin StartPcs \cup DeletePcs \cup AddPcs \cup GcPcs
  /\ EvictPcs \cap (StartPcs \cup DeletePcs \cup GcPcs \cup NextPcs) = {}
  /\ EvictPcs \subseteq AddPcs
BY DEF StartPcs, DeletePcs, GcPcs, AddPcs, EvictPcs, NextPcs

\* A step within a start, a delete or an add keeps the task's shape.
LEMMA GotoType ==
  ASSUME TasksOK, NEW p \in Tasks, NEW pc,
         \/ task[p].pc \in StartPcs /\ pc \in StartPcs
         \/ task[p].pc \in DeletePcs /\ pc \in DeletePcs
         \/ task[p].pc \in AddPcs /\ pc \in AddPcs \ EvictPcs,
         Goto(p, pc)
  PROVE  TasksOK'
<1> DEFINE r == [task[p] EXCEPT !.pc = pc]
<1>1. task[p] \in TaskType /\ Shaped(task[p])
  BY DEF TasksOK, ShapedTask
<1>2. r \in TaskType
  BY <1>1 DEF TaskType
<1>3. r.pc = pc /\ r.tmpl = task[p].tmpl /\ r.sb = task[p].sb
  BY <1>1 DEF TaskType
<1>4. Shaped(r)
  BY <1>1, <1>3, PcsDisjoint DEF Shaped, Point
<1> QED BY <1>2, <1>4, BecomeType DEF Goto, ShapedTask

\* A request that returns keeps the tasks well shaped.
LEMMA FinishType ==
  ASSUME TasksOK, NEW p \in Tasks, Finish(p)
  PROVE  TasksOK'
BY IdleTaskType, BecomeType DEF Finish

\* A collection keeps the task's shape if the task's next point fits it.
LEMMA GcThenType ==
  ASSUME TasksOK, NEW p \in Tasks, NEW trigger, NEW pc \in NextPcs,
         \/ pc = "idle"
         \/ At(p) \in StartPcs /\ pc \in StartPcs
         \/ At(p) \in DeletePcs /\ pc \in DeletePcs
         \/ At(p) \in AddPcs /\ pc \in AddPcs,
         GcThen(p, trigger, pc)
  PROVE  TasksOK'
<1> DEFINE r1 == [task[p] EXCEPT !.pc = "gc_total", !.next = pc]
           r2 == [task[p] EXCEPT !.pc = pc]
<1>1. task[p] \in TaskType /\ Shaped(task[p])
  BY DEF TasksOK, ShapedTask
<1>2. pc \in AllPcs /\ pc \notin GcPcs /\ "gc_total" \in GcPcs
  BY DEF NextPcs, AllPcs, StartPcs, DeletePcs, AddPcs, GcPcs
<1>3. r1 \in TaskType /\ r2 \in TaskType
  BY <1>1, <1>2, Zenon DEF TaskType, AllPcs
<1>4. /\ r1.pc = "gc_total" /\ r1.next = pc /\ r1.tmpl = task[p].tmpl /\ r1.sb = task[p].sb
      /\ r2.pc = pc /\ r2.tmpl = task[p].tmpl /\ r2.sb = task[p].sb
  BY <1>1 DEF TaskType
<1>5. Shaped(r1) /\ (pc # "idle" => Shaped(r2))
  BY <1>1, <1>2, <1>4, PcsDisjoint DEF Shaped, Point, At
<1> QED BY <1>3, <1>5, IdleTaskType, BecomeType DEF GcThen, ShapedTask

\* A collection goes on where its task's next field says.
LEMMA GcResumeType ==
  ASSUME TasksOK, NEW p \in Tasks, task[p].pc \in GcPcs, NEW trigger,
         GcThen(p, trigger, task[p].next)
  PROVE  TasksOK'
<1>1. task[p].next \in NextPcs /\ At(p) = task[p].next
  BY DEF TasksOK, ShapedTask, TaskType, At, Point
<1>2. NextPcs \subseteq {"idle"} \cup StartPcs \cup DeletePcs \cup AddPcs
  BY DEF NextPcs, StartPcs, DeletePcs, AddPcs
<1> QED BY <1>1, <1>2, GcThenType, Zenon

\* Within a collection only the pc and the fields of the sweep change.
LEMMA SweepType ==
  ASSUME TasksOK, NEW p \in Tasks, task[p].pc \in GcPcs, NEW r \in TaskType,
         r.pc \in GcPcs, r.next = task[p].next, r.tmpl = task[p].tmpl,
         r.sb = task[p].sb, Become(p, r)
  PROVE  TasksOK'
<1>1. Shaped(task[p])
  BY DEF TasksOK, ShapedTask
<1>2. Shaped(r)
  BY <1>1, PcsDisjoint DEF Shaped, Point
<1> QED BY <1>2, BecomeType DEF ShapedTask

\* TemplateLease::new: a start that gets its template has a sandbox and a template.
LEMMA LeaseType ==
  ASSUME TasksOK, NEW p \in Tasks, NEW s \in Sandboxes, NEW t \in Templates,
         NEW pc \in StartPcs, Lease(p, s, t, pc)
  PROVE  TasksOK'
<1> DEFINE R(b) == [IdleTask EXCEPT !.pc = pc, !.sb = s, !.tmpl = t, !.late = b]
<1>1. \A b \in BOOLEAN : R(b) \in TaskType
  BY IdleTaskType, Zenon DEF TaskType, ShapedTask
<1>2. \A b \in BOOLEAN : R(b).pc = pc /\ R(b).tmpl = t /\ R(b).sb = s
  BY DEF IdleTask
<1>3. \A b \in BOOLEAN : Shaped(R(b))
  BY <1>2, PcsDisjoint DEF Shaped, Point
<1>4. (t \in Targeted \cup Leaving) \in BOOLEAN
  OBVIOUS
<1>5. R(t \in Targeted \cup Leaving) \in ShapedTask
  BY <1>1, <1>3, <1>4, Zenon DEF ShapedTask
<1> QED BY <1>5, BecomeType DEF Lease

\* The pool's entries are templates, and there are finitely many.
LEMMA PooledFinite ==
  ASSUME available \in [Keys -> Seq(Templates)]
  PROVE  /\ Pooled \subseteq Templates
         /\ IsFiniteSet(Pooled)
         /\ total_depth \in Nat
<1>1. Pooled \subseteq Templates
  BY DEF Pooled, ToSet
<1>2. IsFiniteSet(Pooled)
  BY <1>1, PoolAssumption, FS_Subset
<1> QED BY <1>1, <1>2, FS_CardinalityType DEF total_depth

\* A task of a start keeps its type.
LEMMA StartTaskType ==
  ASSUME TasksOK, NEW p \in Tasks, StartStep(p)
  PROVE  TasksOK'
<1> USE DEF StartPcs
<1>1. CASE MarkConsumed(p) BY <1>1, GotoType DEF MarkConsumed
<1>2. CASE MarkFailed(p) BY <1>2, FinishType DEF MarkFailed
<1>3. CASE Validated(p) BY <1>3, GotoType DEF Validated
<1>4. CASE Rejected(p) BY <1>4, GotoType DEF Rejected
<1>5. CASE BeginRestore(p) BY <1>5, GotoType DEF BeginRestore
<1>6. CASE RestoreFailed(p) BY <1>6, GotoType DEF RestoreFailed
<1>7. CASE Restored(p) BY <1>7, GotoType DEF Restored
<1>8. CASE PostFailed(p)
  <2>1. At(p) \in StartPcs /\ "post_clear" \in NextPcs
    BY <1>8 DEF PostFailed, At, Point, GcPcs, NextPcs
  <2> QED BY <1>8, <2>1, GotoType, GcThenType DEF PostFailed, deref
<1>9. CASE PostCleared(p) BY <1>9, GotoType DEF PostCleared
<1>10. CASE Dumped(p) BY <1>10, GotoType DEF Dumped
<1>11. CASE Complete(p)
  BY <1>11, FinishType, GcThenType DEF Complete, end_restore, NextPcs
<1>12. CASE FailShared(p)
  BY <1>12, GcThenType DEF FailShared, end_restore, deref, NextPcs
<1>13. CASE RemoveMarker(p) BY <1>13, GotoType DEF RemoveMarker
<1>14. CASE PushBack(p) BY <1>14, FinishType DEF PushBack
<1> QED
  BY <1>1, <1>2, <1>3, <1>4, <1>5, <1>6, <1>7, <1>8, <1>9, <1>10, <1>11, <1>12,
     <1>13, <1>14 DEF StartStep

\* A task of a delete keeps its type.
LEMMA DeleteTaskType ==
  ASSUME TasksOK, sandbox \in [Sandboxes -> SandboxType],
         NEW p \in Tasks, DeleteStep(p)
  PROVE  TasksOK'
<1> USE DEF DeletePcs
<1> DEFINE s == task[p].sb
<1>0. ASSUME task[p].pc = "del_wait", NEW pc \in DeletePcs,
             Become(p, [task[p] EXCEPT !.pc = pc, !.tmpl = sandbox[s].template])
      PROVE  TasksOK'
  <2> DEFINE r == [task[p] EXCEPT !.pc = pc, !.tmpl = sandbox[s].template]
  <2>1. task[p] \in TaskType /\ Shaped(task[p])
    BY DEF TasksOK, ShapedTask
  <2>2. s \in Sandboxes
    BY <1>0, <2>1, PcsDisjoint DEF Shaped, Point
  <2>3. sandbox[s].template \in Templates \cup {None}
    BY <2>2 DEF SandboxType
  <2>4. r \in TaskType
    BY <2>1, <2>3, Zenon DEF TaskType
  <2>5. r.pc = pc /\ r.sb = s
    BY <2>1 DEF TaskType
  <2>6. Shaped(r)
    BY <2>2, <2>5, PcsDisjoint DEF Shaped, Point
  <2> QED BY <1>0, <2>4, <2>6, BecomeType DEF ShapedTask
<1>1. CASE DeleteBody(p) BY <1>0, <1>1 DEF DeleteBody
<1>2. CASE DestroyStop(p) BY <1>0, <1>2 DEF DestroyStop
<1>3. CASE DestroyDir(p) BY <1>3, GotoType DEF DestroyDir
<1>4. CASE DeleteFailed(p) BY <1>4, FinishType DEF DeleteFailed
<1>5. CASE DeleteRelease(p)
  <2>1. At(p) \in DeletePcs /\ "del_unlock" \in NextPcs
    BY <1>5 DEF DeleteRelease, At, Point, GcPcs, NextPcs
  <2> QED BY <1>5, <2>1, GotoType, GcThenType DEF DeleteRelease, deref
<1>6. CASE DeleteUnlock(p) BY <1>6, GotoType DEF DeleteUnlock
<1>7. CASE DeleteRemove(p) BY <1>7, FinishType DEF DeleteRemove
<1> QED BY <1>1, <1>2, <1>3, <1>4, <1>5, <1>6, <1>7 DEF DeleteStep

\* A collection keeps its task's type.
LEMMA GcTaskType ==
  ASSUME TasksOK, available \in [Keys -> Seq(Templates)],
         NEW p \in Tasks, GcStep(p)
  PROVE  TasksOK'
<1> USE DEF GcPcs
<1>0. task[p] \in TaskType
  BY DEF TasksOK, ShapedTask
<1>1. CASE GcTotal(p)
  <2> DEFINE r == [task[p] EXCEPT !.pc = "gc_select", !.total = total_depth]
  <2>1. r \in TaskType /\ r.pc = "gc_select" /\ r.next = task[p].next
        /\ r.tmpl = task[p].tmpl /\ r.sb = task[p].sb
    BY <1>0, PooledFinite, Zenon DEF TaskType
  <2> QED BY <1>1, <2>1, GcResumeType, SweepType, Zenon DEF GcTotal
<1>2. CASE GcSelect(p)
  <2>1. PICK V \in Oldest({t \in Pooled : Unreferenced(t) /\ ~Exclusive(t)},
                          task[p].total - GcWatermark) :
          Become(p, [task[p] EXCEPT !.pc = "sweep", !.victims = V])
    BY <1>2, Zenon DEF GcSelect
  <2> DEFINE r == [task[p] EXCEPT !.pc = "sweep", !.victims = V]
  <2>2. V \subseteq Templates
    BY <2>1, PooledFinite DEF Oldest
  <2>3. r \in TaskType /\ r.pc = "sweep" /\ r.next = task[p].next
        /\ r.tmpl = task[p].tmpl /\ r.sb = task[p].sb
    BY <1>0, <2>2, Zenon DEF TaskType
  <2> QED BY <1>2, <2>1, <2>3, SweepType, Zenon DEF GcSelect
<1>3. CASE SweepRetain(p)
  <2> DEFINE r == [task[p] EXCEPT !.pc = "sweep", !.gone = None]
  <2>1. r \in TaskType /\ r.pc = "sweep" /\ r.next = task[p].next
        /\ r.tmpl = task[p].tmpl /\ r.sb = task[p].sb
    BY <1>0, Zenon DEF TaskType
  <2> QED BY <1>3, <2>1, SweepType, Zenon DEF SweepRetain
<1>4. CASE SweepDone(p) BY <1>4, GcResumeType, Zenon DEF SweepDone
<1>5. ASSUME NEW t \in Templates, SweepRemove(p, t)
      PROVE TasksOK'
  <2> DEFINE r == [task[p] EXCEPT !.pc = "sweep_retain", !.victims = @ \ {t}, !.gone = t]
  <2>1. r \in TaskType /\ r.pc = "sweep_retain" /\ r.next = task[p].next
        /\ r.tmpl = task[p].tmpl /\ r.sb = task[p].sb
    BY <1>0, Zenon DEF TaskType
  <2> QED BY <1>5, <2>1, SweepType, Zenon DEF SweepRemove
<1>6. ASSUME NEW t \in Templates, SweepFailed(p, t)
      PROVE TasksOK'
  <2> DEFINE r == [task[p] EXCEPT !.victims = @ \ {t}]
  <2>1. r \in TaskType /\ r.pc = task[p].pc /\ r.next = task[p].next
        /\ r.tmpl = task[p].tmpl /\ r.sb = task[p].sb
    BY <1>0 DEF TaskType
  <2> QED BY <1>6, <2>1, SweepType, Zenon DEF SweepFailed
<1> QED BY <1>1, <1>2, <1>3, <1>4, <1>5, <1>6 DEF GcStep

\* Choosing what to evict keeps the task of an add.
LEMMA EvictType ==
  ASSUME TasksOK, NEW p \in Tasks, task[p].pc \in AddPcs,
         NEW V \in SUBSET Templates, NEW pc \in {"add_key", "add_save"},
         Evict(p, V, pc)
  PROVE  TasksOK'
<1> DEFINE r == [task[p] EXCEPT !.pc = "add_evict", !.victims = V, !.next = pc]
<1>1. task[p] \in TaskType /\ Shaped(task[p])
  BY DEF TasksOK, ShapedTask
<1>2. r \in TaskType
  BY <1>1, Zenon DEF TaskType, NextPcs, AddPcs
<1>3. r.pc = "add_evict" /\ r.tmpl = task[p].tmpl /\ r.next = pc
  BY <1>1 DEF TaskType
<1>4. "add_evict" \in AddPcs
  BY DEF AddPcs
<1>5. Shaped(r)
  BY <1>1, <1>3, <1>4, PcsDisjoint DEF Shaped, Point
<1> QED BY <1>2, <1>5, BecomeType DEF Evict, ShapedTask

\* A task of an add keeps its type.
LEMMA AddTaskType ==
  ASSUME TasksOK, available \in [Keys -> Seq(Templates)],
         NEW p \in Tasks, AddStep(p)
  PROVE  TasksOK'
<1>0. task[p] \in TaskType /\ Shaped(task[p])
  BY DEF TasksOK, ShapedTask
<1>0a. AddPcs = {"add_total", "add_select", "add_key", "add_evict", "add_retain",
                 "add_save", "add_push"}
  BY DEF AddPcs
<1>0b. task[p].pc \in AddPcs => task[p].tmpl \in Templates
  BY <1>0, PcsDisjoint DEF Shaped, Point
<1>1. CASE AddTotal(p) BY <1>1, <1>0a, GotoType DEF AddTotal, EvictPcs
<1>2. CASE AddSelect(p)
  <2>1. PICK V \in Oldest({t \in Pooled : Unreferenced(t) /\ ~Exclusive(t)}, 1) :
          Evict(p, V, "add_key")
    BY <1>2, Zenon DEF AddSelect
  <2>2. V \in SUBSET Templates
    BY <2>1, PooledFinite DEF Oldest
  <2> QED BY <1>2, <1>0a, <2>1, <2>2, EvictType DEF AddSelect
<1>3. CASE AddKey(p)
  <2> DEFINE q == available[KeyOf[task[p].tmpl]]
  <2>1. q \in Seq(Templates)
    BY <1>3, <1>0a, <1>0b, PoolAssumption DEF AddKey
  <2>2. q # <<>> => {Head(q)} \in SUBSET Templates
    BY <2>1, SMTT(60)
  <2>3. \/ q # <<>> /\ Evict(p, {Head(q)}, "add_save")
        \/ Goto(p, "add_save")
    BY <1>3 DEF AddKey
  <2>4. task[p].pc \in AddPcs
    BY <1>3, <1>0a DEF AddKey
  <2> QED BY <1>0a, <2>2, <2>3, <2>4, EvictType, GotoType DEF EvictPcs
<1>4. CASE AddEvict(p)
  <2>1. PICK v \in task[p].victims :
          Become(p, [task[p] EXCEPT !.pc = "add_retain", !.victims = {}, !.gone = v])
    BY <1>4, Zenon DEF AddEvict
  <2> DEFINE r == [task[p] EXCEPT !.pc = "add_retain", !.victims = {}, !.gone = v]
  <2>2. v \in Templates
    BY <1>0, <2>1 DEF TaskType
  <2>3. r \in TaskType /\ r.pc = "add_retain" /\ r.tmpl = task[p].tmpl
        /\ r.next = task[p].next
    BY <1>0, <1>0a, <2>2, Zenon DEF TaskType
  <2>4. task[p].tmpl \in Templates
    BY <1>4, <1>0a, <1>0b DEF AddEvict
  <2>5. task[p].next \in {"add_key", "add_save"}
    BY <1>4, <1>0 DEF AddEvict, Shaped, EvictPcs
  <2>6. Shaped(r)
    BY <1>0a, <2>3, <2>4, <2>5, PcsDisjoint DEF Shaped, Point
  <2> QED BY <2>1, <2>3, <2>6, BecomeType DEF ShapedTask
<1>5. CASE AddRetain(p)
  <2> DEFINE r == [task[p] EXCEPT !.pc = task[p].next, !.gone = None]
  <2>1. task[p].next \in AddPcs \ EvictPcs
    BY <1>5, <1>0 DEF AddRetain, Shaped, EvictPcs, AddPcs
  <2>2. r \in TaskType /\ r.pc = task[p].next /\ r.tmpl = task[p].tmpl /\ r.sb = task[p].sb
    BY <1>0, <2>1, Zenon DEF TaskType
  <2>3. task[p].tmpl \in Templates
    BY <1>5, <1>0a, <1>0b DEF AddRetain
  <2>4. Shaped(r)
    BY <2>1, <2>2, <2>3, PcsDisjoint DEF Shaped, Point
  <2> QED BY <1>5, <2>2, <2>4, BecomeType DEF AddRetain, ShapedTask
<1>6. CASE AddFailed(p) BY <1>6, FinishType DEF AddFailed
<1>7. CASE AddAbandoned(p) BY <1>7, FinishType DEF AddAbandoned
<1>8. CASE AddSave(p) BY <1>8, <1>0a, GotoType DEF AddSave, EvictPcs
<1>9. CASE AddPush(p) BY <1>9, FinishType DEF AddPush
<1> QED BY <1>1, <1>2, <1>3, <1>4, <1>5, <1>6, <1>7, <1>8, <1>9 DEF AddStep

\* A request starts with a well-typed task.
LEMMA RequestTaskType ==
  ASSUME TasksOK, available \in [Keys -> Seq(Templates)],
         NEW p \in Tasks, Request(p)
  PROVE  TasksOK'
<1>0. ASSUME NEW s \in Sandboxes, NEW t \in Templates,
             PeekForRestore(p, s, t) \/ PeekWithRef(p, s, t) \/ Acquire(p, s, t)
      PROVE  TasksOK'
  BY <1>0, LeaseType DEF PeekForRestore, PeekWithRef, Acquire, StartPcs
<1>1. ASSUME NEW s \in Sandboxes, NEW k \in Keys, StartWithKey(p, s, k)
      PROVE  TasksOK'
  <2>1. available[k] \in Seq(Templates) /\ available[k] # <<>>
    BY <1>1 DEF StartWithKey
  <2>2. Back(k) \in Templates
    BY <2>1 DEF Back, Last
  <2> QED BY <1>0, <1>1, <2>2 DEF StartWithKey
<1>2. ASSUME NEW s \in Sandboxes, NEW t \in Templates, StartWithId(p, s, t)
      PROVE  TasksOK'
  BY <1>0, <1>2 DEF StartWithId, TasksOK
<1>3. ASSUME NEW s \in Sandboxes, DeleteLookup(p, s)
      PROVE  TasksOK'
  <2> DEFINE r == [IdleTask EXCEPT !.pc = "del_wait", !.sb = s]
  <2>1. r \in TaskType
    BY IdleTaskType, Zenon DEF TaskType, DeletePcs, ShapedTask
  <2>2. Shaped(r)
    BY DEF IdleTask, Shaped, Point, GcPcs, DeletePcs, StartPcs, AddPcs, EvictPcs
  <2> QED BY <1>3, <2>1, <2>2, BecomeType DEF DeleteLookup, ShapedTask
<1>4. ASSUME NEW t \in Templates, RemoveById(p, t)
      PROVE  TasksOK'
  <2> DEFINE r == [IdleTask EXCEPT !.pc = "sweep", !.victims = {t}]
  <2>1. r \in TaskType
    BY IdleTaskType, Zenon DEF TaskType, GcPcs, ShapedTask
  <2>2. Shaped(r)
    BY DEF IdleTask, Shaped, Point, GcPcs, DeletePcs, StartPcs, AddPcs, EvictPcs
  <2> QED BY <1>4, <2>1, <2>2, BecomeType DEF RemoveById, ShapedTask
<1>5. ASSUME NEW t \in Templates, AddBegin(p, t)
      PROVE  TasksOK'
  <2> DEFINE r == [IdleTask EXCEPT !.pc = "add_total", !.tmpl = t]
  <2>1. r \in TaskType
    BY IdleTaskType, Zenon DEF TaskType, AddPcs, ShapedTask
  <2>2. Shaped(r)
    BY DEF IdleTask, Shaped, Point, GcPcs, DeletePcs, StartPcs, AddPcs, EvictPcs
  <2> QED BY <1>5, <2>1, <2>2, BecomeType DEF AddBegin, ShapedTask
<1>6. CASE Maintain(p) BY <1>6, GcThenType, Zenon DEF Maintain, NextPcs
<1> QED BY <1>1, <1>2, <1>3, <1>4, <1>5, <1>6 DEF Request
=============================================================================
