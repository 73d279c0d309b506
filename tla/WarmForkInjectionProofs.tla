----------------------- MODULE WarmForkInjectionProofs -----------------------
(***************************************************************************)
(* Warm-fork injection implements StartBarrier for any set of targets, and  *)
(* never tells one target to commit when another was told to cancel.         *)
(***************************************************************************)
EXTENDS WarmForkInjection, TLAPS

\* What a message on a connection, and the place a target's future is at, say
\* of the votes, the starts and the phase.
TargetInv(t) ==
  /\ "READY" \in toAgent[t] => t \in readied
  /\ agent[t] = "ready" => t \in readied
  /\ "STARTED" \in toAgent[t] => t \in begun
  /\ result[t] = "STARTED" => t \in begun
  /\ "COMMIT" \in toWork[t] => phase \in {"commit", "done"}
  /\ "CANCEL" \in toWork[t] => phase = "aborted"

\* The commit phase is reached without votes, or with all of them.
PhaseInv ==
  /\ autonomous => phase \notin {"prepare", "aborted"}
  /\ ~autonomous /\ phase \in {"commit", "done"} => readied = Targets

InjectInv == InjectTypeOK /\ PhaseInv /\ \A t \in Targets : TargetInv(t)

\* The initial states satisfy the invariant.
LEMMA InjectInitially == InjectInit => InjectInv
<1>1. InjectInit => InjectTypeOK
  BY DEF InjectInit, InjectTypeOK, Closed
<1>2. InjectInit => PhaseInv /\ \A t \in Targets : TargetInv(t)
  BY DEF InjectInit, PhaseInv, TargetInv
<1> QED  BY <1>1, <1>2 DEF InjectInv

\* Every step preserves the types.
LEMMA InjectTypes == InjectTypeOK /\ [InjectNext]_injectVars => InjectTypeOK'
<1> SUFFICES ASSUME InjectTypeOK, [InjectNext]_injectVars PROVE InjectTypeOK'
  OBVIOUS
<1> USE DEF InjectTypeOK, Closed, Write
<1>1. ASSUME NEW auto \in BOOLEAN, Inject(auto) PROVE InjectTypeOK'
  BY <1>1 DEF Inject
<1>2. ASSUME NEW t \in Targets, Connect(t) PROVE InjectTypeOK'
  BY <1>2 DEF Connect, Fail
<1>3. ASSUME NEW t \in Targets, Capabilities(t) PROVE InjectTypeOK'
  BY <1>3 DEF Capabilities, Fail
<1>4. ASSUME NEW t \in Targets, ReadReady(t) PROVE InjectTypeOK'
  BY <1>4 DEF ReadReady, Fail
<1>5. ASSUME NEW t \in Targets, SendCommit(t) PROVE InjectTypeOK'
  BY <1>5 DEF SendCommit, Fail
<1>6. ASSUME NEW t \in Targets, ReadStarted(t) PROVE InjectTypeOK'
  BY <1>6 DEF ReadStarted, Fail
<1>7. ASSUME NEW t \in Targets, Listen(t) \/ GiveUp(t) \/ Die(t) PROVE InjectTypeOK'
  BY <1>7 DEF Listen, GiveUp, Die
<1>8. ASSUME NEW t \in Targets, Accept(t) PROVE InjectTypeOK'
  BY <1>8 DEF Accept
<1>9. ASSUME NEW t \in Targets, Validate(t) PROVE InjectTypeOK'
  BY <1>9 DEF Validate
<1>10. ASSUME NEW t \in Targets, Begin(t) PROVE InjectTypeOK'
  BY <1>10 DEF Begin
<1>11. CASE Cancel
  BY <1>11 DEF Cancel
<1>12. CASE AllReady \/ Finish
  BY <1>12 DEF AllReady, Finish
<1>13. CASE PhaseTimeout
  BY <1>13 DEF PhaseTimeout, Settled
<1>14. CASE Answer \/ RpcFails
  BY <1>14 DEF Answer, RpcFails
<1>15. CASE UNCHANGED injectVars
  BY <1>15 DEF injectVars
<1> QED
  BY <1>1, <1>2, <1>3, <1>4, <1>5, <1>6, <1>7, <1>8, <1>9, <1>10, <1>11, <1>12, <1>13,
     <1>14, <1>15 DEF InjectNext, Future, Workload

\* Every step preserves what the invariant says of the phase.
LEMMA PhaseStep == InjectInv /\ [InjectNext]_injectVars => PhaseInv'
<1> SUFFICES ASSUME InjectInv, [InjectNext]_injectVars PROVE PhaseInv'
  OBVIOUS
<1> USE DEF InjectInv, PhaseInv
<1>1. ASSUME NEW auto \in BOOLEAN, Inject(auto) PROVE PhaseInv'
  BY <1>1 DEF Inject
<1>2. ASSUME NEW t \in Targets, Future(t) PROVE PhaseInv'
  BY <1>2 DEF Future, Connect, Capabilities, ReadReady, SendCommit, ReadStarted
<1>3. ASSUME NEW t \in Targets, Workload(t) PROVE PhaseInv'
  BY <1>3 DEF Workload, Listen, Accept, Validate, Begin, GiveUp, Die, InjectTypeOK
<1>4. CASE AllReady
  BY <1>4 DEF AllReady, TargetInv, InjectTypeOK
<1>5. CASE Cancel \/ Finish \/ PhaseTimeout
  BY <1>5 DEF Cancel, Finish, PhaseTimeout, Running
<1>6. CASE Answer \/ RpcFails
  BY <1>6 DEF Answer, RpcFails
<1>7. CASE UNCHANGED injectVars
  BY <1>7 DEF injectVars
<1> QED
  BY <1>1, <1>2, <1>3, <1>4, <1>5, <1>6, <1>7 DEF InjectNext

\* Every step preserves what the invariant says of each target.
LEMMA TargetStep ==
  InjectInv /\ [InjectNext]_injectVars => \A u \in Targets : TargetInv(u)'
<1> SUFFICES ASSUME InjectInv, [InjectNext]_injectVars, NEW u \in Targets PROVE TargetInv(u)'
  OBVIOUS
<1>0. TargetInv(u) /\ InjectTypeOK /\ PhaseInv
  BY DEF InjectInv
<1> USE <1>0 DEF TargetInv, Write, Reads
<1>1. ASSUME NEW auto \in BOOLEAN, Inject(auto) PROVE TargetInv(u)'
  BY <1>1 DEF Inject
<1>2. ASSUME NEW t \in Targets, Connect(t) PROVE TargetInv(u)'
  BY <1>2 DEF Connect, Fail, InjectTypeOK
<1>3. ASSUME NEW t \in Targets, Capabilities(t) PROVE TargetInv(u)'
  BY <1>3 DEF Capabilities, Fail, InjectTypeOK, Running, PhaseInv
<1>4. ASSUME NEW t \in Targets, ReadReady(t) PROVE TargetInv(u)'
  BY <1>4 DEF ReadReady, Fail, InjectTypeOK
<1>5. ASSUME NEW t \in Targets, SendCommit(t) PROVE TargetInv(u)'
  BY <1>5 DEF SendCommit, Fail, InjectTypeOK
<1>6. ASSUME NEW t \in Targets, ReadStarted(t) PROVE TargetInv(u)'
  BY <1>6 DEF ReadStarted, Fail, InjectTypeOK
<1>7. ASSUME NEW t \in Targets, Listen(t) \/ GiveUp(t) \/ Die(t) PROVE TargetInv(u)'
  BY <1>7 DEF Listen, GiveUp, Die, InjectTypeOK
<1>8. ASSUME NEW t \in Targets, Accept(t) PROVE TargetInv(u)'
  BY <1>8 DEF Accept, InjectTypeOK
<1>9. ASSUME NEW t \in Targets, Validate(t) PROVE TargetInv(u)'
  BY <1>9 DEF Validate, InjectTypeOK
<1>10. ASSUME NEW t \in Targets, Begin(t) PROVE TargetInv(u)'
  BY <1>10 DEF Begin, InjectTypeOK
<1>11. CASE Cancel
  BY <1>11 DEF Cancel, InjectTypeOK
<1>12. CASE AllReady \/ Finish
  BY <1>12 DEF AllReady, Finish
<1>13. CASE PhaseTimeout
  BY <1>13 DEF PhaseTimeout, Settled, Running, Closed, InjectTypeOK
<1>14. CASE Answer \/ RpcFails
  BY <1>14 DEF Answer, RpcFails
<1>15. CASE UNCHANGED injectVars
  BY <1>15 DEF injectVars
<1> QED
  BY <1>1, <1>2, <1>3, <1>4, <1>5, <1>6, <1>7, <1>8, <1>9, <1>10, <1>11, <1>12, <1>13,
     <1>14, <1>15 DEF InjectNext, Future, Workload

\* InjectInv is an invariant of the injection.
THEOREM Injected == InjectSpec => []InjectInv
<1>1. InjectInv /\ [InjectNext]_injectVars => InjectInv'
  BY InjectTypes, PhaseStep, TargetStep DEF InjectInv
<1> QED  BY InjectInitially, <1>1, PTL DEF InjectSpec

\* inject_task never sends COMMIT to a target and CANCEL to the same or another
\* one, whatever the number of targets.
THEOREM NeverBoth == InjectSpec => []CancelExcludesCommit
<1>1. InjectInv => CancelExcludesCommit
  BY DEF InjectInv, TargetInv, CancelExcludesCommit
<1> QED  BY Injected, <1>1, PTL

\* Every step of the injection is a step of the barrier or leaves it unchanged.
LEMMA StepRefines == InjectInv /\ [InjectNext]_injectVars => [B!BarrierNext]_(B!barrier)
<1> SUFFICES ASSUME InjectInv, [InjectNext]_injectVars PROVE [B!BarrierNext]_(B!barrier)
  OBVIOUS
<1> USE DEF B!barrier, Decision, HostReport
<1>0. ASSUME UNCHANGED <<autonomous, phase, readied, begun, host>> PROVE UNCHANGED B!barrier
  BY <1>0
<1>1. ASSUME NEW auto \in BOOLEAN, Inject(auto) PROVE [B!BarrierNext]_(B!barrier)
  <2>1. CASE auto
    BY <1>1, <2>1 DEF Inject, B!BarrierNext, B!Decide
  <2>2. CASE ~auto
    BY <1>1, <2>2 DEF Inject
  <2> QED  BY <2>1, <2>2
<1>2. ASSUME NEW t \in Targets, Future(t) PROVE [B!BarrierNext]_(B!barrier)
  BY <1>0, <1>2 DEF Future, Connect, Capabilities, ReadReady, SendCommit, ReadStarted
<1>3. ASSUME NEW t \in Targets, Listen(t) \/ Accept(t) \/ GiveUp(t) \/ Die(t)
      PROVE [B!BarrierNext]_(B!barrier)
  BY <1>0, <1>3 DEF Listen, Accept, GiveUp, Die
<1>4. ASSUME NEW t \in Targets, Validate(t) PROVE [B!BarrierNext]_(B!barrier)
  BY <1>4 DEF Validate, B!BarrierNext, B!Vote
<1>5. ASSUME NEW t \in Targets, Begin(t) PROVE [B!BarrierNext]_(B!barrier)
  <2>1. phase \in {"commit", "done"}
    BY <1>5 DEF Begin, Reads, InjectInv, TargetInv
  <2> QED  BY <1>5, <2>1 DEF Begin, B!BarrierNext, B!StartOne
<1>6. CASE Cancel
  BY <1>6 DEF Cancel, B!BarrierNext, B!Decide
<1>7. CASE AllReady
  <2>1. readied = Targets
    BY <1>7 DEF AllReady, InjectInv, TargetInv, InjectTypeOK
  <2> QED  BY <1>7, <2>1 DEF AllReady, B!BarrierNext, B!Decide
<1>8. CASE Finish
  BY <1>8 DEF Finish
<1>9. CASE PhaseTimeout
  <2>1. CASE phase = "prepare"
    BY <1>9, <2>1 DEF PhaseTimeout, B!BarrierNext, B!Decide
  <2>2. CASE phase = "commit"
    BY <1>9, <2>2 DEF PhaseTimeout
  <2> QED  BY <1>9, <2>1, <2>2 DEF PhaseTimeout, Running
<1>10. CASE Answer
  <2>1. (\A t \in Targets : result[t] = "STARTED") => begun = Targets
    BY DEF InjectInv, TargetInv, InjectTypeOK
  <2> QED  BY <1>10, <2>1 DEF Answer, B!BarrierNext, B!Report
<1>11. CASE RpcFails
  BY <1>11 DEF RpcFails, B!BarrierNext, B!Report
<1>12. CASE UNCHANGED injectVars
  BY <1>12 DEF injectVars
<1> QED
  BY <1>1, <1>2, <1>3, <1>4, <1>5, <1>6, <1>7, <1>8, <1>9, <1>10, <1>11, <1>12
  DEF InjectNext, Workload

\* The two-phase injection gives every pod the barrier of StartBarrier: no
\* workload starts before the decision, the decision to commit needs every vote,
\* and the sandboxer reports success only when all have started.
THEOREM Implements == InjectSpec => ImplementsBarrier
<1>1. InjectInit => B!BarrierInit
  BY DEF InjectInit, B!BarrierInit, Decision, HostReport
<1> QED
  BY Injected, <1>1, StepRefines, PTL DEF InjectSpec, ImplementsBarrier, B!BarrierSpec
=============================================================================
