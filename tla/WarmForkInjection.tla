-------------------------- MODULE WarmForkInjection --------------------------
(***************************************************************************)
(* Warm-fork injection: the guest agent (vmm-task) gives a task to every     *)
(* workload of a restored pod through its readiness socket, in two phases,   *)
(* for the sandboxer that waits for the answer.                              *)
(*                                                                           *)
(* A connection carries at most one message of each type, in an order both   *)
(* sides fix, so each direction is the set of messages written to it: the    *)
(* reader takes the one it waits for, and sees the end of the stream when    *)
(* that one is not there.                                                    *)
(***************************************************************************)
EXTENDS FiniteSets

CONSTANTS Targets

VARIABLES
  autonomous,  \* every task_id is empty
  phase,       \* inject_task: "idle", "prepare", "commit", and how it returned:
               \* "aborted" from the prepare phase, "done" from the commit phase
  agent,       \* per target: where its future is
  result,      \* per target: the InjectStatus it is answered with
  toAgent,     \* per target: what the workload wrote
  toWork,      \* per target: what the agent wrote
  work,        \* per target: the workload
  readied,     \* workloads that have written READY
  begun,       \* workloads that have written STARTED
  host         \* inject_warm_fork_task: "waiting", "success", "failure"

injectVars == <<autonomous, phase, agent, result, toAgent, toWork, work, readied, begun, host>>

Closed == {"failed", "closed", "started"}
Settled(t) == agent[t] \in Closed

Write(chan, t, msg) == [chan EXCEPT ![t] = @ \cup {msg}]
Reads(chan, t, msg) == msg \in chan[t]
\* The stream has ended before any of the messages waited for.
AtEnd(chan, t, msgs) == "EOF" \in chan[t] /\ chan[t] \cap msgs = {}

-----------------------------------------------------------------------------
(* The agent. *)

Inject(auto) ==
  /\ phase = "idle" /\ autonomous = auto
  /\ phase' = IF auto THEN "commit" ELSE "prepare"
  /\ agent' = [t \in Targets |-> "connect"]
  /\ UNCHANGED <<autonomous, result, toAgent, toWork, work, readied, begun, host>>

Running == phase \in {"prepare", "commit"}
Returned == phase \in {"aborted", "done"}

\* One future fails: its connection is dropped.
Fail(t, why) ==
  /\ agent' = [agent EXCEPT ![t] = "failed"]
  /\ result' = [result EXCEPT ![t] = why]
  /\ toWork' = Write(toWork, t, "EOF")

\* connect_in_ns; the target may have no container, no namespace or no socket.
Connect(t) ==
  /\ Running /\ agent[t] = "connect"
  /\ \/ /\ work[t] # "dead"
        /\ agent' = [agent EXCEPT ![t] = "caps"]
        /\ UNCHANGED <<result, toWork>>
     \/ Fail(t, "CONNECT_FAILED")
  /\ UNCHANGED <<autonomous, phase, toAgent, work, readied, begun, host>>

\* read_and_verify_capabilities, then PREPARE, or COMMIT when there is no task.
Capabilities(t) ==
  /\ Running /\ agent[t] = "caps"
  /\ \/ /\ Reads(toAgent, t, "CAPABILITIES") /\ work[t] # "dead"
        /\ toWork' = Write(toWork, t, IF autonomous THEN "COMMIT" ELSE "PREPARE")
        /\ agent' = [agent EXCEPT ![t] = IF autonomous THEN "commit" ELSE "prepare"]
        /\ UNCHANGED result
     \/ /\ AtEnd(toAgent, t, {"CAPABILITIES"}) \/ work[t] = "dead" \/ Reads(toAgent, t, "BAD_VERSION")
        /\ Fail(t, "PROTOCOL_ERROR")
  /\ UNCHANGED <<autonomous, phase, toAgent, work, readied, begun, host>>

ReadReady(t) ==
  /\ Running /\ agent[t] = "prepare"
  /\ \/ /\ Reads(toAgent, t, "READY")
        /\ agent' = [agent EXCEPT ![t] = "ready"]
        /\ UNCHANGED <<result, toWork>>
     \/ Reads(toAgent, t, "REJECT") /\ Fail(t, "REJECT")
     \/ AtEnd(toAgent, t, {"READY", "REJECT"}) /\ Fail(t, "PROTOCOL_ERROR")
  /\ UNCHANGED <<autonomous, phase, toAgent, work, readied, begun, host>>

\* All futures of the prepare phase have ended, and one failed.
Cancel ==
  /\ phase = "prepare"
  /\ \A t \in Targets : agent[t] \in {"ready", "failed"}
  /\ \E t \in Targets : agent[t] = "failed"
  /\ toWork' = [t \in Targets |-> IF agent[t] = "ready" THEN toWork[t] \cup {"CANCEL", "EOF"}
                                  ELSE toWork[t]]
  /\ result' = [t \in Targets |-> IF agent[t] = "ready" THEN "INTERNAL_ERROR" ELSE result[t]]
  /\ agent' = [t \in Targets |-> IF agent[t] = "ready" THEN "closed" ELSE agent[t]]
  /\ phase' = "aborted"
  /\ UNCHANGED <<autonomous, toAgent, work, readied, begun, host>>

\* Mutant: the targets that failed are left out of the commit.
SomeReady ==
  /\ phase = "prepare"
  /\ \A t \in Targets : agent[t] \in {"ready", "failed"}
  /\ phase' = "commit"
  /\ UNCHANGED <<autonomous, agent, result, toAgent, toWork, work, readied, begun, host>>

AllReady ==
  /\ phase = "prepare"
  /\ \A t \in Targets : agent[t] = "ready"
  /\ phase' = "commit"
  /\ UNCHANGED <<autonomous, agent, result, toAgent, toWork, work, readied, begun, host>>

SendCommit(t) ==
  /\ phase = "commit" /\ agent[t] = "ready"
  /\ \/ /\ work[t] # "dead"
        /\ toWork' = Write(toWork, t, "COMMIT")
        /\ agent' = [agent EXCEPT ![t] = "commit"]
        /\ UNCHANGED result
     \/ work[t] = "dead" /\ Fail(t, "PROTOCOL_ERROR")
  /\ UNCHANGED <<autonomous, phase, toAgent, work, readied, begun, host>>

ReadStarted(t) ==
  /\ phase = "commit" /\ agent[t] = "commit"
  /\ \/ /\ Reads(toAgent, t, "STARTED")
        /\ agent' = [agent EXCEPT ![t] = "started"]
        /\ result' = [result EXCEPT ![t] = "STARTED"]
        /\ toWork' = Write(toWork, t, "EOF")
     \/ AtEnd(toAgent, t, {"STARTED"}) /\ Fail(t, "PROTOCOL_ERROR")
  /\ UNCHANGED <<autonomous, phase, toAgent, work, readied, begun, host>>

Finish ==
  /\ phase = "commit"
  /\ \A t \in Targets : agent[t] \in {"started", "failed"}
  /\ phase' = "done"
  /\ UNCHANGED <<autonomous, agent, result, toAgent, toWork, work, readied, begun, host>>

\* Mutant: the timeout cancels the targets that were not told to commit.
PhaseTimeoutCancels ==
  /\ Running
  /\ result' = [t \in Targets |-> IF phase = "prepare" THEN "TIMEOUT_PREPARE" ELSE "TIMEOUT_COMMIT"]
  /\ toWork' = [t \in Targets |-> toWork[t] \cup {"EOF"}
                                    \cup (IF agent[t] = "ready" THEN {"CANCEL"} ELSE {})]
  /\ agent' = [t \in Targets |-> IF Settled(t) THEN agent[t] ELSE "closed"]
  /\ phase' = IF phase = "prepare" THEN "aborted" ELSE "done"
  /\ UNCHANGED <<autonomous, toAgent, work, readied, begun, host>>

\* The phase's timeout drops every connection and answers for every target.
PhaseTimeout ==
  /\ Running
  /\ result' = [t \in Targets |-> IF phase = "prepare" THEN "TIMEOUT_PREPARE" ELSE "TIMEOUT_COMMIT"]
  /\ toWork' = [t \in Targets |-> toWork[t] \cup {"EOF"}]
  /\ agent' = [t \in Targets |-> IF Settled(t) THEN agent[t] ELSE "closed"]
  /\ phase' = IF phase = "prepare" THEN "aborted" ELSE "done"
  /\ UNCHANGED <<autonomous, toAgent, work, readied, begun, host>>

-----------------------------------------------------------------------------
(* The sandboxer. *)

\* Every target answered, and answered STARTED.
Answer ==
  /\ Returned /\ host = "waiting"
  /\ host' = IF \A t \in Targets : result[t] = "STARTED" THEN "success" ELSE "failure"
  /\ UNCHANGED <<autonomous, phase, agent, result, toAgent, toWork, work, readied, begun>>

\* The RPC's own deadline, or a lost connection to the guest.
RpcFails ==
  /\ phase # "idle" /\ host = "waiting"
  /\ host' = "failure"
  /\ UNCHANGED <<autonomous, phase, agent, result, toAgent, toWork, work, readied, begun>>

-----------------------------------------------------------------------------
(* A workload that keeps the protocol, or dies. *)

\* A connection waits in the socket's backlog until the workload, which may still
\* be on the probe's connection when the snapshot is taken, accepts it.
Listen(t) ==
  /\ work[t] = "probed"
  /\ work' = [work EXCEPT ![t] = "accept"]
  /\ UNCHANGED <<autonomous, phase, agent, result, toAgent, toWork, readied, begun, host>>

Accept(t) ==
  /\ work[t] = "accept" /\ agent[t] \notin {"idle", "connect"}
  /\ \E msg \in {"CAPABILITIES", "BAD_VERSION"} : toAgent' = Write(toAgent, t, msg)
  /\ work' = [work EXCEPT ![t] = "connected"]
  /\ UNCHANGED <<autonomous, phase, agent, result, toWork, readied, begun, host>>

Validate(t) ==
  /\ work[t] = "connected" /\ Reads(toWork, t, "PREPARE")
  /\ \/ /\ toAgent' = Write(toAgent, t, "READY")
        /\ work' = [work EXCEPT ![t] = "ready"]
        /\ readied' = readied \cup {t}
     \/ /\ toAgent' = Write(toAgent, t, "REJECT")
        /\ work' = [work EXCEPT ![t] = "rejected"]
        /\ UNCHANGED readied
  /\ UNCHANGED <<autonomous, phase, agent, result, toWork, begun, host>>

Begin(t) ==
  /\ work[t] \in {"connected", "ready"} /\ Reads(toWork, t, "COMMIT")
  /\ toAgent' = Write(toAgent, t, "STARTED")
  /\ work' = [work EXCEPT ![t] = "running"]
  /\ begun' = begun \cup {t}
  /\ UNCHANGED <<autonomous, phase, agent, result, toWork, readied, host>>

\* CANCEL, or the end of the connection: clean up.
GiveUp(t) ==
  /\ work[t] \in {"connected", "ready", "rejected"}
  /\ AtEnd(toWork, t, {"COMMIT"}) /\ (work[t] = "connected" => "PREPARE" \notin toWork[t])
  /\ work' = [work EXCEPT ![t] = "idle"]
  /\ UNCHANGED <<autonomous, phase, agent, result, toAgent, toWork, readied, begun, host>>

Die(t) ==
  /\ work[t] # "dead"
  /\ work' = [work EXCEPT ![t] = "dead"]
  /\ toAgent' = Write(toAgent, t, "EOF")
  /\ UNCHANGED <<autonomous, phase, agent, result, toWork, readied, begun, host>>

-----------------------------------------------------------------------------
InjectInit ==
  /\ autonomous \in BOOLEAN /\ phase = "idle"
  /\ agent = [t \in Targets |-> "idle"] /\ result = [t \in Targets |-> "none"]
  /\ toAgent = [t \in Targets |-> {}] /\ toWork = [t \in Targets |-> {}]
  /\ work \in [Targets -> {"accept", "probed"}]
  /\ readied = {} /\ begun = {} /\ host = "waiting"

Future(t) == Connect(t) \/ Capabilities(t) \/ ReadReady(t) \/ SendCommit(t) \/ ReadStarted(t)
Workload(t) == Listen(t) \/ Accept(t) \/ Validate(t) \/ Begin(t) \/ GiveUp(t) \/ Die(t)

InjectNext ==
  \/ \E auto \in BOOLEAN : Inject(auto)
  \/ \E t \in Targets : Future(t) \/ Workload(t)
  \/ Cancel \/ AllReady \/ Finish \/ PhaseTimeout
  \/ Answer \/ RpcFails

InjectSpec == InjectInit /\ [][InjectNext]_injectVars

-----------------------------------------------------------------------------
(* Properties. *)

\* Type invariant of the agent, the connections and the workloads.
InjectTypeOK ==
  /\ autonomous \in BOOLEAN /\ phase \in {"idle", "prepare", "commit", "aborted", "done"}
  /\ agent \in [Targets -> {"idle", "connect", "caps", "prepare", "ready", "commit"} \cup Closed]
  /\ toAgent \in [Targets -> SUBSET {"CAPABILITIES", "BAD_VERSION", "READY", "REJECT", "STARTED", "EOF"}]
  /\ toWork \in [Targets -> SUBSET {"PREPARE", "COMMIT", "CANCEL", "EOF"}]
  /\ work \in [Targets -> {"probed", "accept", "connected", "ready", "rejected", "running", "idle", "dead"}]
  /\ result \in [Targets -> {"none", "STARTED", "REJECT", "CONNECT_FAILED", "PROTOCOL_ERROR",
                             "INTERNAL_ERROR", "TIMEOUT_PREPARE", "TIMEOUT_COMMIT"}]
  /\ readied \subseteq Targets /\ begun \subseteq Targets
  /\ host \in {"waiting", "success", "failure"}

\* Injection implements the barrier: a vote is READY, the decision is the phase
\* that follows PREPARE, and the report is the sandboxer's.
Decision == IF phase \in {"commit", "done"} THEN "commit"
            ELSE IF phase = "aborted" THEN "abort" ELSE "none"

HostReport == IF host = "waiting" THEN "none" ELSE host

B == INSTANCE StartBarrier WITH
       asks <- ~autonomous, votes <- readied, decision <- Decision,
       started <- begun, report <- HostReport

\* Every step of the agent, the sandboxer and the workloads is a step of the
\* barrier or leaves it alone.
ImplementsBarrier == B!BarrierSpec

\* "CANCEL is never sent after COMMIT has been issued", to any target.
CancelExcludesCommit ==
  ~ \E t, u \in Targets : "CANCEL" \in toWork[t] /\ "COMMIT" \in toWork[u]
=============================================================================
