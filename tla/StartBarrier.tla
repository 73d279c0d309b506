---------------------------- MODULE StartBarrier ----------------------------
(***************************************************************************)
(* What warm-fork injection promises to a pod of several workloads: none    *)
(* starts before it was decided that all start, that decision needs every   *)
(* vote when votes are asked for, it is final, and success is reported only *)
(* when all have started.                                                   *)
(***************************************************************************)
CONSTANT Targets
VARIABLES asks, votes, decision, started, report

barrier == <<asks, votes, decision, started, report>>

BarrierInit ==
  /\ asks \in BOOLEAN
  /\ votes = {} /\ decision = "none" /\ started = {} /\ report = "none"

Vote(t) ==
  /\ votes' = votes \cup {t}
  /\ UNCHANGED <<asks, decision, started, report>>

Decide(d) ==
  /\ decision = "none"
  /\ d = "commit" => ~asks \/ votes = Targets
  /\ decision' = d
  /\ UNCHANGED <<asks, votes, started, report>>

StartOne(t) ==
  /\ decision = "commit"
  /\ started' = started \cup {t}
  /\ UNCHANGED <<asks, votes, decision, report>>

Report(r) ==
  /\ report = "none"
  /\ r = "success" => started = Targets
  /\ report' = r
  /\ UNCHANGED <<asks, votes, decision, started>>

BarrierNext ==
  \/ \E t \in Targets : Vote(t) \/ StartOne(t)
  \/ \E d \in {"commit", "abort"} : Decide(d)
  \/ \E r \in {"success", "failure"} : Report(r)

BarrierSpec == BarrierInit /\ [][BarrierNext]_barrier
=============================================================================
