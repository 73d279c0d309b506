----------------------------- MODULE MCProgress -----------------------------
(***************************************************************************)
(* One instance for the collection of consumed continuations, the streams  *)
(* of guest processes and the starts that wait for a refill of the pool,   *)
(* with what must eventually happen in each.  A behaviour is one of the    *)
(* component that part names; the others stay in their initial state.      *)
(***************************************************************************)
EXTENDS GuestStreams, TemplateRefill

CONSTANTS p1, p2, s1, i1, c1, None, Free

VARIABLES part, entry, consumed, disks, sandbox, vm, orphans, dumped, task, gc, phase, crashes

contVars == <<entry, consumed, disks, sandbox, vm, orphans, dumped, task, gc, phase, crashes>>
all == <<part, contVars, streamVars, refillVars>>

C == INSTANCE ContinuationStore WITH
       Tasks <- {p1, p2}, Sandboxes <- {s1}, Identities <- {i1}, Templates <- {c1},
       IdentityOf <- [t \in {c1} |-> i1], Disked <- {c1}, ConcurrentStarts <- FALSE,
       AdminDeletes <- TRUE, IoErrors <- FALSE, MaxCrashes <- 1

\* A step of one component, in a behaviour of that component.
Continuation(A) == part = "continuation" /\ A /\ UNCHANGED <<part, streamVars, refillVars>>
Streams(A) == part \in {"output", "input"} /\ A /\ UNCHANGED <<part, contVars, refillVars>>
Refilling(A) == part = "refill" /\ A /\ UNCHANGED <<part, contVars, streamVars>>

ProgressInit ==
  /\ part \in {"continuation", "output", "input", "refill"}
  /\ C!Init /\ StreamInit /\ RefillInit
  /\ part # "refill" => depth = 0

ProgressNext ==
  \/ Continuation(C!Next)
  \/ Streams(part = "output" /\ OutputNext)
  \/ Streams(part = "input" /\ InputNext)
  \/ Refilling(RefillNext)

\* The actions of the modules' fairness conditions, joined: a behaviour takes the
\* steps of one component only, so that fairness of the disjunction is the fairness
\* of that component's action.  A refill is never kept from its next step, so that
\* strong fairness of its steps is weak fairness; a start's deadline is not fair.
Step(p) == Continuation(C!TaskStep(p)) \/ Streams(Handler(p)) \/ Refilling(p \in Starts /\ StartProceeds(p))
Locked(p) ==
  \/ Streams(Preempted(p))
  \/ Refilling(RefillProceeds(p))
  \/ Continuation(C!Publish(p) \/ C!ClearInvalid(p) \/ C!BeginRestore(p) \/ C!BeginFailed(p)
                  \/ C!DeleteBody(p) \/ C!DestroyStop(p) \/ C!DeleteRemove(p))

ProgressSpec ==
  /\ ProgressInit /\ [][ProgressNext]_all
  /\ \A p \in Clients : WF_all(Step(p)) /\ SF_all(Locked(p))
  /\ SF_all(Continuation(C!GcRead(s1)))
  /\ WF_all(Continuation(C!GcStep)) /\ WF_all(Continuation(C!Recover))

-----------------------------------------------------------------------------
\* ContinuationStore: a consumed entry that no sandbox refers to does not stay
\* for ever.
OrphansCollected == C!OrphansCollected

\* GuestStreams: a client that waits gets the stream; the clients are
\* interchangeable, so that one of them stands for both.
NewcomerGetsStream == GetsStream(p1)
=============================================================================
