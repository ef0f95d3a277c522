----------------------------- MODULE Lifecycle ------------------------------
(***************************************************************************)
(* What the engine promises to whoever reads the database: each experiment *)
(* walks the lifecycle graph one committed edge at a time, the target is   *)
(* occupied by at most one unfinished experiment, the fault is requested   *)
(* at most once and only while "injecting" is on record, and no row says   *)
(* "active" or "passed" for a fault that was never requested, or "failed"  *)
(* for one that was.  Supervisor.tla is shown to implement this module.    *)
(***************************************************************************)
EXTENDS ExperimentDomain

CONSTANT Experiments    \* identifiers that may be scheduled

VARIABLES
    state,              \* the committed state of each experiment, or "absent"
    injected            \* experiments whose fault has been requested

lifecycleVars == <<state, injected>>

LifecycleTypeOK ==
    /\ state \in [Experiments -> ExperimentState \cup {"absent"}]
    /\ injected \subseteq Experiments

LifecycleInit ==
    /\ state = [e \in Experiments |-> "absent"]
    /\ injected = {}

\* The partial unique index: one unfinished experiment per target.
ScheduleOne(e) ==
    /\ state[e] = "absent"
    /\ \A f \in Experiments : state[f] \in TerminalStates \cup {"absent"}
    /\ state' = [state EXCEPT ![e] = "planned"]
    /\ UNCHANGED injected

\* What has to be true of the fault before a row may enter state s.
Justified(e, s) ==
    /\ s \in {"active", "passed"} => e \in injected
    /\ s = "failed" => e \notin injected

Advance(e, s) ==
    /\ state[e] \in ExperimentState
    /\ ValidTransition(state[e], s)
    /\ Justified(e, s)
    /\ state' = [state EXCEPT ![e] = s]
    /\ UNCHANGED injected

\* planned -> preflight -> failed committed together: the first edge is still
\* uncommitted when the scenario or target preflight refuses.
RefuseUnseen(e) ==
    /\ state[e] = "planned"
    /\ Justified(e, "failed")
    /\ state' = [state EXCEPT ![e] = "failed"]
    /\ UNCHANGED injected

RequestFault(e) ==
    /\ state[e] = "injecting"
    /\ e \notin injected
    /\ injected' = injected \cup {e}
    /\ UNCHANGED state

LifecycleNext ==
    \E e \in Experiments :
        \/ ScheduleOne(e)
        \/ \E s \in ExperimentState : Advance(e, s)
        \/ RefuseUnseen(e)
        \/ RequestFault(e)

LifecycleSpec == LifecycleInit /\ [][LifecycleNext]_lifecycleVars

-----------------------------------------------------------------------------
(* What is left of it when several processes share the database: two steps *)
(* more, each of a process that works on from what it has read.            *)

\* The fault is requested although the row was taken to cleanup meanwhile.
RequestFaultLate(e) ==
    /\ state[e] \in {"cleaning_up", "cleanup_failed", "operator_attention"}
    /\ e \notin injected
    /\ injected' = injected \cup {e}
    /\ UNCHANGED state

\* The deadline is recorded over a cleanup that has begun.
ExpireLate(e) ==
    /\ state[e] = "cleaning_up"
    /\ e \in injected
    /\ state' = [state EXCEPT ![e] = "expired"]
    /\ UNCHANGED injected

SharedNext ==
    \/ LifecycleNext
    \/ \E e \in Experiments : RequestFaultLate(e) \/ ExpireLate(e)

SharedSpec == LifecycleInit /\ [][SharedNext]_lifecycleVars

=============================================================================
