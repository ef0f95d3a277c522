------------------------ MODULE SupervisorProperties ------------------------
(***************************************************************************)
(* What must be true of the supervised agent, and what its documents claim *)
(* about it.  All of them speak about "saved", the committed rows: that is *)
(* what survives a crash and what the command line and the API report.     *)
(***************************************************************************)
EXTENDS Supervisor

-----------------------------------------------------------------------------
(* Safety *)

\* While an outage caused by experiment e lasts, or a stop of e's may still
\* take effect, e's row is in a state from which the agent goes on to cleanup.
\* No terminal row, and no row that has passed cleanup, leaves Apache stopped
\* behind it (coordinator.py run_once, _inject, _cleanup; supervisor.py
\* reconcile).
UncertainStates == { "injecting", "active", "cancellation_requested", "expired",
                     "cleaning_up", "cleanup_failed" }

OutageIsAccounted ==
    \A e \in stoppedBy \cup lateStops : saved[e].state \in UncertainStates

\* However often the agent crashes and restarts, an experiment's stop is sent
\* to the target at most once (run_once, reconcile, claim_next).
InjectAtMostOnce == \A e \in Experiments : stopCalls[e] <= 1

\* Intent is durable before the fault: no stop is sent for an experiment
\* whose "injecting" transition is not committed (_prepare, _inject).
IntentBeforeInjection ==
    \A e \in Experiments : stopCalls[e] > 0 => "injecting" \in saved[e].audit

\* From the moment a row says that its fault is in effect the evidence its
\* cleanup needs is committed with it, so no crash can lose the ownership of
\* a confirmed outage (_inject saves cleanup_context before it activates).
OwnershipIsDurable ==
    \A e \in Experiments :
        saved[e].state \in { "active", "expired", "cancellation_requested",
                             "verifying", "passed", "operator_attention" }
            => saved[e].context

\* A cleanup outcome is never on record without the attempt that led to it,
\* and an outcome of the final verification never without its observation
\* (_cleanup: record_attempt and _observe come before the transitions).
OutcomeHasEvidence ==
    \A e \in Experiments :
        /\ saved[e].state \in { "cleanup_failed", "verifying", "passed",
                                "operator_attention" } => saved[e].attempts > 0
        /\ saved[e].state \in { "verifying", "passed", "operator_attention" }
                => saved[e].after # "none"

\* What is on record stays on record: no commit, crash or rollback drops an
\* audit entry, a cleanup attempt or the cleanup evidence, and a terminal row
\* changes in nothing but its lease (repositories.py transition, schedule).
HistoryKept ==
    \A e \in Experiments :
        /\ saved[e].audit \subseteq saved'[e].audit
        /\ saved[e].attempts <= saved'[e].attempts
        /\ saved[e].context => saved'[e].context
        /\ saved[e].state \in TerminalStates =>
              saved'[e] = [saved[e] EXCEPT !.lease = saved'[e].lease]

HistoryIsFinal == [][HistoryKept]_saved

\* A cancellation that is on record is forgotten in one place only: a process
\* that dies between the commit of cleaning_up and that of cancelled_pending
\* (coordinator.py run_once and _cleanup).  As long as it is remembered, by the
\* row or by the coordinator about to write it there, no retry, restart or late
\* reply turns the experiment into a passed one.
WasCancelled(e) == "cancellation_requested" \in rows[e].audit

CancelledEnds == { "cancelled", "operator_attention" }

Remembered(e) ==
    \/ rows[e].state \in CancelledEnds \cup {"cancellation_requested"}
    \/ rows[e].outcome = "cancelled_pending"
    \/ At("mark_cancelled", e)

CancellationKept ==
    \A e \in Experiments :
        WasCancelled(e) /\ Remembered(e) =>
            Remembered(e)' \/ (Crash /\ At("mark_cancelled", e))

CancellationSurvives == [][CancellationKept]_vars

\* The supervisor implements the abstract lifecycle.
Abstract == INSTANCE Lifecycle WITH
    state    <- [e \in Experiments |-> saved[e].state],
    injected <- {e \in Experiments : stopCalls[e] > 0}

ImplementsLifecycle == Abstract!LifecycleSpec

-----------------------------------------------------------------------------
(* The length of a tick, in as far as it can be said without fairness *)

\* How many stretches of code a tick has before it at most, requests apart: the
\* coordinator goes through "run" once for each state it acts on, reconcile()
\* runs it before the rest of the tick.
LabelStage == [ down |-> 0, idle |-> 0, release |-> 1, verdict |-> 2,
    observe_after |-> 3, verify_cleanup |-> 4, conclude |-> 5, record_attempt |-> 6,
    restore |-> 7, mark_cancelled |-> 8, injection_failed |-> 11, activate |-> 11,
    verify_active |-> 12, save_context |-> 13, start_injecting |-> 15,
    observe_before |-> 16, target_preflight |-> 17, scenario_preflight |-> 18,
    claim |-> 20, complete |-> 21, controls |-> 22, read_controls |-> 23,
    reconcile |-> 50 ]

RunStage(state) ==
    IF state \in {"planned", "preflight"} THEN 19
    ELSE IF state = "injecting" THEN 14
    ELSE IF state = "active" THEN 10 ELSE 9

TickStage ==
    (IF pc = "run" THEN RunStage(rows[current].state) ELSE LabelStage[pc])
    + (IF reconciling THEN 30 ELSE 0)

\* A tick comes to its end whatever the target, the operators and the clocks do:
\* each of its steps brings it nearer or takes a request off its list, and
\* nothing else sends it back or adds to the list (run_once of the supervisor
\* claims one row and serves the requests it read; that of the coordinator has
\* no loop).  It is what lets the runtime take a tick for a bounded time.
TickAdvances ==
    IF AgentStep
    THEN \/ pc = "idle"
         \/ TickStage' < TickStage
         \/ pc' = "controls" /\ pc \in {"controls", "complete"} /\ batch' # batch
              /\ batch' \subseteq batch
    ELSE TickStage' <= TickStage /\ batch' \subseteq batch

TicksAdvance == [][TickAdvances]_vars

\* SQLite's write lock, which keeps the command line and the API from writing,
\* has one of two owners: the coordinator, between a transition it has flushed
\* and the next commit, or the release of its claim, of the same tick; or, beyond
\* the tick, a claim that raised on a lease which a dead process left behind
\* (coordinator.py _prepare, _cleanup; claim_next).
FlushedLabels == { "scenario_preflight", "target_preflight", "observe_before",
                   "verify_cleanup", "observe_after", "release" }

ClaimMayRaise ==
    /\ crashes > 0
    /\ \E e \in Experiments : saved[e].lease = "run_out" /\ saved[e].state \in ClaimableStates

WriteLockIsAccounted ==
    writing => \/ pc \in FlushedLabels
               \/ pc \in {"idle", "read_controls", "controls", "claim"} /\ ClaimMayRaise

-----------------------------------------------------------------------------
(* Liveness, under FairSpec *)

\* An active experiment whose deadline has passed leaves "active", whatever the
\* target does and whenever the agent crashes, unless a crash under a claim has
\* stranded it: its lease runs out, and no claim gets past it (run_once 67-79,
\* claim_next).  What is stranded is ActiveExpires, below.
ExpiresUnlessStranded ==
    \A e \in Experiments :
        (saved[e].state = "active" /\ e \in overdue)
            ~> (saved[e].state # "active" \/ saved[e].lease = "run_out")

\* With a target that answers, every outage the agent causes ends.
OutageEnds == \A e \in Experiments : (e \in stoppedBy) ~> (e \notin stoppedBy)

\* With a target that answers, every scheduled experiment reaches an end.
ExperimentEnds ==
    \A e \in Experiments :
        (saved[e].state # "absent") ~> (saved[e].state \in TerminalStates)

\* With a target that answers, every control request is processed.
RequestsServed == \A r \in Requests : (r \in pending) ~> (r \in processed)

-----------------------------------------------------------------------------
(* Claims of the repository's documents that the code does not keep *)

\* specs/phase-03-experiment-engine.md:373: exhausted automatic attempts
\* transition to operator_attention; there is no attempt after the last one.
AttemptsBounded == \A e \in Experiments : saved[e].attempts <= CleanupMaxAttempts

\* specs/phase-03-experiment-engine.md:360: preflight work stops before
\* injection when it is cancelled.  At the least the request is processed.
PreflightCancelServed ==
    \A r \in Requests :
        (r.kind = "cancel" /\ r \in pending /\ saved[r.experiment].state = "preflight")
            ~> (r \in processed)

\* specs/phase-03-experiment-engine.md:411: after a restart an active experiment
\* that has expired, or whose lease is uncertain, goes to cleanup.
ActiveExpires ==
    \A e \in Experiments :
        (saved[e].state = "active" /\ e \in overdue) ~> (saved[e].state # "active")

\* specs/phase-03-experiment-engine.md:249: a cancellation can end only as
\* cancelled, failed or operator_attention, never passed.
CancelledNeverPasses ==
    \A e \in Experiments :
        ~(saved[e].state = "passed" /\ "cancellation_requested" \in saved[e].audit)

=============================================================================
