------------------------ MODULE SupervisorInvariant -------------------------
(***************************************************************************)
(* The inductive invariant behind the safety properties: none of them is   *)
(* preserved by every step on its own, because a crash replaces the rows   *)
(* of the session by the committed ones and a late stop strikes long after *)
(* it was sent.  The parts below tie the two views of a row to each other, *)
(* to the target and to the place the coordinator has reached.             *)
(***************************************************************************)
EXTENDS SupervisorProperties

\* States in which the fault is known to have been in effect.
OwnedStates == { "active", "expired", "cancellation_requested", "verifying",
                 "passed", "operator_attention" }

\* States an experiment can be in only if its stop was never sent.
UntouchedStates == { "absent", "planned", "preflight", "failed" }

\* A row, in either view, against the target.
RowInv(e, row) ==
    /\ IF row.state = "absent" THEN row.audit = {} /\ row.attempts = 0
                               ELSE row.state \in row.audit
    /\ row.state \in UntouchedStates => stopCalls[e] = 0
    /\ row.context => stopCalls[e] > 0 /\ e \notin lateStops
    /\ row.state \in OwnedStates => row.context
    /\ e \in stoppedBy \cup lateStops => row.state \in UncertainStates
    /\ stopCalls[e] > 0 => "injecting" \in row.audit
    /\ row.state \in { "cleanup_failed", "verifying", "passed", "operator_attention" }
            => row.attempts > 0

\* A row that is, or may next be, committed after its final observation.
VerdictInv(row) ==
    row.state \in { "verifying", "passed", "operator_attention" } => row.after # "none"

StoreInv ==
    \A e \in Experiments :
        RowInv(e, rows[e]) /\ RowInv(e, saved[e]) /\ VerdictInv(saved[e])

TargetInv ==
    \A e \in Experiments :
        /\ stopCalls[e] <= 1
        /\ stopCalls[e] = 0 => e \notin stoppedBy \cup lateStops

\* The session and the database hold the same row, but for a lease a failed
\* claim has written.
Agrees(e) == rows[e] = [saved[e] EXCEPT !.lease = rows[e].lease]

\* One of the two transitions the coordinator leaves uncommitted across calls.
Ahead(e, from, to) ==
    /\ saved[e].state = from
    /\ rows[e].state = to
    /\ saved[e].audit \subseteq rows[e].audit
    /\ saved[e].attempts = rows[e].attempts
    /\ saved[e].context = rows[e].context

Uncommitted(e) ==
    /\ current = e
    /\ writing
    /\ \/ /\ pc \in { "scenario_preflight", "target_preflight", "observe_before", "release" }
          /\ Ahead(e, "planned", "preflight")
       \/ /\ pc \in { "verify_cleanup", "observe_after" }
          /\ Ahead(e, "cleaning_up", "verifying")

SessionInv == \A e \in Experiments : Agrees(e) \/ Uncommitted(e)

CoordinatorLabels ==
    { "run", "scenario_preflight", "target_preflight", "observe_before",
      "start_injecting", "save_context", "verify_active", "activate",
      "injection_failed", "mark_cancelled", "restore", "record_attempt", "conclude",
      "verify_cleanup", "observe_after", "verdict", "release" }

\* What the coordinator may rely on at each label while it runs e.
JobInv(e) ==
    /\ pc \in { "scenario_preflight", "target_preflight", "observe_before",
                "start_injecting" } => rows[e].state = "preflight" /\ ~reconciling
    /\ pc = "run" /\ rows[e].state = "injecting" => stopCalls[e] = 0
    /\ pc = "run" /\ reconciling => rows[e].state \in CleanupStates
    /\ pc \in { "save_context", "verify_active", "activate", "injection_failed" }
            => rows[e].state = "injecting" /\ ~reconciling
    /\ pc = "save_context" => stopCalls[e] > 0 /\ e \notin lateStops
    /\ pc \in { "verify_active", "activate" } => rows[e].context
    /\ pc \in { "mark_cancelled", "restore", "record_attempt", "conclude" }
            => rows[e].state = "cleaning_up"
    /\ pc \in { "record_attempt", "conclude" } /\ ok
            => rows[e].context /\ e \notin stoppedBy \cup lateStops
    /\ pc = "conclude" => rows[e].attempts > 0
    /\ pc \in { "verify_cleanup", "observe_after", "verdict" }
            => rows[e].state = "verifying"

ControlInv ==
    /\ current \in Experiments <=> pc \in CoordinatorLabels
    /\ reconciling => current \in Experiments
    /\ \A e \in Experiments : current = e => JobInv(e)

IInv == TypeOK /\ TargetInv /\ StoreInv /\ SessionInv /\ ControlInv

-----------------------------------------------------------------------------
(* Cancellations, behind CancellationSurvives *)

CleanupLabels == { "mark_cancelled", "restore", "record_attempt", "conclude",
                   "verify_cleanup", "observe_after", "verdict" }

\* The outcome is the same in both views, "passed" is the outcome of passed
\* rows, and _cleanup's argument says what the row says.
CancelInv ==
    \A e \in Experiments :
        /\ rows[e].outcome = saved[e].outcome
        /\ rows[e].state = "passed" => rows[e].outcome = "passed"
        /\ current = e /\ pc \in CleanupLabels =>
              (pc = "mark_cancelled" \/ rows[e].outcome = "cancelled_pending" => cancelled)

\* Without a crash every cancellation is remembered.
RememberedInv == crashes = 0 => \A e \in Experiments : WasCancelled(e) => Remembered(e)

-----------------------------------------------------------------------------
(* The length of a tick, behind TicksAdvance *)

\* The coordinator stands at "run" only with a row it knows what to do with, and
\* the request being served is one of the tick's list.
RunStates == ClaimableStates \cup {"injecting"}

TickInv ==
    /\ pc = "run" => current \in Experiments /\ rows[current].state \in RunStates
    /\ pc = "complete" => serving \subseteq batch

-----------------------------------------------------------------------------
(* The write lock, behind WriteLockIsAccounted *)

\* Without a crash nobody leaves a lease behind: the only one is that of the
\* claim the coordinator runs.  A lease that the session knows to have run out has
\* run out in the database.
LeaseInv ==
    \A e \in Experiments :
        /\ rows[e].lease = "run_out" => saved[e].lease = "run_out"
        /\ crashes = 0 =>
              /\ rows[e].lease # "run_out"
              /\ rows[e].lease = "held" => current = e /\ ~reconciling

\* A claim comes after the startup reconciliation, so a transaction it leaves open
\* is never met by reconcile().
StartInv ==
    /\ pc \in {"read_controls", "controls", "complete", "claim"} => reconciled
    /\ pc = "idle" /\ writing => reconciled

LockInv == WriteLockIsAccounted /\ LeaseInv /\ StartInv

=============================================================================
