----------------------------- MODULE Supervisor -----------------------------
(***************************************************************************)
(* The agent process: Supervisor.run_once driving ExperimentCoordinator    *)
(* over the SQLite store and the Apache target, with the CLI and the API   *)
(* writing to the same store, and with crashes and restarts of the agent.  *)
(*                                                                         *)
(* One label of pc per stretch of code between two points where another    *)
(* process can act: a commit, or a call to the target or the website.  The *)
(* store is two functions: "saved" is what is committed, "rows" is what    *)
(* the agent's session sees.  They differ while the session has a write    *)
(* transaction open ("writing"); SQLite then keeps every other writer out, *)
(* and a crash of the agent throws "rows" away.                            *)
(***************************************************************************)
EXTENDS ApacheTarget, ExperimentDomain, FiniteSets

CONSTANTS
    Operators,           \* who may ask for cancellation or reconciliation
    None,                \* no experiment
    BadParameters,       \* experiments the API stored with invalid parameters
    CleanupMaxAttempts,  \* cleanup_max_attempts, 3 in the code
    AttemptCap,          \* attempt numbers saturate here (bound)
    MaxCrashes           \* how often the agent may crash (bound)

ASSUME SupervisorConstants ==
    /\ None \notin Experiments
    /\ BadParameters \subseteq Experiments
    /\ CleanupMaxAttempts \in Nat \ {0}
    /\ AttemptCap \in Nat
    /\ CleanupMaxAttempts < AttemptCap
    /\ MaxCrashes \in Nat

VARIABLES
    rows,          \* experiment rows as the agent's session sees them
    saved,         \* experiment rows as committed
    writing,       \* does the session hold SQLite's write transaction?
    pending,       \* control requests not yet processed
    processed,     \* control requests processed
    overdue,       \* experiments whose expires_at has passed
    pc,            \* where the agent process is
    current,       \* the experiment its coordinator is running
    reconciling,   \* was it reached from reconcile() rather than a claim?
    cancelled,     \* _cleanup's argument
    ok,            \* the last cleanup or verification evidence
    batch,         \* the pending requests this tick read
    serving,       \* the request whose transition is committed, as {r}
    reconciled,    \* _startup_reconciled
    crashes        \* crashes so far

storeVars   == <<rows, saved, writing>>
requestVars == <<pending, processed>>
tickVars    == <<batch, serving, reconciled>>
jobVars     == <<current, reconciling, cancelled, ok>>
vars == <<storeVars, requestVars, overdue, pc, jobVars, tickVars, crashes, targetVars>>

-----------------------------------------------------------------------------
(* The store *)

Observations == {"none", "healthy", "unhealthy"}
Leases       == {"none", "held", "run_out"}
Outcomes     == {"none", "cancelled_pending", "passed", "cancelled", "operator_attention"}

\* audit: the to_states of the experiment's transition rows;  context: is
\* cleanup_context set?  attempts: the highest cleanup attempt recorded;
\* before, after: the last site observation recorded for that phase.
Row == [ state    : ExperimentState \cup {"absent"},
         audit    : SUBSET ExperimentState,
         lease    : Leases,
         context  : BOOLEAN,
         outcome  : Outcomes,
         attempts : 0..AttemptCap,
         before   : Observations,
         after    : Observations ]

NoRow == [ state |-> "absent", audit |-> {}, lease |-> "none", context |-> FALSE,
           outcome |-> "none", attempts |-> 0, before |-> "none", after |-> "none" ]

\* Mutant: the audit row is updated in place instead of appended.
MovedOverwritingAudit(row, target) == [row EXCEPT !.state = target, !.audit = {target}]

\* repository.transition: the row's state and its audit row, one transaction.
Moved(row, target) == [row EXCEPT !.state = target, !.audit = @ \cup {target}]

Write(e, row) == [rows EXCEPT ![e] = row]

Commit(newRows) == rows' = newRows /\ saved' = newRows /\ writing' = FALSE

\* DML without a commit: the write transaction stays open.
Flush(newRows) == rows' = newRows /\ writing' = TRUE /\ UNCHANGED saved

Requests == [ experiment : Experiments, kind : {"cancel", "reconcile"},
              requester : Operators ]

Unfinished == ExperimentState \ TerminalStates

\* Mutants: a state is missing from claim_next's list.
ClaimableWithoutActive == { "planned", "preflight", "expired",
                            "cancellation_requested", "cleaning_up", "cleanup_failed" }
ClaimableWithoutCancellation == { "planned", "preflight", "active", "expired",
                                  "cleaning_up", "cleanup_failed" }

ClaimableStates == { "planned", "preflight", "active", "expired",
                     "cancellation_requested", "cleaning_up", "cleanup_failed" }

CleanupStates == { "expired", "cancellation_requested", "cleaning_up", "cleanup_failed" }

-----------------------------------------------------------------------------
(* Types and initial state *)

Labels == { "down", "idle", "reconcile", "read_controls", "controls", "complete",
            "claim", "run", "scenario_preflight", "target_preflight",
            "observe_before", "start_injecting", "save_context", "verify_active",
            "activate", "injection_failed", "mark_cancelled", "restore",
            "record_attempt", "conclude", "verify_cleanup", "observe_after",
            "verdict", "release" }

TypeOK ==
    /\ TargetTypeOK
    /\ rows \in [Experiments -> Row]
    /\ saved \in [Experiments -> Row]
    /\ writing \in BOOLEAN
    /\ pending \subseteq Requests
    /\ processed \subseteq Requests
    /\ overdue \subseteq Experiments
    /\ pc \in Labels
    /\ current \in Experiments \cup {None}
    /\ reconciling \in BOOLEAN
    /\ cancelled \in BOOLEAN
    /\ ok \in BOOLEAN
    /\ batch \subseteq Requests
    /\ serving \subseteq Requests
    /\ reconciled \in BOOLEAN
    /\ crashes \in 0..MaxCrashes

IdleJob ==
    /\ current' = None
    /\ reconciling' = FALSE
    /\ cancelled' = FALSE
    /\ ok' = FALSE

Init ==
    /\ TargetInit
    /\ rows = [e \in Experiments |-> NoRow]
    /\ saved = rows
    /\ writing = FALSE
    /\ pending = {} /\ processed = {}
    /\ overdue = {}
    /\ pc = "idle"
    /\ current = None /\ reconciling = FALSE /\ cancelled = FALSE /\ ok = FALSE
    /\ batch = {} /\ serving = {}
    /\ reconciled = FALSE
    /\ crashes = 0

-----------------------------------------------------------------------------
(* Operators of the command line and the API: other processes, which can   *)
(* write only while the agent's session holds no write transaction.        *)

OperatorVars == <<overdue, pc, jobVars, tickVars, crashes, targetVars>>

\* schedule: refused by the partial unique index while the target has an
\* unfinished experiment.
Schedule(e) ==
    /\ ~writing
    /\ rows[e].state = "absent"
    /\ \A f \in Experiments : rows[f].state \notin Unfinished
    /\ Commit(Write(e, Moved(NoRow, "planned")))
    /\ UNCHANGED <<requestVars, OperatorVars>>

\* request_control: an idempotency key per experiment, kind and requester.
RequestControl(r) ==
    /\ ~writing
    /\ saved[r.experiment].state # "absent"
    /\ r \notin pending \cup processed
    /\ pending' = pending \cup {r}
    /\ UNCHANGED <<processed, storeVars, OperatorVars>>

-----------------------------------------------------------------------------
(* A tick: startup reconciliation, control requests, one claim *)

Goto(label) == pc' = label /\ UNCHANGED <<jobVars, tickVars>>

At(label, e) == pc = label /\ current = e

AgentOnly == UNCHANGED <<requestVars, overdue, crashes>>

\* run_once of the coordinator returns: the claim is released, or reconcile()
\* is done (there is never a second unfinished row to go on with).
Return ==
    IF reconciling
    THEN /\ pc' = "read_controls"
         /\ reconciled' = TRUE
         /\ IdleJob
         /\ UNCHANGED <<batch, serving>>
    ELSE Goto("release")

\* It raises: the finally clause still releases a claim; out of reconcile()
\* the exception ends the tick with _startup_reconciled still FALSE.
Raise ==
    IF reconciling
    THEN pc' = "idle" /\ IdleJob /\ UNCHANGED tickVars
    ELSE Goto("release")

BeginTick ==
    /\ pc = "idle"
    /\ Goto(IF reconciled THEN "read_controls" ELSE "reconcile")
    /\ AgentOnly
    /\ UNCHANGED <<storeVars, targetVars>>

\* Mutant: the interrupted row is handed to the coordinator as it is.
ReconcileResumesInjecting(e) ==
    /\ pc = "reconcile"
    /\ rows[e].state = "injecting"
    /\ pc' = "run" /\ current' = e /\ reconciling' = TRUE
    /\ UNCHANGED <<storeVars, cancelled, ok, tickVars, targetVars>>
    /\ AgentOnly

\* reconcile() on an interrupted injection.
ReconcileInjecting(e) ==
    /\ pc = "reconcile"
    /\ rows[e].state = "injecting"
    /\ Commit(Write(e, Moved(rows[e], "cleaning_up")))
    /\ pc' = "run" /\ current' = e /\ reconciling' = TRUE
    /\ UNCHANGED <<cancelled, ok, tickVars, targetVars>>
    /\ AgentOnly

\* reconcile() on a row that already needs cleanup; it takes no lease.
ReconcileCleanup(e) ==
    /\ pc = "reconcile"
    /\ rows[e].state \in CleanupStates
    /\ pc' = "run" /\ current' = e /\ reconciling' = TRUE
    /\ UNCHANGED <<storeVars, cancelled, ok, tickVars, targetVars>>
    /\ AgentOnly

\* Nothing to reconcile: planned, preflight, active and verifying are skipped.
ReconcileNothing ==
    /\ pc = "reconcile"
    /\ \A e \in Experiments : rows[e].state \notin CleanupStates \cup {"injecting"}
    /\ pc' = "read_controls"
    /\ reconciled' = TRUE
    /\ UNCHANGED <<storeVars, jobVars, batch, serving, targetVars>>
    /\ AgentOnly

ReadControls ==
    /\ pc = "read_controls"
    /\ pc' = "controls"
    /\ batch' = pending
    /\ UNCHANGED <<storeVars, jobVars, serving, reconciled, targetVars>>
    /\ AgentOnly

\* Mutant: planned rows are cancelled like active ones.
CancelTargetUniform(state) ==
    IF state \in {"planned", "active", "preflight"} THEN "cancellation_requested" ELSE state

\* The state a cancellation moves the row to; the row stays where it is for
\* every other state and for a request of kind "reconcile".
CancelTarget(state) ==
    CASE state = "planned"               -> "cancelled"
      [] state \in {"active", "preflight"} -> "cancellation_requested"
      [] OTHER                           -> state

ControlEffect(r) ==
    IF r.kind = "cancel" THEN CancelTarget(rows[r.experiment].state)
                         ELSE rows[r.experiment].state

\* The first of the two commits of a request that changes its experiment.
ApplyRequest(r) ==
    LET e == r.experiment IN
    /\ pc = "controls"
    /\ r \in batch
    /\ ControlEffect(r) # rows[e].state
    /\ ValidTransition(rows[e].state, ControlEffect(r))
    /\ Commit(Write(e, Moved(rows[e], ControlEffect(r))))
    /\ serving' = {r}
    /\ pc' = "complete"
    /\ UNCHANGED <<jobVars, batch, reconciled, targetVars>>
    /\ AgentOnly

\* validate_transition refuses: the tick ends and the request stays pending.
RefuseRequest(r) ==
    LET e == r.experiment IN
    /\ pc = "controls"
    /\ r \in batch
    /\ ControlEffect(r) # rows[e].state
    /\ ~ValidTransition(rows[e].state, ControlEffect(r))
    /\ pc' = "idle"
    /\ batch' = {}
    /\ UNCHANGED <<storeVars, jobVars, serving, reconciled, targetVars>>
    /\ AgentOnly

Processed(r) ==
    /\ pending' = pending \ {r}
    /\ processed' = processed \cup {r}
    /\ batch' = batch \ {r}
    /\ serving' = {}
    /\ pc' = "controls"
    /\ Commit(rows)
    /\ UNCHANGED <<jobVars, reconciled, overdue, crashes, targetVars>>

\* The second commit, or the only one when the request changes nothing.
CompleteRequest(r) ==
    /\ \/ pc = "complete" /\ r \in serving
       \/ pc = "controls" /\ r \in batch /\ ControlEffect(r) = rows[r.experiment].state
    /\ Processed(r)

ControlsDone ==
    /\ pc = "controls"
    /\ batch = {}
    /\ Goto("claim")
    /\ AgentOnly
    /\ UNCHANGED <<storeVars, targetVars>>

Claimable(e) == rows[e].state \in ClaimableStates /\ rows[e].lease # "held"

\* claim_next and renew_lease: the renewal writes the lease once more.
Claim(e) ==
    /\ pc = "claim"
    /\ Claimable(e)
    /\ rows[e].lease = "none"
    /\ Commit(Write(e, [rows[e] EXCEPT !.lease = "held"]))
    /\ pc' = "run" /\ current' = e
    /\ UNCHANGED <<reconciling, cancelled, ok, tickVars, targetVars>>
    /\ AgentOnly

\* A row whose lease has run out is not claimed: the UPDATE is executed, and then
\* the session, which holds the candidate with the naive lease_expires_at SQLite
\* returns, compares it with the aware "now" and raises.  The tick ends with the
\* write transaction open.
StaleClaimRaises(e) ==
    /\ pc = "claim"
    /\ Claimable(e)
    /\ rows[e].lease = "run_out"
    /\ Flush(Write(e, [rows[e] EXCEPT !.lease = "held"]))
    /\ Goto("idle")
    /\ AgentOnly
    /\ UNCHANGED targetVars

ClaimNothing ==
    /\ pc = "claim"
    /\ \A e \in Experiments : ~Claimable(e)
    /\ Goto("idle")
    /\ AgentOnly
    /\ UNCHANGED <<storeVars, targetVars>>

\* Mutant: the lease is released without a commit.
ReleaseWithoutCommit(e) ==
    /\ At("release", e)
    /\ Flush(Write(e, [rows[e] EXCEPT !.lease = "none"]))
    /\ pc' = "idle"
    /\ IdleJob
    /\ UNCHANGED <<tickVars, targetVars>>
    /\ AgentOnly

\* The finally clause: it commits whatever the coordinator left uncommitted.
Release(e) ==
    /\ At("release", e)
    /\ Commit(Write(e, [rows[e] EXCEPT !.lease = "none"]))
    /\ pc' = "idle"
    /\ IdleJob
    /\ UNCHANGED <<tickVars, targetVars>>
    /\ AgentOnly

-----------------------------------------------------------------------------
(* The coordinator: _prepare *)

\* planned -> preflight is written but not committed; the parameters are
\* validated only now.
Prepare(e) ==
    /\ At("run", e)
    /\ rows[e].state \in {"planned", "preflight"}
    /\ IF rows[e].state = "planned"
       THEN Flush(Write(e, Moved(rows[e], "preflight")))
       ELSE UNCHANGED storeVars
    /\ IF e \in BadParameters THEN Raise ELSE Goto("scenario_preflight")
    /\ AgentOnly
    /\ UNCHANGED targetVars

RefusePreflight(e) == Commit(Write(e, Moved(rows[e], "failed"))) /\ Return

ScenarioPreflight(e) ==
    /\ At("scenario_preflight", e)
    /\ \E reply \in StatusReplies :
        /\ StatusCall(reply)
        /\ CASE reply = "active"   -> Goto("target_preflight") /\ UNCHANGED storeVars
             [] reply = "inactive" -> RefusePreflight(e)
             [] reply = "none"     -> Raise /\ UNCHANGED storeVars
    /\ AgentOnly

\* PreflightService.run as the coordinator sees it: it passes only with Apache
\* active, may refuse for any of its other checks, and may raise.
TargetPreflight(e) ==
    /\ At("target_preflight", e)
    /\ \/ apacheActive /\ Goto("observe_before") /\ UNCHANGED storeVars
       \/ RefusePreflight(e)
       \/ TargetFaults /\ Raise /\ UNCHANGED storeVars
    /\ AgentOnly
    /\ UNCHANGED targetVars

Observed(healthy) == IF healthy THEN "healthy" ELSE "unhealthy"

\* _observe("before") commits, and with it the preflight transition; what it
\* saw is recorded and not looked at.
ObserveBefore(e) ==
    /\ At("observe_before", e)
    /\ \E healthy \in BOOLEAN :
        /\ SiteCall(healthy)
        /\ Commit(Write(e, [rows[e] EXCEPT !.before = Observed(healthy)]))
    /\ Goto("start_injecting")
    /\ AgentOnly

\* Mutant: the intent is written but committed only with the next commit.
StartInjectingUncommitted(e) ==
    /\ At("start_injecting", e)
    /\ Flush(Write(e, Moved(rows[e], "injecting")))
    /\ Goto("run")
    /\ AgentOnly
    /\ UNCHANGED targetVars

StartInjecting(e) ==
    /\ At("start_injecting", e)
    /\ Commit(Write(e, Moved(rows[e], "injecting")))
    /\ Goto("run")
    /\ AgentOnly
    /\ UNCHANGED targetVars

(* _inject *)

Inject(e) ==
    /\ At("run", e)
    /\ rows[e].state = "injecting"
    /\ \E verified \in BOOLEAN :
        /\ StopCall(e, verified)
        /\ Goto(IF verified THEN "save_context" ELSE "injection_failed")
    /\ UNCHANGED storeVars
    /\ AgentOnly

\* Mutant: the cleanup evidence is not saved before activation.
SaveContextSkipped(e) ==
    /\ At("save_context", e)
    /\ Goto("verify_active")
    /\ AgentOnly
    /\ UNCHANGED <<storeVars, targetVars>>

SaveContext(e) ==
    /\ At("save_context", e)
    /\ Commit(Write(e, [rows[e] EXCEPT !.context = TRUE]))
    /\ Goto("verify_active")
    /\ AgentOnly
    /\ UNCHANGED targetVars

VerifyActive(e) ==
    /\ At("verify_active", e)
    /\ \E reply \in StatusReplies :
        /\ StatusCall(reply)
        /\ Goto(IF reply = "inactive" THEN "activate" ELSE "injection_failed")
    /\ UNCHANGED storeVars
    /\ AgentOnly

Activate(e) ==
    /\ At("activate", e)
    /\ Commit(Write(e, Moved(rows[e], "active")))
    /\ Goto("run")
    /\ AgentOnly
    /\ UNCHANGED targetVars

\* Mutant: an uncertain injection is retried.
InjectionFailedRetries(e) ==
    /\ At("injection_failed", e)
    /\ Goto("run")
    /\ AgentOnly
    /\ UNCHANGED <<storeVars, targetVars>>

InjectionFailed(e) ==
    /\ At("injection_failed", e)
    /\ Commit(Write(e, Moved(rows[e], "cleaning_up")))
    /\ Goto("run")
    /\ AgentOnly
    /\ UNCHANGED targetVars

(* run_once after _prepare and _inject *)

ExpireActive(e) ==
    /\ At("run", e)
    /\ rows[e].state = "active"
    /\ e \in overdue
    /\ Commit(Write(e, Moved(rows[e], "expired")))
    /\ Goto("run")
    /\ AgentOnly
    /\ UNCHANGED targetVars

\* _observe("during"): the observation rows of this phase are not modelled.
ObserveDuring(e) ==
    /\ At("run", e)
    /\ rows[e].state = "active"
    /\ e \notin overdue
    /\ Commit(rows)
    /\ Return
    /\ AgentOnly
    /\ UNCHANGED targetVars

\* Mutant: an earlier tick's cancellation is not looked for.
CancellationKnownByState(row) == row.state = "cancellation_requested"

CancellationKnown(row) ==
    row.state = "cancellation_requested" \/ row.outcome = "cancelled_pending"

EnterCleanup(e) ==
    /\ At("run", e)
    /\ rows[e].state \in CleanupStates
    /\ cancelled' = CancellationKnown(rows[e])
    /\ IF rows[e].state = "cleaning_up"
       THEN UNCHANGED storeVars
       ELSE Commit(Write(e, Moved(rows[e], "cleaning_up")))
    /\ pc' = IF CancellationKnown(rows[e]) THEN "mark_cancelled" ELSE "restore"
    /\ UNCHANGED <<current, reconciling, ok, tickVars, targetVars>>
    /\ AgentOnly

(* _cleanup *)

MarkCancelled(e) ==
    /\ At("mark_cancelled", e)
    /\ Commit(Write(e, [rows[e] EXCEPT !.outcome = "cancelled_pending"]))
    /\ Goto("restore")
    /\ AgentOnly
    /\ UNCHANGED targetVars

SetOk(label, value) ==
    /\ pc' = label
    /\ ok' = value
    /\ UNCHANGED <<current, reconciling, cancelled, tickVars>>

\* Mutant: nothing to undo counts as undone.
RestoreUnproven(e) ==
    /\ At("restore", e)
    /\ \/ /\ ~rows[e].context
          /\ SetOk("record_attempt", TRUE)
          /\ UNCHANGED targetVars
       \/ /\ rows[e].context
          /\ \E verified \in BOOLEAN :
                StartCall(verified) /\ SetOk("record_attempt", verified)
    /\ UNCHANGED storeVars
    /\ AgentOnly

\* scenario.cleanup: without the saved context ownership is unproven and the
\* target is not called; with it, apache-start.
Restore(e) ==
    /\ At("restore", e)
    /\ \/ /\ ~rows[e].context
          /\ SetOk("record_attempt", FALSE)
          /\ UNCHANGED targetVars
       \/ /\ rows[e].context
          /\ \E verified \in BOOLEAN :
                StartCall(verified) /\ SetOk("record_attempt", verified)
    /\ UNCHANGED storeVars
    /\ AgentOnly

\* Mutant: the attempt is not recorded before its outcome.
RecordAttemptSkipped(e) ==
    /\ At("record_attempt", e)
    /\ Goto("conclude")
    /\ AgentOnly
    /\ UNCHANGED <<storeVars, targetVars>>

RecordAttempt(e) ==
    /\ At("record_attempt", e)
    /\ Commit(Write(e, [rows[e] EXCEPT !.attempts = IF @ < AttemptCap THEN @ + 1 ELSE @]))
    /\ Goto("conclude")
    /\ AgentOnly
    /\ UNCHANGED targetVars

\* Mutant: the row is escalated past the transition policy.
CleanupExhaustedUnchecked(e) ==
    /\ At("conclude", e)
    /\ ~ok
    /\ rows[e].attempts >= CleanupMaxAttempts
    /\ Commit(Write(e, Moved(rows[e], "operator_attention")))
    /\ Return
    /\ AgentOnly
    /\ UNCHANGED targetVars

\* cleaning_up -> operator_attention is not an allowed transition, so
\* validate_transition raises before anything is written.
CleanupExhausted(e) ==
    /\ At("conclude", e)
    /\ ~ok
    /\ rows[e].attempts >= CleanupMaxAttempts
    /\ IF ValidTransition(rows[e].state, "operator_attention")
       THEN Commit(Write(e, Moved(rows[e], "operator_attention"))) /\ Return
       ELSE UNCHANGED storeVars /\ Raise
    /\ AgentOnly
    /\ UNCHANGED targetVars

CleanupFailed(e) ==
    /\ At("conclude", e)
    /\ ~ok
    /\ rows[e].attempts < CleanupMaxAttempts
    /\ Commit(Write(e, Moved(rows[e], "cleanup_failed")))
    /\ Return
    /\ AgentOnly
    /\ UNCHANGED targetVars

\* cleaning_up -> verifying is written but not committed.
CleanupSucceeded(e) ==
    /\ At("conclude", e)
    /\ ok
    /\ Flush(Write(e, Moved(rows[e], "verifying")))
    /\ Goto("verify_cleanup")
    /\ AgentOnly
    /\ UNCHANGED targetVars

VerifyCleanup(e) ==
    /\ At("verify_cleanup", e)
    /\ \E reply \in StatusReplies :
        StatusCall(reply) /\ SetOk("observe_after", reply = "active")
    /\ UNCHANGED storeVars
    /\ AgentOnly

\* _observe("after") commits the verifying transition; its result is recorded
\* and not looked at.
ObserveAfter(e) ==
    /\ At("observe_after", e)
    /\ \E healthy \in BOOLEAN :
        /\ SiteCall(healthy)
        /\ Commit(Write(e, [rows[e] EXCEPT !.after = Observed(healthy)]))
    /\ Goto("verdict")
    /\ AgentOnly

\* Mutant: a state the schema does not know.
FinalStateUnknown == IF ~ok THEN "unverified" ELSE IF cancelled THEN "cancelled" ELSE "passed"

FinalState ==
    IF ~ok THEN "operator_attention" ELSE IF cancelled THEN "cancelled" ELSE "passed"

Verdict(e) ==
    /\ At("verdict", e)
    /\ Commit(Write(e, [Moved(rows[e], FinalState) EXCEPT !.outcome = FinalState]))
    /\ Return
    /\ AgentOnly
    /\ UNCHANGED targetVars

-----------------------------------------------------------------------------
(* Crashes, restarts, time and the target *)

\* The process dies: its transaction is rolled back, its memory is gone.
Crash ==
    /\ pc # "down"
    /\ crashes < MaxCrashes
    /\ crashes' = crashes + 1
    /\ pc' = "down"
    /\ rows' = saved
    /\ writing' = FALSE
    /\ batch' = {} /\ serving' = {}
    /\ reconciled' = FALSE
    /\ IdleJob
    /\ UNCHANGED <<saved, requestVars, overdue, targetVars>>

\* restart: unless-stopped.
Boot ==
    /\ pc = "down"
    /\ Goto("idle")
    /\ AgentOnly
    /\ UNCHANGED <<storeVars, targetVars>>

TimeVars == <<requestVars, pc, jobVars, tickVars, crashes, targetVars>>

\* Only the deadline of an unfinished experiment is ever compared.
Elapse(e) ==
    /\ e \notin overdue
    /\ rows[e].state \in Unfinished
    /\ overdue' = overdue \cup {e}
    /\ UNCHANGED <<storeVars, TimeVars>>

\* A lease nobody is working under runs out.  (For the one the agent is
\* working under it makes no difference until the agent has crashed.)
LeaseRunsOut(e) ==
    /\ rows[e].lease = "held"
    /\ current # e
    /\ rows' = Write(e, [rows[e] EXCEPT !.lease = "run_out"])
    /\ saved' = [saved EXCEPT ![e].lease = "run_out"]
    /\ UNCHANGED <<writing, overdue, TimeVars>>

TargetStep ==
    /\ TargetChanges
    /\ UNCHANGED <<storeVars, requestVars, overdue, pc, jobVars, tickVars, crashes>>

-----------------------------------------------------------------------------
(* Specification *)

TickStep ==
    \/ BeginTick
    \/ ReconcileNothing
    \/ ReadControls
    \/ ControlsDone
    \/ ClaimNothing
    \/ \E r \in Requests : ApplyRequest(r) \/ RefuseRequest(r) \/ CompleteRequest(r)
    \/ \E e \in Experiments :
        ReconcileInjecting(e) \/ ReconcileCleanup(e) \/ Claim(e) \/ StaleClaimRaises(e)

CoordinatorStep(e) ==
    \/ Prepare(e) \/ ScenarioPreflight(e) \/ TargetPreflight(e) \/ ObserveBefore(e)
    \/ StartInjecting(e) \/ Inject(e) \/ SaveContext(e) \/ VerifyActive(e)
    \/ Activate(e) \/ InjectionFailed(e) \/ ExpireActive(e) \/ ObserveDuring(e)
    \/ EnterCleanup(e) \/ MarkCancelled(e) \/ Restore(e) \/ RecordAttempt(e)
    \/ CleanupExhausted(e) \/ CleanupFailed(e) \/ CleanupSucceeded(e)
    \/ VerifyCleanup(e) \/ ObserveAfter(e) \/ Verdict(e) \/ Release(e)

AgentStep == TickStep \/ \E e \in Experiments : CoordinatorStep(e)

OperatorStep ==
    \/ \E e \in Experiments : Schedule(e)
    \/ \E r \in Requests : RequestControl(r)

TimeStep == \E e \in Experiments : Elapse(e) \/ LeaseRunsOut(e)

Next == AgentStep \/ OperatorStep \/ TimeStep \/ TargetStep \/ Crash \/ Boot

Spec == Init /\ [][Next]_vars

\* The runtime ticks for as long as it lives, every call it makes is bounded
\* by a timeout, the container is restarted, and clocks advance.  Nothing is
\* assumed of operators, of crashes or of what happens on the target.
Fairness ==
    /\ WF_vars(AgentStep)
    /\ WF_vars(Boot)
    /\ \A e \in Experiments : WF_vars(Elapse(e)) /\ WF_vars(LeaseRunsOut(e))

FairSpec == Spec /\ Fairness

=============================================================================
