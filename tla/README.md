# A TLA+ model of chaos_agent

chaos_agent runs bounded fault-injection experiments against one development
web server. An operator schedules an experiment through the command line or the
HTTP API; a supervised agent process picks it up, checks the target, stops
Apache over SSH, waits for the experiment to expire or be cancelled, starts
Apache again and verifies that it did. Every decision is a row in a SQLite
database. What makes it hard is that the database, the target and the agent's
memory can each be ahead of the others when the agent dies, when an SSH reply
is lost, or when a second actor writes to the database.

This directory holds the specifications of that behaviour, the TLC
configurations that check them on small instances, and the theorems about them
that TLAPS proves for every instance. Source paths are relative to the
repository root.

## Inventory

| Component | State | Operations | Interaction |
|---|---|---|---|
| Lifecycle (`src/chaos_agent/domain/experiment.py`) | none | `validate_transition` | called by every `transition` |
| Store (`adapters/persistence/repositories.py`, `models.py`, `database.py`) | experiment rows, transition (audit) rows, cleanup attempts, site observations, control requests | `schedule`, `transition`, `claim_next`, `renew_lease`, `release_lease`, `record_attempt`, `record_observation`, `request_control`, `complete_control_request` | shared by the agent, the CLI and the API through SQLite |
| Coordinator (`application/coordinator.py`) | none of its own; the session's open transaction | `run_once`, `_prepare`, `_inject`, `_cleanup`, `_observe` | called by the supervisor; calls scenario, preflight, observer, store |
| Supervisor (`application/supervisor.py`) | `_startup_reconciled`, the claimed row | `reconcile`, `run_once` | called once per heartbeat interval by the runtime |
| apache-stop scenario (`application/scenarios/apache_stop.py`) | none | `preflight`, `inject`, `verify_active`, `cleanup`, `verify_cleanup` | one SSH call each |
| SSH transport (`adapters/openssh.py`) | the client process and its stream readers | `execute`, `_run_bounded`, `_stop_and_reap` | starts `ssh`, kills it at the command timeout |
| SSH dispatcher (`ops/target/ssh-dispatcher`) | none | `dispatch` | the key's forced command; runs the helper through `sudo` |
| Target helper (`ops/target/target-helper`) | Apache on the target; a PID file and an artifact for the two other scenarios | `version`, `identity`, `preflight`, `apache-stop-preflight`, `apache-stop`, `apache-start` | one process per call; several `systemctl` calls each |
| Preflight service (`application/preflight.py`) | the list of checks of one run | `run` | SSH calls and one website request, in a fixed order |
| Runtime (`runtime.py`) | the heartbeat file | `run`, `_write_heartbeat`, `_invalidate_after_failure` | calls the supervisor between heartbeats; swallows its exceptions |
| Health command (`health.py`) | none | `evaluate_health` | reads the heartbeat file from another process |
| Command line and API (`cli.py`, `api.py`, `application/experiments.py`) | none | schedule, abort, reconcile, status, history | concurrent writers of the store |
| Website observer (`adapters/http_observer.py`) | none | `observe` | one bounded request |
| cpu-pressure, disk-pressure scenarios | none | as apache-stop | not in the catalog; their helper operations are refused by the helper's own `OPERATIONS` set |
| Configuration, logging, dashboard, outbox, migrations | none, or written by nobody | | |

Hard behaviour: crashes between a remote effect and the commit that records it;
transitions written but not committed across remote calls; replies lost after
the effect; a helper that outlives its killed SSH client; a target changed from
outside; control requests that meet a row in any state; leases left behind by a
dead process; retries of cleanup; a second supervisor process that works on the
same rows from copies of its own; a host that changes between the helper's looks
at it. PROJECT.json lists each of these at its line.

What makes each component correct:

* lifecycle and store: committed rows follow the transition graph, history is
  append-only, a terminal row is final, one unfinished experiment per target;
* coordinator and scenario: an outage the agent caused is never forgotten, the
  stop is sent at most once and only after its intent is durable, ownership of
  an outage is durable, outcomes have evidence;
* supervisor: every claimable state is claimed, requests are processed, the
  write lock is held for a stated reason;
* runtime and health: a heartbeat that reads as healthy was written recently by
  a live process that considers itself ready;
* several supervisors: however they interleave, the stop is sent once, no claim
  is shared, no transition is lost and no final row moves;
* preflight: it passes exactly when every check does, and stops at the first
  that does not; SSH transport: no call outlives its bound;
* target helper: whatever it, `systemd` and the host do between a call and its
  answer, the caller may think of it as one call with an effect now, later or
  never, and the answers are ones the caller accepts.


## Plan

The order is by what matters most: first the agent that injects a fault and has
to take it back, then the parts it stands on.

| Step | Modules | State |
|---|---|---|
| 1 | `ExperimentDomain`, `Lifecycle`, `ApacheTarget`, `Supervisor` with properties, invariant, proofs and refinement | done |
| 2 | `Heartbeat`: runtime loop, heartbeat file, health command | done, proved |
| 3 | `RemoteCall`: one SSH call with its client, deadline and cancellation | done, proved |
| 4 | `Preflight`: the eleven checks and their report | done, proved |
| 5 | `Fleet`: several supervisors on one database, with leases, revisions, stale copies, the write lock, and a `reconcile` that takes no lease | done, proved |
| 6 | `TargetHelper`: dispatcher, helper process, `systemctl` and `systemd`, the decoder; composed with `Preflight`, and shown to implement `ApacheTarget` | done, proved |

How the modules build on each other: `Lifecycle` is implemented by `Supervisor`,
which makes its calls on `ApacheTarget`, which is implemented by `TargetHelper`;
`Preflight` extends `TargetHelper`, whose helper processes serve its calls while
the scenario makes one of its own. `Fleet` stands beside `Supervisor`: it has
less of the target and more of the database, and implements the shared form of
`Lifecycle`.

What could still be composed: `RemoteCall` as the transport between `Preflight`
and `TargetHelper`, instead of a call that is lost at any time (`CallLost`,
`CallFails`).

## Modules and how they correspond to the code

`ExperimentDomain` holds `ExperimentState`, `TerminalStates` and
`ALLOWED_TRANSITIONS` of `domain/experiment.py`, edge by edge, and
`ValidTransition`, which is `validate_transition`.

`Lifecycle` is the abstract specification: what a reader of the committed rows
may rely on. `Supervisor` implements it under the mapping `Abstract` in
`SupervisorProperties`: `state` is the committed state of each row, `injected`
the experiments for which a stop was sent. `SharedSpec` is what is left of it
when several processes share the database: it has two steps more, a stop that
comes after the row was taken to cleanup (`RequestFaultLate`) and a deadline
recorded over a cleanup that has begun (`ExpireLate`, the step `PolicyIsKept`
below is about). Everything else a reader may rely on stays: no row says `active`
or `passed` for a fault that was never requested, or `failed` for one that was.
`Fleet` implements it under the mapping `Abstract` in `FleetProperties`.

`ApacheTarget` is the target host and the three Apache operations of
`ops/target/target-helper` as seen through SSH. It has no next-state relation
of its own; its operators are conjuncts of the supervisor's actions.

`Supervisor` is the agent. `pc` has one label for each stretch of code between
two points at which somebody else can act: a commit, or a call to the target or
the website.

| Code | Actions |
|---|---|
| `Supervisor.reconcile` | `ReconcileInjecting`, `ReconcileCleanup`, `ReconcileNothing` |
| `Supervisor.run_once`, control requests | `ReadControls`, `ApplyRequest`, `RefuseRequest`, `CompleteRequest`, `ControlsDone` |
| `claim_next`, `renew_lease`, `release_lease` | `Claim`, `StaleClaimRaises`, `ClaimNothing`, `Release` |
| `_prepare` | `Prepare`, `ScenarioPreflight`, `TargetPreflight`, `ObserveBefore`, `StartInjecting` |
| `_inject` | `Inject`, `SaveContext`, `VerifyActive`, `Activate`, `InjectionFailed` |
| `ExperimentCoordinator.run_once` | `ExpireActive`, `ObserveDuring`, `EnterCleanup` |
| `_cleanup` | `MarkCancelled`, `Restore`, `RecordAttempt`, `CleanupExhausted`, `CleanupFailed`, `CleanupSucceeded`, `VerifyCleanup`, `ObserveAfter`, `Verdict` |
| `schedule`, `request_control` (CLI and API) | `Schedule`, `RequestControl` |
| process death, `restart: unless-stopped`, clocks | `Crash`, `Boot`, `Elapse`, `LeaseRunsOut` |
| the target, from outside | `TargetStep` |

`rows` is what the agent's session sees and `saved` what is committed. The
session lives as long as the process, and two transitions are flushed without
a commit before remote calls (`planned -> preflight`, `cleaning_up ->
verifying`): while `writing` holds, SQLite keeps every other writer out, and a
crash throws `rows` away.

`SupervisorProperties` states the properties, `SupervisorInvariant` the
inductive invariant, `SupervisorTypeProofs`, `SupervisorProofs` and
`SupervisorRefinementProofs` the proofs.

`Heartbeat` is `PassiveRuntime.run`, the heartbeat store of `runtime.py` and
`evaluate_health`. It keeps no timestamps but the time that has passed since
them, as the system clock tells it (`age`, `stamp`, `uptime`) and as it really
was (`silence`). `Create`, `Fill`, `Replace` and their failures are the steps
of `write`; `Invalidate` is `_invalidate_after_failure`; `WaitEnds`,
`TickEnds`, `StopSeen` and `Signal` are the loop and the signal handler; the
supervisor's tick is one opaque phase of bounded length.

`RemoteCall` is one call of `OpenSshTransport.execute`: the client and a child
it may leave in its process group, the reader task of each stream, the task
that waits for the client, and `_stop_and_reap`.

`TargetHelper` is the target from inside. `helper[c]` is the process that serves
the call of caller `c`, a preflight run or a scenario; it goes through the
stages of `build_response`: `ReadMarker` (`read_marker`), `ShowUnit` and
`AskActive` (the two `systemctl` calls of `apache_facts`), `Systemctl` (the
action of `apache_control`), then `ShowUnit` and `AskActive` again, or
`ReadResources` (`resource_facts`). `HelperFails` is any of its failures,
`SystemctlTimesOut` the one that leaves a `systemd` job behind in `jobs`, which
`JobLands` ends. What may be unfit about the host is in the set `unfit`; it
changes between any two steps (`HostChanges`). A reply is the set of its fields:
`ReplyFields` are those `build_response` prints, `AdmittedFields` those the
response models of `domain/target.py` admit. `Ask`, `Answered` and `CallLost`
are the scenario's `execute`.

`HelperImplementsTarget` is the refinement of `ApacheTarget`: a call has taken
place when it has had its effect or its answer; an effect still to come after
the answer is a late stop or start.

`Preflight` is one `PreflightService.run` on top of that, and the exit status
the command line makes of it: `Call` starts a helper process, `VersionReply`,
`IdentityReply` and `PreflightReply` use what it has found (`found`), `CallFails`
and `Interrupted` leave it to itself.

`Fleet` is several supervisor processes, each with its own session on one
database file. `saved` are the committed rows, `rows` those of the session that
holds SQLite's write lock (`writer`), and `seen[a]` the rows as process `a` has
loaded them: SQLAlchemy's identity map, which a commit or a rollback empties and
nothing else refreshes. `Load` is `session.get`. `Moves` is `transition` with
its two conditions, the policy on the copy and the revision on the row;
`MoveRefused` and `MoveConflicts` are their failures, `LockedOut` the busy
timeout. `SelectCandidate`, `ClaimWon`, `ClaimLost` and `StaleClaimRaises` are
`claim_next`, the `SELECT` apart from the `UPDATE`. The labels are those of
`Supervisor`, with fewer stops: the scenario's preflight, `PreflightService.run`
and the before observation are one step (`Checks`), since nothing is read from
the store in between and the lock is held throughout; so are `verify_cleanup`
and the after observation (`Verify`), and the claim with its renewal. All
processes are configured for one target, which is reduced to `outage`.

`Fleet` shows effects that one process cannot have: a copy that keeps the values
of an `UPDATE` that matched nothing (after which its session takes `verifying`
or `active` for granted until it reads again); `cleanup_context` and
`cancelled_pending` written by primary key into a row that has moved on;
attempts of two processes under one number; a lock-out that leaves a session
unusable for good while the heartbeat goes on. `FleetProperties` states the
properties, `FleetInvariant` the inductive invariant, `FleetProofs` the proofs.

Definitions whose comment begins with "Mutant" are not part of the models: each
is a deliberately wrong variant of the definition after it, kept to show that
the properties notice.

## Runs

The bounds are constants or guards; every one is named where it is declared.

| Run | Instance | What it shows |
|---|---|---|
| `faults` | one experiment, one operator, one crash anywhere, faulty target, Apache changed from outside, 2 automatic attempts | all safety properties of the agent, its refinement of `Lifecycle`, that a cancellation is forgotten by a crash between two commits and by nothing else, that an active experiment expires whatever the target does unless its lease has run out, that the write lock outlives a tick only after a claim that raised on such a lease, and that the inductive invariant holds |
| `reliable` | two experiments, one operator, a target that answers, no crash | every outage ends, every experiment ends, every request is processed |
| `heartbeat` | interval 2, tick 2, write 1, maximum age 6, clock set back by up to 2, a crash, failing storage | healthy means recent, a live process passes, an ended one does not, a stop request is served |
| `remote_call` | deadline 2, grace 1, limit 1 chunk, up to 3 written, a forked child, 2 cancellations | the call ends, returns with its client collected, answers only from the whole output, keeps its memory bound, signals only its own group |
| `preflight` | seven subjects, each fit or not at the start, one change of anything during the run, one call of the scenario | the report is complete and ordered, a pass is earned, contacts come in their turn, the exit status tells how far the run got, the helper's call is one of `ApacheTarget` |
| `fleet` | two processes (symmetric) that are started twice in all, one experiment, 2 automatic attempts, failing calls, run-out leases | with a second process at work the stop is sent once, claims are exclusive, outages stay accounted for, audit trails are gapless and keep to the policy but for one edge, verdicts are final, and the committed rows walk the shared form of `Lifecycle` |
| `doc_attempts_bounded`, `doc_preflight_cancel`, `doc_cancelled_never_passes`, `doc_active_expires`, `doc_replies`, `doc_transition_policy` | the smallest instance for each | the disagreements below |

Why these bounds are enough to meet the interesting cases. One crash can fall
at each label, before and after each commit and while a late stop or start is
pending; what a second one adds is a restart from a state that a restart
already reaches, and the proofs cover any number. Two experiments, in
`reliable`, are the least for the index and for a queue that serves them in turn.
That a second one is not disturbed on a faulty target, by a late stop of the first
or by a lease it left, is what `InductiveInvariant` proves for any number of them;
TLC has checked `IInv` and `LockInv` once on two experiments with a crash and a
faulty target (3.5 million states, too long for every day). Two attempts are the least that tell a retry from the last one; attempt numbers
saturate at `AttemptCap`, one above the maximum, because the code only compares
them with it. In `heartbeat` a wait, a tick and two writes fill the maximum age
exactly, and one unit more of tick breaks `LiveIsHealthy`. In `remote_call`
three chunks reach past the limit and past a well-formed reply, and two
cancellations are one during the call and one while it is being stopped. In
`preflight` the run starts from every combination of fit and unfit, and one
change at any moment is enough for a reply to differ from the one before it; two
changes, which let the target be right, wrong and right again between the three
calls, were checked once and take too long for every day (2.07 million states
against 522 thousand), and the proofs cover any number. The seven subjects are
one for each thing the checks do differently (`SomeSubjects`). In `fleet` (1.15
million states) a process that has died may be the one that is started again or
the other; a third start adds nothing with one attempt (checked once), and with
two attempts makes the run too long. A second experiment can only start when the
first has ended; what a process still holds of the first by then concerns only
the first.

`CHECK_DEADLOCK FALSE` appears in `preflight`, `remote_call`, `doc_replies`,
which end, and in `fleet` and `doc_transition_policy`, where every process may
have died for the last time.

### Fairness

* `Supervisor`: the agent's steps (`AgentStep`) are weakly fair because the
  runtime ticks for as long as it lives and every SSH call and website request
  has a timeout; `Boot` because compose restarts the container
  (`restart: unless-stopped`, `compose.yaml`); `Elapse` and `LeaseRunsOut`
  because clocks advance. Nothing is assumed of operators, of crashes, or of
  changes on the target. The choices within a step (which reply a call gets)
  are not fair, so with `TargetFaults` a call may fail every time: `OutageEnds`,
  `ExperimentEnds` and `RequestsServed` are claimed only for a target that
  answers.
* `Heartbeat`: the process's own steps and time. Storage may fail for ever.
* `RemoteCall`: the event loop runs what is ready, and time passes. The client
  need not do anything.

### Assumptions of the models

* One target, as the configuration has it. With the partial unique index at
  most one experiment is unfinished, so the order in which `claim_next` and
  `reconcile` take rows does not matter.
* Pending requests are served in any order; the code's order by `requested_at`
  is one of them.
* A remote call and its reply are one step of `Supervisor`, with a crash point
  before and after. That the effect can come without the reply, later than
  the reply, or not at all is in `StopCall`, `StartCall` and the late steps.
* Write transactions of the command line and the API are short, so the agent
  never sees "database is locked". They do see the agent's.
* A lease that has run out is not taken over (`StaleClaimRaises`). `claim_next`
  (`repositories.py:127`-`168`) loads its candidate into the session and then
  executes an `UPDATE` whose condition compares `lease_expires_at < now`.
  SQLAlchemy (2.0.52 in `uv.lock`) synchronises the session with such an `UPDATE`
  by default, by evaluating the condition on the loaded rows after it: the value
  SQLite returned is naive, `now` is aware, and Python raises `TypeError`. Nothing
  rolls the session back, so the write transaction stays open, with the new
  lease in it, until another commit of the same session or the end of the process.
  The models take this as what the program does. With
  `synchronize_session=False`, or times of one kind on both sides, the claim would
  take the row over: `ActiveExpires` below would hold for one process (TLC has
  checked it on such a `Claim`), and two processes could share a claim.
* `RemoteCall`: `process.wait()` returns once the client is collected
  (interpreters in which it also waits for the pipes are not modelled);
  collecting the client and setting `returncode` are one step; descendants of
  the client stay in its process group; a cancellation before the client is
  started is not modelled.
* `Preflight`: each reply gives one verdict per subject; wording and durations
  are left out; the exit status after an interrupt is the CLI library's.
* `TargetHelper`: the marker, the unit and the files are each looked at in one
  step; a killed `systemctl` leaves its job to `systemd`, which does it or gives
  it up; one call of a scenario, as the supervisor makes them one at a time.
* `ApacheTarget` and `Supervisor` speak of replies the agent accepts. With
  today's helper no Apache reply is (see `EvidenceIsAccepted` below): each such
  call is then one whose reply is lost, which `TargetFaults` includes and the
  safety runs check. `reliable` assumes the contract of `ApacheControlPort`,
  which the helper would keep without its surplus field.
* `Fleet`: that claiming a run-out lease raises is also what separates two
  processes whose leases run out under them. `ClaimsExclude`, `StopsOnce` and
  `OutagesAreAccounted` rest on it; if such a lease could be taken over, two
  processes could share a claim and the stop could be sent twice. What separates
  them today is an exception nobody intended.
* `Fleet`: a process that has died comes back under another instance id
  (`Gone` stands for all the former ones); the write transactions of the
  command line are short and wait for the lock.
* `Heartbeat`: one agent writes to the data directory; the clock is set back by
  at most `MaxSkew` in all, and never forward (a jump forward only makes a
  heartbeat look older, that is a slower process).

## Where documents and code disagree

Each of the first six has a run that ends in the disagreement.

* `AttemptsBounded`: the last failed attempt should end in
  `operator_attention` (specs/phase-03-experiment-engine.md:373); the
  transition is refused by the policy, so the row stays in `cleaning_up` and
  every tick tries again.
* `PreflightCancelServed`: cancelling work in `preflight` should stop it
  (phase-03:360); the transition is refused, the request stays at the head of
  the queue and nothing is claimed any more. A row rests in `preflight` when
  its preflight raised, as it does for parameters the API stored unchecked
  (`BadParameters`): the release of the lease commits the transition.
* `CancelledNeverPasses`: a cancellation should never end `passed`
  (phase-03:249); a crash between the commits of `cleaning_up` and of
  `cancelled_pending` makes it so. `CancellationSurvives` says, and
  `CancellationIsForgottenOnce` proves, that nothing else does: a cancellation
  that a row has shown since it was requested is given up in no other step, and
  `CancelledNeverPassesWithoutCrash` proves the sentence of the document for an
  agent that does not crash.
* `ActiveExpires`: after a restart an active experiment that has expired, or whose
  lease is uncertain, should go to cleanup (phase-03:411), and every non-terminal
  state should have a tested restart path (phase-03:634). If the agent dies under
  its claim of an active row, the row keeps the dead process's lease. `reconcile`
  has no branch for `active` (`supervisor.py:46`-`52`); once the lease has run out
  each claim raises as described above, and until the lease it has written runs
  out in turn the next ones find nothing. The experiment never expires, Apache
  stays stopped, and the write lock is held from tick to tick, so the command line
  and the API can neither cancel nor schedule, while the runtime swallows the
  exception and its heartbeat goes on. A restart gives the lock back and leaves
  the row where it is. `ExpiresUnlessStranded` says that this is the only way in
  which an active experiment fails to expire, `WriteLockIsAccounted` says, and
  `WriteLockAlwaysAccounted` proves, that a raising claim is the only way in which
  the lock outlives a tick. A claim left on a row in any other claimable state
  blocks the same way; `reconcile` gives those in need of cleanup one attempt per
  restart.
* `EvidenceIsAccepted`: `apache-stop` should return evidence (phase-04:84). The
  helper merges a field `service` into its reply to each of the three Apache
  operations, and the model the agent decodes it with forbids fields it does not
  know (`domain/target.py`, `extra="forbid"`): every such reply becomes a
  transport error, after the operation was done. In production the scenario's
  preflight therefore raises in every tick, so no experiment gets to its stop;
  the row rests in `preflight`, where a cancellation blocks the queue as above.
* `PolicyIsKept`: the transition policy should reject every unapproved edge
  (phase-03:617). A process A has injected and loaded the row to make it
  `active`; a process B that starts now takes it to `cleaning_up`. A's `UPDATE`
  matches nothing, but the session has already given A's copy the values of it,
  and the exception does not take them back. `_inject` catches it and finds a
  copy that is not `injecting` any more; `run_once` goes on from an `active` row
  with the revision of B's `cleaning_up`, and if the deadline has passed it
  commits `expired` over it. `TrailFollowsPolicy` says, and `TrailsFollowPolicy`
  proves, that this is the only edge a stale copy gets past the policy.

Others met while modelling, reflected in the models and without a run:

* `verifying` should be resumed after a restart (phase-03:416); neither
  `claim_next` (`repositories.py:130`) nor `reconcile` (`supervisor.py:46`) lists
  it, so a row that a crash left there rests there and blocks its target;
* local health should be independent of the target
  (phase-02-secure-target-access.md:641); at the default timings (10, 30, and
  several SSH calls of up to 15 seconds per tick) a target that does not answer
  outlasts the heartbeat's maximum age (`LiveIsHealthy` needs `TickFits`);
* the before and after observations are recorded and not looked at
  (phase-03:385, :387);
* cleanup goes to the target of the process's configuration, not to that of the
  row (`production.py:34`): after a restart with another target it acts on a
  host the experiment never touched (phase-03:375), and the identity is not
  verified before it (phase-03:522);
* a process that starts while another is at work takes up its rows: it moves an
  `injecting` row to cleanup under the other's hands, and what the other then
  writes (`cleanup_context`, `cancelled_pending`) goes by primary key into the
  moved row;
* a row that one process has flushed to `verifying`, and another has then taken
  from it, ends in `operator_attention` although Apache was restored;
* an attempt whose number another process has recorded meanwhile is dropped
  without a trace (`record_attempt` takes it for a duplicate);
* the reconcile command records its requests one by one in one session; a
  duplicate rolls the session back and with it the requests before it, which it
  has already counted as accepted (`cli.py:211`-`220`);
* `read_marker` refuses a wrong environment or role itself, with an exit status
  the agent reads as a failed call, so the refusals the agent has for them
  (`verify_target_identity`) are never given;
* `changed` in a stop's reply is a constant: a unit that somebody else stopped
  between the helper's look and its `systemctl stop` counts as the agent's;
* write transactions are held open during target calls (phase-03:178, :321);
* a request of kind "reconcile" is consumed and changes nothing (phase-03:374);
* a crash between the stop's effect and the commit of `cleanup_context` leaves
  a row whose cleanup answers "ownership unproven" for ever: the outage is
  accounted for, but not repaired (this and the stranded claims above are why
  `OutageEnds` and `ExperimentEnds` are claimed only without crashes);
* an agent whose clock is set back below its own start raises out of `run` and
  leaves a ready heartbeat behind (`runtime.py` builds the model outside its
  `try`); `ExitIsUnhealthy` therefore speaks of the other exits, and
  `HealthyIsRecent` bounds how long the one left behind is believed;
* SSH files that become unsafe after their own check raise an error that the
  preflight does not classify: exit status 3 instead of 2 (phase-02:682);
* a cancellation that arrives while a call is being stopped leaves
  `_stop_and_reap` half done, and a descendant that outlives a client already
  collected is not signalled at the deadline (phase-02:745): `ReturnedIsReaped`
  excludes the result "interrupted" and speaks of the client, not of its
  descendants.

## What is proved

All theorems hold for every value of the constants that satisfies the modules'
named assumptions: any number of experiments, operators, crashes, attempts, any
timings.

| Module | Theorems |
|---|---|
| `SupervisorTypeProofs` | `TypeCorrect` |
| `SupervisorProofs` | `InductiveInvariant`, `OutageAlwaysAccounted`, `NeverInjectsTwice`, `IntentIsCommitted`, `OwnershipSurvives`, `OutcomesAreEvidenced` |
| `SupervisorRefinementProofs` | `HistoryNeverLost`, `SupervisorImplementsLifecycle`, `CancellationIsForgottenOnce`, `CancelledNeverPassesWithoutCrash`, `TicksComeToAnEnd`, `WriteLockAlwaysAccounted` |
| `HeartbeatProofs` | `HeartbeatTypeCorrect`, `HeartbeatInvariant`, `HealthyIsRecentAlways`, `LiveIsHealthyAlways`, `ExitIsUnhealthyAlways`, `StraysComeFromCrashesAlways` |
| `RemoteCallProofs` | `CallTypeCorrect`, `CallInvariant`, `CallsAreReaped`, `AnswersAreWhole`, `MemoryStaysBounded`, `SignalsStayInGroup`, `CallsGoOn`, `CallsAreBounded` |
| `PreflightProofs` | `PreflightTypeCorrect`, `ReportsAreComplete`, `PassesAreEarned`, `ExitsTellHowFar`, `ContactsAreInTurn`, `CallImplementsTargetBesideRun` |
| `TargetHelperProofs` | `CallImplementsTarget` |
| `FleetProofs` | `FleetTypeCorrect`, `TrailsAreGapless`, `ClaimsExclude`, `StopsOnce`, `OutagesAreAccounted`, `VerdictsAreFinal`, `TrailsFollowPolicy`, `FleetImplementsSharedLifecycle` |

The agent. No safety property is inductive: a crash replaces the session's rows
by the committed ones, and a late stop strikes long after it was sent. `IInv`
therefore says four things. `SessionInv`: for each experiment the two views
agree up to a lease, or the coordinator stands between one of its two
uncommitted transitions and the commit that ends it (`Uncommitted`).
`StoreInv`: each view of a row fits the target (`RowInv`), so replacing one by
the other keeps the properties. `TargetInv`: a stop is sent at most once, and
without one there is no outage. `ControlInv`: what the coordinator may rely on
at each label (`JobInv`), such as that nothing of the stop can still land once
a cleanup with proven ownership has answered. Each action has a lemma; the
shared shapes (commit a move, commit a field, flush a move) are lemmas of their
own. The five safety theorems follow from `IInv`.

Refinement. `StepKinds` sorts every step into what it does to the committed
rows and to the stop calls: nothing that shows, one allowed edge, the edge
`planned -> failed` committed through an unseen `preflight`, a new row, or a
stop call. Each kind is one step of `Lifecycle` or a stutter; `HistoryIsFinal`
follows from the same lemma.

Cancellations. The agent remembers one in three places in turn: the row's state,
`_cleanup`'s argument before the commit of the outcome, the outcome
(`Remembered`). `CancelInv` says that the two views agree on the outcome, that
only a row with the outcome "passed" is in the state `passed`, and that within
`_cleanup` the argument says what the row says. Most steps leave the three places alone
or move the row without touching them (`MostStepsAreOrdinary`); `EnterCleanup`,
`MarkCancelled`, `Verdict`, `Schedule` and `Crash` each have a proof of their
own. `RememberedInv`, that without a crash every cancellation is remembered, is
what `CancelledNeverPassesWithoutCrash` needs beside it.

Ticks. `Heartbeat` takes the supervisor's tick for one phase of bounded length,
and the fairness of `AgentStep` is of use only if a tick's steps come to an end.
`TicksComeToAnEnd` proves that they do, from any state, crash or not: `TickStage`
numbers the stretches of code a tick may still have before it, at most 50; each
step of the agent lowers the number or takes a request off the tick's list, and
no step of anybody else raises it. `TickInv` says that the coordinator stands at
"run" only with a row it has a branch for.

The write lock. `WriteLockAlwaysAccounted` assumes nothing: the session holds the
lock at one of six labels of the coordinator, which by `TicksComeToAnEnd` end with
the tick, or, outside the coordinator, after a claim that raised. Its invariant is
`LockInv`. `LeaseInv`: before the first crash the only lease is that of the claim
under way, so none runs out, and a lease the session knows to have run out has
done so in the database. `StartInv`: claims come after the startup reconciliation,
so `reconcile` never meets a transaction that a claim has left open.

The heartbeat. `ClockInv` relates clock ages to real time up to the skew, with
the saturated counters out of reach of every check; `LoopInv` bounds the age of
the published heartbeat at each phase (`OldestAge`). `LiveIsHealthyAlways`
assumes `TickFits` and `SkewIsTolerated`: a wait, a tick and two writes fit the
maximum age. The configuration guarantees neither, it asks only for two
intervals; that gap is the disagreement about local health above.

The SSH call. `TaskInv`, `ReadInv`, `ClientInv` and `ResultInv` say which task
states a phase allows, how much was read against how much was written, when the
client is gone, and when there is a result.

`SignalsStayInGroup` needs no invariant: each of the steps that signal looks at
the client in the same turn of the event loop.

How far a call can go is the safety half of `CallEnds`. `CallsGoOn`: at each stage
what the stage waits for is still to come. `CallsAreBounded`: with `WorkLeft`,
which adds up the stages, the time, the tasks, the chunks and the client's end
that are left, every step of the loop, the clock or the caller lowers it and
nothing the client does raises it. TLC agreed with both before they were proved.
What is left to TLC for `CallEnds` is that the loop and the clock do take steps.

The preflight. `ChecksInv`: until the run is done, its checks are a prefix of
passed ones that ends before the check being made, and a finished report is such
a prefix, a failure and skips. `ContactsInv`: the contacts are those of the
checks before the one being made, and once the website is reached the last reply
showed nothing unfit. Neither is inductive without the names' order, which the
first lemmas of the module establish.

The helper's call. `CallInv` says which operation each process may be serving at
each stage (`ReaderInv`: a preflight's process never acts; `ActorInv`), that a
job left behind is the scenario's, whose process has failed without an effect
(`JobsInv`), and that the scenario waits exactly between its call and its
evidence (`WaitInv`). With it each step is a call, a late effect, a change from
outside, or a stutter of `ApacheTarget`.

The fleet. `FleetIInv` adds to the types that whatever a process has at hand, in
its list or as a copy has been scheduled (`PresentInv`: rows never go away), and
that every view of a trail is gapless (`TrailInv`). A step of a process is split
into what it makes of the store, of the process, of its copies and of the rest;
for the store it is enough that each row is the one of some view, or that row
moved on by one transition, and that no row loses its owner but at the release
of its own process (`StoreFollows`). From the last part follows `OwnedInv`, that
the row of a claimed experiment has an owner in both views, and from it the
exclusive claim: a claim is won only on a row without an owner.

What processes with stale copies may still do to a row does not depend on who has
claimed it. `FleetTrailInv` says it, in nine parts. `SoundInv`: where each state
can stand in a trail, that nothing follows a verdict and that an injection is begun
once; `PolicyInv` adds the edges. `LockInv`: uncommitted rows go on from the
committed ones. `CopyInv`: a copy shows a point of its row's trail, so that one
with the row's revision is the row, and what `validate_transition` lets pass on the
copy is valid for the row. One copy is not like that, and the invariant has to name
it (`Phantom`): a process that loses its row while it injects keeps a copy that
says `active`, works on with it under its claim, and can make nothing of it but
`expired`, on a row that is past its injection. `ClaimInv`: only a claimed process
comes to an injection, and never by resuming one, while `reconcile` works on rows
that are past theirs. `FlushInv`: a transition that is written and not committed is
one of two, and its process stands at one of the labels that end it. `KnowInv`:
cleanup context, proven ownership and an effect verified are had only after a stop.
`EffectInv`: a stop follows the commit of `injecting`, and the trail of an
experiment without one shows no effect. `CheckInv`: only a row read in `preflight`
is refused.

`RowsFollow`, `CopiesShow` and `Goes` say what a step does to the rows, the copies
and the process at hand; each part of the invariant is then one lemma
(`AgentSoundStep`, `AgentLockStep`, `AgentCopyStep` and so on). From
`FleetTrailInv` follow `VerdictsAreFinal`, `TrailsFollowPolicy` and, once each
commit is sorted into the edge it makes visible (`SharedMove`, `MoveIsShared`),
`FleetImplementsSharedLifecycle`: none of the three needs that claims exclude.

`FleetWorkInv` does: `StopInv`, nobody who runs under a claim resumes an
injection, so whoever comes to the stop is the first; `UndoInv`, only who has
undone the stop takes a row whose outage may last to `verifying` or a verdict.
`StopsOnce` and `OutagesAreAccounted` follow from it.

Four results are stated by theorems alone and are properties of no run:
`StraysComeFromCrashes`, `CallGoesOn`, `CallIsBounded` and `TicksAdvance`. TLC has
checked each on the run of its module.

Only model-checked: all liveness (fairness and ENABLED are beyond the prover).

## What is not modelled

* cpu-pressure and disk-pressure. No execution reaches them: the catalog lists
  `apache-stop` only, the helper's `OPERATIONS` (`target-helper:20`-`22`) lacks
  every one of their operations, and `SshScenarioControl` sends the CPU
  operations for both scenarios' `start` and `stop`.
* The integration outbox: nothing in the program appends to it.
* The reconcile command's session (described above): its requests change nothing
  in the supervisor, whose handling of them is modelled.
* Two targets: the program has one per process.
* The website observer's own limits, the greater part of the configuration,
  logging, the dashboard and the migrations: no state, or formatting and input
  checks only. The unique index the migrations create is part of `Schedule`.
