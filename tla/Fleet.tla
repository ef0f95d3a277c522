-------------------------------- MODULE Fleet --------------------------------
(***************************************************************************)
(* Several supervisor processes over one SQLite file: the accidental       *)
(* second process that phase 3 says it defends against.  What the module   *)
(* adds to Supervisor is what only shows with several sessions:            *)
(*                                                                         *)
(*  - every session reads through its own copies of the rows ("seen",      *)
(*    SQLAlchemy's identity map).  A copy is loaded once and then neither  *)
(*    refreshed nor questioned until the session commits or rolls back;    *)
(*  - a transition is a compare-and-swap on the revision of that copy, and *)
(*    what it does to the copy does not depend on whether it matched;      *)
(*  - one session at a time holds SQLite's write lock ("writer").  Who     *)
(*    waits longer than the busy timeout gets an OperationalError, and     *)
(*    when that hits a flush the session is unusable from then on;         *)
(*  - a claim is a lease that names the process, and reconcile() works     *)
(*    without one.                                                         *)
(*                                                                         *)
(* All processes are configured for the same target.  Left to Supervisor:  *)
(* calls that act after their reply was given up, what others do to        *)
(* Apache, and the observations' contents.                                 *)
(***************************************************************************)
EXTENDS ExperimentDomain, Naturals

CONSTANTS
    Agents,              \* supervisor processes
    Experiments,
    None,                \* nobody, nothing
    Gone,                \* the instance id of a process that has died
    CleanupMaxAttempts,  \* cleanup_max_attempts, 3 in the code
    AttemptCap,          \* attempt numbers saturate here (bound)
    MaxBoots,            \* how many times a process is started in all (bound)
    CallsFail            \* may calls to the target be refused or lose their reply?

ASSUME FleetConstants ==
    /\ {None, Gone} \cap (Agents \cup Experiments) = {}
    /\ None # Gone
    /\ CleanupMaxAttempts \in Nat \ {0}
    /\ AttemptCap \in Nat
    /\ CleanupMaxAttempts < AttemptCap
    /\ MaxBoots \in Nat
    /\ CallsFail \in BOOLEAN

VARIABLES
    saved,      \* the committed rows
    rows,       \* the rows as the holder of the write lock has left them
    writer,     \* the session that holds the write lock, or None
    seen,       \* seen[a][e]: a's copy of e's row, or Expired
    agent,      \* what each process remembers
    request,    \* request[e]: the cancellation request for e
    overdue,    \* experiments whose expires_at has passed
    outage,     \* the experiment that stopped Apache, or None
    stopCalls,  \* history: stop calls issued per experiment (2 = two or more)
    boots       \* how many processes have been started

vars == <<saved, rows, writer, seen, agent, request, overdue, outage, stopCalls,
          boots>>
storeVars == <<saved, rows, writer>>
targetVars == <<outage, stopCalls>>
othersVars == <<overdue, boots>>

-----------------------------------------------------------------------------
(* Rows, copies and processes *)

Outcomes == {"none", "cancelled_pending", "passed", "cancelled", "operator_attention"}

\* audit: the (sequence, to_state) pairs of the experiment's transition rows;
\* lapsed: has the lease's time run out?
AuditEntry == [sequence : Nat, to : ExperimentState]

Row == [ state    : ExperimentState \cup {"absent"},
         revision : Nat,
         audit    : SUBSET AuditEntry,
         owner    : Agents \cup {None, Gone},
         lapsed   : BOOLEAN,
         context  : BOOLEAN,
         outcome  : Outcomes,
         attempts : 0..AttemptCap ]

NoRow == [ state |-> "absent", revision |-> 0, audit |-> {},
           owner |-> None, lapsed |-> FALSE, context |-> FALSE,
           outcome |-> "none", attempts |-> 0 ]

\* The columns of a copy that somebody reads.  The lease is read by claim_next
\* only: any other copy leaves it out.
CopyOf == [ state : ExperimentState \cup {"absent"}, revision : Nat, context : BOOLEAN,
            outcome : Outcomes, owner : Agents \cup {None, Gone}, lapsed : BOOLEAN ]

LeasedCopy(row) == [ state |-> row.state, revision |-> row.revision,
                     context |-> row.context, outcome |-> row.outcome,
                     owner |-> row.owner, lapsed |-> row.lapsed ]

PlainCopy(row) == [LeasedCopy(row) EXCEPT !.owner = None, !.lapsed = FALSE]

Expired == None
NoCopies == [e \in Experiments |-> Expired]

Unfinished == ExperimentState \ TerminalStates

ClaimableStates == { "planned", "preflight", "active", "expired",
                     "cancellation_requested", "cleaning_up", "cleanup_failed" }

\* Where a claim or reconcile() goes on to cleanup after one transition.
CleanupEntries == {"expired", "cancellation_requested", "cleanup_failed"}

Labels == { "down", "broken", "idle", "reconcile", "interrupt", "controls", "cancel",
            "complete", "claim", "claiming", "run", "prepare", "checks", "refuse",
            "start_injecting", "inject", "save_context", "verify_active", "activate",
            "injection_failed", "expire", "observe_during", "enter_cleanup", "cleanup",
            "mark_cancelled", "restore", "record_attempt", "conclude", "verify",
            "verdict", "release" }

\* job: the experiment at hand;  claimed: was it claimed?  owned: did the row
\* read by _cleanup have a cleanup_context?  attempt: the number it read;
\* todo: what is left of the list being looped over;  ready:
\* _startup_reconciled.
Agent == [ pc : Labels, job : Experiments \cup {None}, claimed : BOOLEAN,
           cancelled : BOOLEAN, owned : BOOLEAN, ok : BOOLEAN,
           attempt : 0..AttemptCap, todo : SUBSET Experiments,
           ready : BOOLEAN ]

Booted(label) == [ pc |-> label, job |-> None, claimed |-> FALSE,
                      cancelled |-> FALSE, owned |-> FALSE, ok |-> FALSE,
                      attempt |-> 0, todo |-> {}, ready |-> FALSE ]

FleetTypeOK ==
    /\ saved \in [Experiments -> Row]
    /\ rows \in [Experiments -> Row]
    /\ writer \in Agents \cup {None}
    /\ seen \in [Agents -> [Experiments -> CopyOf \cup {Expired}]]
    /\ agent \in [Agents -> Agent]
    /\ request \in [Experiments -> {"none", "pending", "processed"}]
    /\ overdue \subseteq Experiments
    /\ outage \in Experiments \cup {None}
    /\ stopCalls \in [Experiments -> 0..2]
    /\ boots \in 0..MaxBoots

Init ==
    /\ saved = [e \in Experiments |-> NoRow]
    /\ rows = saved
    /\ writer = None
    /\ seen = [a \in Agents |-> NoCopies]
    /\ agent = [a \in Agents |-> Booted("down")]
    /\ request = [e \in Experiments |-> "none"]
    /\ overdue = {}
    /\ outage = None
    /\ stopCalls = [e \in Experiments |-> 0]
    /\ boots = 0

At(a, label) == agent[a].pc = label
Job(a) == agent[a].job
Copy(a) == seen[a][Job(a)]
Loaded(a) == Copy(a) # Expired

\* What a's session reads: its own uncommitted writes, or the last commit.
View(a) == IF writer = a THEN rows ELSE saved
CanWrite(a) == writer \in {a, None}

Goto(a, label) == agent' = [agent EXCEPT ![a].pc = label]

Update(a, e, row) == [View(a) EXCEPT ![e] = row]

\* A commit, like a rollback, expires every copy of the session.
Commit(a, newRows) ==
    /\ CanWrite(a)
    /\ saved' = newRows /\ rows' = newRows /\ writer' = None
    /\ seen' = [seen EXCEPT ![a] = NoCopies]

Rollback(a) ==
    /\ rows' = IF writer = a THEN saved ELSE rows
    /\ writer' = IF writer = a THEN None ELSE writer
    /\ seen' = [seen EXCEPT ![a] = NoCopies]
    /\ UNCHANGED saved

\* An UPDATE without a commit: the lock stays taken, and the copy follows.
Flush(a, newRows, copy) ==
    /\ CanWrite(a)
    /\ rows' = newRows /\ writer' = a
    /\ seen' = [seen EXCEPT ![a][Job(a)] = copy]
    /\ UNCHANGED saved

-----------------------------------------------------------------------------
(* repository.transition *)

CancelTarget(state) ==
    CASE state = "planned"                 -> "cancelled"
      [] state \in {"active", "preflight"} -> "cancellation_requested"
      [] OTHER                             -> state

FinalState(a) ==
    IF ~agent[a].ok THEN "operator_attention"
    ELSE IF agent[a].cancelled THEN "cancelled" ELSE "passed"

\* The state the call of transition() at each label asks for.
Goal(a) ==
    CASE At(a, "prepare")          -> "preflight"
      [] At(a, "refuse")           -> "failed"
      [] At(a, "start_injecting")  -> "injecting"
      [] At(a, "activate")         -> "active"
      [] At(a, "expire")           -> "expired"
      [] agent[a].pc \in {"interrupt", "injection_failed", "enter_cleanup"} -> "cleaning_up"
      [] At(a, "cancel")           -> CancelTarget(Copy(a).state)
      [] At(a, "verdict")          -> FinalState(a)
      [] At(a, "conclude") /\ agent[a].ok -> "verifying"
      [] At(a, "conclude") /\ ~agent[a].ok /\ agent[a].attempt >= CleanupMaxAttempts ->
            "operator_attention"
      [] OTHER                     -> "cleanup_failed"

Moved(row, revision, target) ==
    [row EXCEPT !.state = target, !.revision = revision + 1,
                !.audit = @ \cup {[sequence |-> revision + 2, to |-> target]}]

MovedCopy(a) == [Copy(a) EXCEPT !.state = Goal(a), !.revision = @ + 1]

MovedRows(a) == Update(a, Job(a), Moved(View(a)[Job(a)], Copy(a).revision, Goal(a)))

\* Mutants: the transition is not validated; the UPDATE does not ask for the
\* revision.
MovesUnvalidated(a) ==
    /\ Loaded(a)
    /\ CanWrite(a)
    /\ View(a)[Job(a)].revision = Copy(a).revision

MovesUnchecked(a) ==
    /\ Loaded(a)
    /\ ValidTransition(Copy(a).state, Goal(a))
    /\ CanWrite(a)

\* validate_transition passes on the copy and the UPDATE matches the row.
Moves(a) ==
    /\ Loaded(a)
    /\ ValidTransition(Copy(a).state, Goal(a))
    /\ CanWrite(a)
    /\ View(a)[Job(a)].revision = Copy(a).revision

\* Labels at which transition() is called next.
MoveLabels == { "interrupt", "cancel", "prepare", "refuse", "start_injecting",
                "activate", "injection_failed", "expire", "enter_cleanup",
                "conclude", "verdict" }

\* Where transition() is called at all: the except clause of _inject first
\* looks whether its copy still says "injecting", and a cancellation that
\* changes nothing is only completed.
Transits(a) ==
    /\ agent[a].pc \in MoveLabels
    /\ Loaded(a)
    /\ At(a, "injection_failed") => Copy(a).state = "injecting"
    /\ At(a, "cancel") => CancelTarget(Copy(a).state) # Copy(a).state

-----------------------------------------------------------------------------
(* How a step of the tick ends *)

\* The coordinator returns: to the loop of reconcile(), or to the release.
Returned(a) ==
    IF agent[a].claimed
    THEN [agent EXCEPT ![a].pc = "release"]
    ELSE [agent EXCEPT ![a].pc = "reconcile", ![a].job = None,
                       ![a].todo = @ \ {Job(a)}, ![a].cancelled = FALSE,
                       ![a].owned = FALSE, ![a].ok = FALSE, ![a].attempt = 0]

\* The tick is over; only _startup_reconciled survives it.
TickOver(a) ==
    [agent EXCEPT ![a] = [Booted("idle") EXCEPT !.ready = agent[a].ready]]

\* An exception: out of a claim the finally clause releases it, out of
\* anything else the tick is over.  _inject catches its own.
Raised(a) ==
    CASE At(a, "activate")  -> [agent EXCEPT ![a].pc = "injection_failed"]
      [] agent[a].claimed /\ ~At(a, "activate") /\ ~At(a, "release")
                            -> [agent EXCEPT ![a].pc = "release"]
      [] OTHER              -> TickOver(a)

\* Copies are held by local variables: they die with the tick.
CopiesAfter(a, copies) ==
    IF agent'[a].pc = "idle" THEN [seen EXCEPT ![a] = NoCopies]
                             ELSE [seen EXCEPT ![a] = copies]

\* validate_transition refuses.
MoveRefused(a) ==
    /\ Transits(a)
    /\ ~ValidTransition(Copy(a).state, Goal(a))
    /\ agent' = Raised(a)
    /\ seen' = CopiesAfter(a, seen[a])
    /\ UNCHANGED <<storeVars, request, targetVars, othersVars>>

\* Somebody else moved the row since it was read: the UPDATE matches nothing
\* and ExperimentConflict is raised.  By then the session has the write lock,
\* and its copy the values that were not written.
MoveConflicts(a) ==
    /\ Transits(a)
    /\ ValidTransition(Copy(a).state, Goal(a))
    /\ CanWrite(a)
    /\ View(a)[Job(a)].revision # Copy(a).revision
    /\ rows' = View(a) /\ writer' = a
    /\ agent' = Raised(a)
    /\ seen' = CopiesAfter(a, [seen[a] EXCEPT ![Job(a)] = MovedCopy(a)])
    /\ UNCHANGED <<saved, request, targetVars, othersVars>>

\* Labels whose next write is a flush: of a changed row, or of a new one.
FlushLabels == { "checks", "observe_during", "save_context", "mark_cancelled",
                 "record_attempt", "verdict" }

\* Somebody else holds the write lock for longer than the busy timeout.  A
\* failed flush leaves the session unusable: every later tick raises
\* PendingRollbackError, which the runtime logs and survives.
LockedOut(a) ==
    /\ ~CanWrite(a)
    /\ \/ Transits(a)
       \/ agent[a].pc \in FlushLabels \cup {"claiming", "complete", "release"}
    /\ agent' = IF agent[a].pc \in FlushLabels
                THEN [agent EXCEPT ![a] = Booted("broken")]
                ELSE Raised(a)
    /\ seen' = IF agent[a].pc \in FlushLabels THEN [seen EXCEPT ![a] = NoCopies]
               ELSE CopiesAfter(a, seen[a])
    /\ UNCHANGED <<storeVars, request, targetVars, othersVars>>

-----------------------------------------------------------------------------
(* The tick: reconcile(), the cancellation requests, one claim *)

\* session.get: a copy that is there is used as it is.
LoadLabels == { "interrupt", "cancel", "run", "start_injecting", "inject", "activate",
                "injection_failed", "cleanup", "conclude", "verdict" }

Load(a) ==
    /\ agent[a].pc \in LoadLabels
    /\ ~Loaded(a)
    /\ seen' = [seen EXCEPT ![a][Job(a)] = PlainCopy(View(a)[Job(a)])]
    /\ UNCHANGED <<storeVars, agent, request, targetVars, othersVars>>

\* list_active loads every unfinished row, and holds it through the loop.
BeginReconcile(a) ==
    /\ At(a, "idle")
    /\ ~agent[a].ready
    /\ LET active == {e \in Experiments : View(a)[e].state \in Unfinished} IN
        /\ agent' = [agent EXCEPT ![a].pc = "reconcile", ![a].todo = active]
        /\ seen' = [seen EXCEPT ![a] = [e \in Experiments |->
                                          IF e \in active THEN PlainCopy(View(a)[e]) ELSE Expired]]
    /\ UNCHANGED <<storeVars, request, targetVars, othersVars>>

\* The next row of the loop.  An interrupted injection is moved on first, a
\* row in need of cleanup is handed over as it is, any other is skipped.
ReconcileNext(a, e) ==
    /\ At(a, "reconcile")
    /\ e \in agent[a].todo
    /\ LET row == IF seen[a][e] = Expired THEN PlainCopy(View(a)[e]) ELSE seen[a][e] IN
        /\ seen' = [seen EXCEPT ![a][e] = row]
        /\ agent' =
             IF row.state = "injecting"
             THEN [agent EXCEPT ![a].pc = "interrupt", ![a].job = e]
             ELSE IF row.state \in CleanupEntries \cup {"cleaning_up"}
             THEN [agent EXCEPT ![a].pc = "run", ![a].job = e]
             ELSE [agent EXCEPT ![a].todo = @ \ {e}]
    /\ UNCHANGED <<storeVars, request, targetVars, othersVars>>

\* Mutant: the interrupted injection is taken up again.
InterruptResumes(a) ==
    /\ At(a, "interrupt")
    /\ Goto(a, "inject")
    /\ UNCHANGED <<storeVars, seen, request, targetVars, othersVars>>

Interrupt(a) ==
    /\ At(a, "interrupt")
    /\ Moves(a)
    /\ Commit(a, MovedRows(a))
    /\ Goto(a, "run")
    /\ UNCHANGED <<request, targetVars, othersVars>>

\* The loop is done, or was done in an earlier tick: read the requests.
BeginControls(a) ==
    /\ \/ At(a, "reconcile") /\ agent[a].todo = {}
       \/ At(a, "idle") /\ agent[a].ready
    /\ agent' = [agent EXCEPT ![a].pc = "controls", ![a].ready = TRUE, ![a].todo =
                  {e \in Experiments : request[e] = "pending"}]
    /\ seen' = [seen EXCEPT ![a] = NoCopies]
    /\ UNCHANGED <<storeVars, request, targetVars, othersVars>>

TakeRequest(a, e) ==
    /\ At(a, "controls")
    /\ e \in agent[a].todo
    /\ agent' = [agent EXCEPT ![a].pc = "cancel", ![a].job = e]
    /\ UNCHANGED <<storeVars, seen, request, targetVars, othersVars>>

\* A cancellation changes planned rows, and those validate_transition lets it.
ApplyCancel(a) ==
    /\ At(a, "cancel")
    /\ \/ Transits(a) /\ Moves(a) /\ Commit(a, MovedRows(a))
       \/ Loaded(a) /\ ~Transits(a) /\ UNCHANGED <<storeVars, seen>>
    /\ Goto(a, "complete")
    /\ UNCHANGED <<request, targetVars, othersVars>>

CompleteRequest(a) ==
    /\ At(a, "complete")
    /\ Commit(a, View(a))
    /\ request' = [request EXCEPT ![Job(a)] = "processed"]
    /\ agent' = [agent EXCEPT ![a].pc = "controls", ![a].job = None,
                              ![a].todo = @ \ {Job(a)}]
    /\ UNCHANGED <<targetVars, othersVars>>

ControlsDone(a) ==
    /\ At(a, "controls")
    /\ agent[a].todo = {}
    /\ Goto(a, "claim")
    /\ UNCHANGED <<storeVars, seen, request, targetVars, othersVars>>

Free(row) == row.owner = None \/ row.lapsed

Candidates(a) ==
    {e \in Experiments : View(a)[e].state \in ClaimableStates /\ Free(View(a)[e])}

SelectCandidate(a, e) ==
    /\ At(a, "claim")
    /\ e \in Candidates(a)
    /\ agent' = [agent EXCEPT ![a].pc = "claiming", ![a].job = e]
    /\ seen' = [seen EXCEPT ![a][e] = LeasedCopy(View(a)[e])]
    /\ UNCHANGED <<storeVars, request, targetVars, othersVars>>

NoCandidate(a) ==
    /\ At(a, "claim")
    /\ Candidates(a) = {}
    /\ agent' = TickOver(a)
    /\ UNCHANGED <<storeVars, seen, request, targetVars, othersVars>>

\* Mutant: the UPDATE asks for the revision only.
StillFreeUnchecked(a) == View(a)[Job(a)].revision = Copy(a).revision

\* "now" was taken before the SELECT: a lease acquired since has not run out.
StillFree(a) ==
    LET row == View(a)[Job(a)] IN
    /\ row.revision = Copy(a).revision
    /\ row.owner = None \/ (Copy(a).lapsed /\ row.owner = Copy(a).owner)

Leased(a) ==
    IF StillFree(a)
    THEN Update(a, Job(a), [View(a)[Job(a)] EXCEPT !.owner = a, !.lapsed = FALSE])
    ELSE View(a)

\* The UPDATE decides before the copy is compared with the clock.
ClaimRaises(a) == Copy(a).owner # None

\* claim_next, its commit, and the renewal, which writes the lease once more.
ClaimWon(a) ==
    /\ At(a, "claiming")
    /\ ~ClaimRaises(a)
    /\ StillFree(a)
    /\ Commit(a, Leased(a))
    /\ agent' = [agent EXCEPT ![a].pc = "run", ![a].claimed = TRUE]
    /\ UNCHANGED <<request, targetVars, othersVars>>

ClaimLost(a) ==
    /\ At(a, "claiming")
    /\ ~ClaimRaises(a)
    /\ ~StillFree(a)
    /\ CanWrite(a)
    /\ Rollback(a)
    /\ agent' = TickOver(a)
    /\ UNCHANGED <<request, targetVars, othersVars>>

\* Comparing the copy's lease with the clock raises, after the UPDATE: the
\* tick ends with the lock taken.
StaleClaimRaises(a) ==
    /\ At(a, "claiming")
    /\ ClaimRaises(a)
    /\ Flush(a, Leased(a), Expired)
    /\ agent' = TickOver(a)
    /\ UNCHANGED <<request, targetVars, othersVars>>

\* release_lease matches only the process's own lease.
Released(a) ==
    IF View(a)[Job(a)].owner = a
    THEN Update(a, Job(a), [View(a)[Job(a)] EXCEPT !.owner = None, !.lapsed = FALSE])
    ELSE View(a)

Release(a) ==
    /\ At(a, "release")
    /\ Commit(a, Released(a))
    /\ agent' = TickOver(a)
    /\ UNCHANGED <<request, targetVars, othersVars>>

-----------------------------------------------------------------------------
(* The coordinator *)

\* run_once looks at the row.
Dispatch(a) ==
    /\ At(a, "run")
    /\ Loaded(a)
    /\ LET state == Copy(a).state IN
        agent' = CASE state = "planned"      -> [agent EXCEPT ![a].pc = "prepare"]
                   [] state = "preflight"    -> [agent EXCEPT ![a].pc = "checks"]
                   [] state = "injecting"    -> [agent EXCEPT ![a].pc = "inject"]
                   [] state = "active"       ->
                        [agent EXCEPT ![a].pc = IF Job(a) \in overdue THEN "expire"
                                                                     ELSE "observe_during"]
                   [] state \in CleanupEntries -> [agent EXCEPT ![a].pc = "enter_cleanup"]
                   [] state = "cleaning_up"  -> [agent EXCEPT ![a].pc = "cleanup"]
                   [] OTHER                  -> Returned(a)
    /\ UNCHANGED <<storeVars, seen, request, targetVars, othersVars>>

\* planned -> preflight is written and not committed: the lock is held through
\* the checks.
Prepare(a) ==
    /\ At(a, "prepare")
    /\ Moves(a)
    /\ Flush(a, MovedRows(a), MovedCopy(a))
    /\ Goto(a, "checks")
    /\ UNCHANGED <<request, targetVars, othersVars>>

\* The scenario's preflight, PreflightService.run and _observe("before"), on
\* the target; nothing is read from the store in between.
Checks(a) ==
    /\ At(a, "checks")
    /\ \/ /\ outage = None
          /\ Commit(a, View(a))
          /\ Goto(a, "start_injecting")
       \/ /\ outage # None \/ CallsFail
          /\ Goto(a, "refuse")
          /\ UNCHANGED <<storeVars, seen>>
       \/ /\ CallsFail
          /\ agent' = Raised(a)
          /\ UNCHANGED <<storeVars, seen>>
    /\ UNCHANGED <<request, targetVars, othersVars>>

\* A transition followed by a commit, and where the coordinator goes on.
MoveTo(a, label, next) ==
    /\ At(a, label)
    /\ Transits(a)
    /\ Moves(a)
    /\ Commit(a, MovedRows(a))
    /\ Goto(a, next)
    /\ UNCHANGED <<request, targetVars, othersVars>>

StartInjecting(a)   == MoveTo(a, "start_injecting", "inject")
Activate(a)         == MoveTo(a, "activate", "run")
InterruptedInjection(a) == MoveTo(a, "injection_failed", "run")
Expire(a)           == MoveTo(a, "expire", "run")

MoveAndReturn(a, label) ==
    /\ At(a, label)
    /\ Moves(a)
    /\ Commit(a, MovedRows(a))
    /\ agent' = Returned(a)
    /\ UNCHANGED <<request, targetVars, othersVars>>

Refuse(a) == MoveAndReturn(a, "refuse")

\* apache-stop, whatever the row says by now: only row.experiment_id is read
\* before the call.
Inject(a) ==
    /\ At(a, "inject")
    /\ Loaded(a)
    /\ stopCalls' = [stopCalls EXCEPT ![Job(a)] = IF @ = 0 THEN 1 ELSE 2]
    /\ \/ /\ outage = None
          /\ outage' = Job(a)
          /\ \/ Goto(a, "save_context")
             \/ CallsFail /\ Goto(a, "injection_failed")
       \/ /\ outage # None \/ CallsFail
          /\ Goto(a, "injection_failed")
          /\ UNCHANGED outage
    /\ UNCHANGED <<storeVars, seen, request, othersVars>>

\* The evidence is an attribute of the copy: its UPDATE goes by the primary
\* key, whatever the revision.
SaveContext(a) ==
    /\ At(a, "save_context")
    /\ Commit(a, Update(a, Job(a), [View(a)[Job(a)] EXCEPT !.context = TRUE]))
    /\ Goto(a, "verify_active")
    /\ UNCHANGED <<request, targetVars, othersVars>>

VerifyActive(a) ==
    /\ At(a, "verify_active")
    /\ \/ outage # None /\ Goto(a, "activate")
       \/ (outage = None \/ CallsFail) /\ Goto(a, "injection_failed")
    /\ UNCHANGED <<storeVars, seen, request, targetVars, othersVars>>

\* The copy no longer says "injecting": nothing is written.
InjectionOvertaken(a) ==
    /\ At(a, "injection_failed")
    /\ Loaded(a)
    /\ Copy(a).state # "injecting"
    /\ Goto(a, "run")
    /\ UNCHANGED <<storeVars, seen, request, targetVars, othersVars>>

ObserveDuring(a) ==
    /\ At(a, "observe_during")
    /\ Commit(a, View(a))
    /\ agent' = Returned(a)
    /\ UNCHANGED <<request, targetVars, othersVars>>

EnterCleanup(a) ==
    /\ At(a, "enter_cleanup")
    /\ Moves(a)
    /\ Commit(a, MovedRows(a))
    /\ agent' = [agent EXCEPT ![a].pc = "cleanup",
                              ![a].cancelled = Copy(a).state = "cancellation_requested"]
    /\ UNCHANGED <<request, targetVars, othersVars>>

\* The row read at the head of _cleanup decides what it knows.
BeginCleanup(a) ==
    /\ At(a, "cleanup")
    /\ Loaded(a)
    /\ LET marked == agent[a].cancelled \/ Copy(a).outcome = "cancelled_pending" IN
        agent' = [agent EXCEPT ![a].pc = IF marked THEN "mark_cancelled" ELSE "restore",
                               ![a].cancelled = marked,
                               ![a].owned = Copy(a).context]
    /\ UNCHANGED <<storeVars, seen, request, targetVars, othersVars>>

\* Mutant: the state is written where the outcome belongs.
MarkCancelledByState(a) ==
    /\ At(a, "mark_cancelled")
    /\ Commit(a, Update(a, Job(a),
                        [View(a)[Job(a)] EXCEPT !.outcome = "cancellation_requested"]))
    /\ Goto(a, "restore")
    /\ UNCHANGED <<request, targetVars, othersVars>>

MarkCancelled(a) ==
    /\ At(a, "mark_cancelled")
    /\ Commit(a, Update(a, Job(a), [View(a)[Job(a)] EXCEPT !.outcome = "cancelled_pending"]))
    /\ Goto(a, "restore")
    /\ UNCHANGED <<request, targetVars, othersVars>>

NextAttempt(a) ==
    LET last == View(a)[Job(a)].attempts IN IF last < AttemptCap THEN last + 1 ELSE last

Restored(a, success) ==
    agent' = [agent EXCEPT ![a].pc = "record_attempt", ![a].ok = success,
                           ![a].attempt = NextAttempt(a)]

\* Mutant: nothing to undo counts as undone.
RestoreUnproven(a) ==
    /\ At(a, "restore")
    /\ \/ /\ ~agent[a].owned
          /\ Restored(a, TRUE)
          /\ UNCHANGED outage
       \/ /\ agent[a].owned
          /\ \/ /\ outage' = None
                /\ \E success \in BOOLEAN : (success \/ CallsFail) /\ Restored(a, success)
             \/ CallsFail /\ Restored(a, FALSE) /\ UNCHANGED outage
    /\ UNCHANGED <<storeVars, seen, request, stopCalls, othersVars>>

\* The attempt's number is read, then apache-start is sent; without a
\* cleanup_context ownership is unproven and nothing is.
Restore(a) ==
    /\ At(a, "restore")
    /\ \/ /\ ~agent[a].owned
          /\ Restored(a, FALSE)
          /\ UNCHANGED outage
       \/ /\ agent[a].owned
          /\ \/ /\ outage' = None
                /\ \E success \in BOOLEAN : (success \/ CallsFail) /\ Restored(a, success)
             \/ CallsFail /\ Restored(a, FALSE) /\ UNCHANGED outage
    /\ UNCHANGED <<storeVars, seen, request, stopCalls, othersVars>>

\* record_attempt: a number somebody else has recorded meanwhile is a
\* duplicate, which is rolled back and not reported.
RecordAttempt(a) ==
    /\ At(a, "record_attempt")
    /\ CanWrite(a)
    /\ IF View(a)[Job(a)].attempts >= agent[a].attempt
       THEN Rollback(a)
       ELSE Commit(a, Update(a, Job(a),
                            [View(a)[Job(a)] EXCEPT !.attempts = agent[a].attempt]))
    /\ Goto(a, "conclude")
    /\ UNCHANGED <<request, targetVars, othersVars>>

\* cleaning_up -> verifying is written and not committed.
CleanupSucceeded(a) ==
    /\ At(a, "conclude")
    /\ agent[a].ok
    /\ Moves(a)
    /\ Flush(a, MovedRows(a), MovedCopy(a))
    /\ Goto(a, "verify")
    /\ UNCHANGED <<request, targetVars, othersVars>>

CleanupFailed(a) == ~agent[a].ok /\ MoveAndReturn(a, "conclude")

\* verify_cleanup and _observe("after"), which commits.
Verify(a) ==
    /\ At(a, "verify")
    /\ Commit(a, View(a))
    /\ \E success \in BOOLEAN :
        /\ success => outage = None
        /\ ~success => outage # None \/ CallsFail
        /\ agent' = [agent EXCEPT ![a].pc = "verdict", ![a].ok = success]
    /\ UNCHANGED <<request, targetVars, othersVars>>

Verdict(a) ==
    /\ At(a, "verdict")
    /\ Moves(a)
    /\ Commit(a, Update(a, Job(a), [MovedRows(a)[Job(a)] EXCEPT !.outcome = Goal(a)]))
    /\ agent' = Returned(a)
    /\ UNCHANGED <<request, targetVars, othersVars>>

-----------------------------------------------------------------------------
(* Processes, commands and time *)

Boot(a) ==
    /\ At(a, "down")
    /\ boots < MaxBoots
    /\ boots' = boots + 1
    /\ agent' = [agent EXCEPT ![a] = Booted("idle")]
    /\ UNCHANGED <<storeVars, seen, request, targetVars, overdue>>

\* The next process of a host has an instance id of its own.
Orphaned(a, store) ==
    [e \in Experiments |-> IF store[e].owner = a THEN [store[e] EXCEPT !.owner = Gone]
                                                 ELSE store[e]]

Die(a) ==
    /\ ~At(a, "down")
    /\ saved' = Orphaned(a, saved)
    /\ rows' = Orphaned(a, IF writer = a THEN saved ELSE rows)
    /\ writer' = IF writer = a THEN None ELSE writer
    /\ seen' = [seen EXCEPT ![a] = NoCopies]
    /\ agent' = [agent EXCEPT ![a] = Booted("down")]
    /\ UNCHANGED <<request, targetVars, othersVars>>

\* The schedule command; one unfinished experiment per target.
Schedule(e) ==
    /\ writer = None
    /\ saved[e].state = "absent"
    /\ \A f \in Experiments : saved[f].state \notin Unfinished
    /\ saved' = [saved EXCEPT ![e] = [NoRow EXCEPT
            !.state = "planned", !.audit = {[sequence |-> 1, to |-> "planned"]}]]
    /\ rows' = saved'
    /\ UNCHANGED <<writer, seen, agent, request, targetVars, othersVars>>

\* abort: one idempotency key per experiment and initiator.
RequestCancel(e) ==
    /\ writer = None
    /\ saved[e].state \in Unfinished
    /\ request[e] = "none"
    /\ request' = [request EXCEPT ![e] = "pending"]
    /\ UNCHANGED <<storeVars, seen, agent, targetVars, othersVars>>

\* Nobody compares the deadline of a row that is past "active".
Elapse(e) ==
    /\ e \notin overdue
    /\ saved[e].state \in {"planned", "preflight", "injecting", "active"}
    /\ overdue' = overdue \cup {e}
    /\ UNCHANGED <<storeVars, seen, agent, request, targetVars, boots>>

\* A lease runs out after lease_duration_seconds, whether or not its process
\* is still at work under it.
Lapse(e) ==
    /\ saved[e].owner # None
    /\ ~saved[e].lapsed
    /\ saved' = [saved EXCEPT ![e].lapsed = TRUE]
    /\ rows' = [rows EXCEPT ![e].lapsed = TRUE]
    /\ UNCHANGED <<writer, seen, agent, request, targetVars, othersVars>>

-----------------------------------------------------------------------------
(* Specification *)

TickStep(a) ==
    \/ BeginReconcile(a) \/ Interrupt(a) \/ BeginControls(a) \/ ApplyCancel(a)
    \/ CompleteRequest(a) \/ ControlsDone(a) \/ NoCandidate(a) \/ ClaimWon(a)
    \/ ClaimLost(a) \/ StaleClaimRaises(a) \/ Release(a)
    \/ \E e \in Experiments : ReconcileNext(a, e) \/ TakeRequest(a, e) \/ SelectCandidate(a, e)

CoordinatorStep(a) ==
    \/ Dispatch(a) \/ Prepare(a) \/ Checks(a) \/ Refuse(a) \/ StartInjecting(a)
    \/ Inject(a) \/ SaveContext(a) \/ VerifyActive(a) \/ Activate(a)
    \/ InterruptedInjection(a) \/ InjectionOvertaken(a) \/ Expire(a) \/ ObserveDuring(a)
    \/ EnterCleanup(a) \/ BeginCleanup(a) \/ MarkCancelled(a) \/ Restore(a)
    \/ RecordAttempt(a) \/ CleanupSucceeded(a) \/ CleanupFailed(a) \/ Verify(a) \/ Verdict(a)

AgentStep(a) ==
    \/ Load(a) \/ TickStep(a) \/ CoordinatorStep(a)
    \/ MoveRefused(a) \/ MoveConflicts(a) \/ LockedOut(a)
    \/ Die(a) \/ Boot(a)

OthersStep(e) ==
    \/ Schedule(e) \/ RequestCancel(e) \/ Elapse(e) \/ Lapse(e)

Next == (\E a \in Agents : AgentStep(a)) \/ (\E e \in Experiments : OthersStep(e))

Spec == Init /\ [][Next]_vars

=============================================================================
