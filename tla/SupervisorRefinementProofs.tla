--------------------- MODULE SupervisorRefinementProofs ---------------------
(***************************************************************************)
(* Theorems about steps: what is on record stays on record, the supervisor *)
(* implements the abstract life cycle, a cancellation is forgotten in one  *)
(* place only, and a tick is bounded.  The first two follow from one       *)
(* classification of the agent's steps: a step writes nothing, or sends a  *)
(* stop, or schedules, or commits a legal continuation of one row.  The    *)
(* others have a section and an invariant of their own each.               *)
(***************************************************************************)
EXTENDS SupervisorProofs

\* "new" keeps the history of "old".
Grows(old, new) ==
    /\ old.audit \subseteq new.audit
    /\ old.attempts <= new.attempts
    /\ old.context => new.context

OnlyLease(old, new) == new = [old EXCEPT !.lease = new.lease]

\* The committed state moves along an edge, or planned and preflight are left
\* in one commit, and the fault justifies the new state.
LegalMove(e, old, new) ==
    \/ new.state = old.state
    \/ /\ new.state \in ExperimentState
       /\ old.state \in ExperimentState
       /\ ValidTransition(old.state, new.state)
       /\ new.state \in {"active", "passed"} => stopCalls[e] > 0
       /\ new.state = "failed" => stopCalls[e] = 0
    \/ old.state = "planned" /\ new.state = "failed" /\ stopCalls[e] = 0

Continues(e, old, new) ==
    /\ Grows(old, new)
    /\ old.state \in TerminalStates => OnlyLease(old, new)
    /\ LegalMove(e, old, new)

Record(e) ==
    /\ UNCHANGED targetVars
    /\ \A f \in Experiments \ {e} : OnlyLease(saved[f], saved'[f])
    /\ Continues(e, saved[e], saved'[e])

-----------------------------------------------------------------------------
(* Rows *)

LEMMA OnlyLeaseFields ==
    ASSUME NEW old \in Row, NEW new \in Row, OnlyLease(old, new)
    PROVE  /\ new.state = old.state /\ new.audit = old.audit
           /\ new.context = old.context /\ new.attempts = old.attempts
BY DEF OnlyLease, Row

\* A row that agrees with its committed version differs in its lease alone.
LEMMA AgreesIsOnlyLease ==
    ASSUME TypeOK, NEW e \in Experiments, Agrees(e)
    PROVE  OnlyLease(saved[e], rows[e])
BY DEF Agrees, OnlyLease

LEMMA CommitRecords ==
    ASSUME IInv, NEW e \in Experiments, NEW row \in Row, Commit(Write(e, row)),
           \A f \in Experiments \ {e} : Agrees(f), UNCHANGED targetVars,
           Continues(e, saved[e], row)
    PROVE  Record(e)
<1>1. \A f \in Experiments : saved'[f] = IF f = e THEN row ELSE rows[f]
  BY DEF Commit, Write, IInv, TypeOK
<1>2. \A f \in Experiments \ {e} : OnlyLease(saved[f], rows[f])
  BY AgreesIsOnlyLease DEF IInv
<1> QED
  BY <1>1, <1>2 DEF Record

\* A transition of a row that was in step with the database.
LEMMA CommitMoveRecords ==
    ASSUME IInv, NEW e \in Experiments, NEW s \in ExperimentState,
           Commit(Write(e, Moved(rows[e], s))), UNCHANGED targetVars,
           \A f \in Experiments : Agrees(f),
           rows[e].state \in ExperimentState \ TerminalStates,
           ValidTransition(rows[e].state, s),
           s \in {"active", "passed"} => stopCalls[e] > 0,
           s = "failed" => stopCalls[e] = 0
    PROVE  Record(e)
<1>1. rows[e] \in Row /\ saved[e] \in Row
  BY DEF IInv, TypeOK
<1>2. /\ rows[e].state = saved[e].state /\ rows[e].audit = saved[e].audit
      /\ rows[e].context = saved[e].context /\ rows[e].attempts = saved[e].attempts
  BY AgreeFields DEF IInv
<1> DEFINE row == Moved(rows[e], s)
<1>3. /\ row \in Row /\ row.state = s /\ row.audit = rows[e].audit \cup {s}
      /\ row.context = rows[e].context /\ row.attempts = rows[e].attempts
  BY <1>1, MovedRow
<1>4. rows[e].attempts \in Nat
  BY <1>1, SupervisorConstants DEF Row
<1> HIDE DEF row
<1>5. Grows(saved[e], row)
  BY <1>2, <1>3, <1>4 DEF Grows
<1>6. Continues(e, saved[e], row)
  BY <1>2, <1>3, <1>5 DEF Continues, LegalMove
<1> QED
  BY <1>3, <1>6, CommitRecords DEF row

\* A write to other fields of an unfinished row that was in step.
LEMMA CommitFieldRecords ==
    ASSUME IInv, NEW e \in Experiments, NEW row \in Row,
           Commit(Write(e, row)), UNCHANGED targetVars,
           \A f \in Experiments : Agrees(f),
           \/ rows[e].state \notin TerminalStates
           \/ OnlyLease(rows[e], row),
           row.state = rows[e].state, row.audit = rows[e].audit,
           rows[e].context => row.context, rows[e].attempts <= row.attempts
    PROVE  Record(e)
<1>1. rows[e] \in Row /\ saved[e] \in Row
  BY DEF IInv, TypeOK
<1>2. /\ rows[e].state = saved[e].state /\ rows[e].audit = saved[e].audit
      /\ rows[e].context = saved[e].context /\ rows[e].attempts = saved[e].attempts
  BY AgreeFields DEF IInv
<1>3. Grows(saved[e], row)
  BY <1>2 DEF Grows
<1>4. OnlyLease(rows[e], row) => OnlyLease(saved[e], row)
  <2>1. OnlyLease(saved[e], rows[e])
    BY AgreesIsOnlyLease DEF IInv
  <2> QED
    BY <1>1, <2>1 DEF OnlyLease, Row
<1>5. Continues(e, saved[e], row)
  BY <1>2, <1>3, <1>4 DEF Continues, LegalMove
<1> QED
  BY <1>5, CommitRecords

\* A step that commits nothing new.
LEMMA NothingRecorded ==
    ASSUME IInv, NEW e \in Experiments, UNCHANGED targetVars, Commit(rows),
           \A f \in Experiments : Agrees(f)
    PROVE  Record(e)
<1>1. \A f \in Experiments : saved'[f] = rows[f]
  BY DEF Commit
<1>2. \A f \in Experiments : OnlyLease(saved[f], rows[f])
  BY AgreesIsOnlyLease DEF IInv
<1>3. /\ rows[e].state = saved[e].state /\ rows[e].audit = saved[e].audit
      /\ rows[e].context = saved[e].context /\ rows[e].attempts = saved[e].attempts
  BY AgreeFields DEF IInv
<1>4. rows[e].attempts \in Nat
  BY SupervisorConstants DEF IInv, TypeOK, Row
<1>5. Grows(saved[e], rows[e])
  BY <1>3, <1>4 DEF Grows
<1>6. Continues(e, saved[e], rows[e])
  BY <1>2, <1>3, <1>5 DEF Continues, LegalMove
<1> QED
  BY <1>1, <1>2, <1>6 DEF Record

\* A commit on top of one of the two transitions left uncommitted.
LEMMA CommitAheadRecords ==
    ASSUME IInv, NEW e \in Experiments, NEW row \in Row,
           Commit(Write(e, row)), UNCHANGED targetVars,
           \A f \in Experiments \ {e} : Agrees(f),
           NEW from \in ExperimentState \ TerminalStates, NEW to, Ahead(e, from, to),
           rows[e].audit \subseteq row.audit, row.context = rows[e].context,
           row.attempts = rows[e].attempts,
           LegalMove(e, saved[e], row)
    PROVE  Record(e)
<1>1. rows[e].attempts \in Nat
  BY SupervisorConstants DEF IInv, TypeOK, Row
<1>2. Grows(saved[e], row)
  BY <1>1 DEF Grows, Ahead
<1>3. Continues(e, saved[e], row)
  BY <1>2 DEF Continues, Ahead
<1> QED
  BY <1>3, CommitRecords

\* The edges of the transition policy that the agent's commits use.
LEMMA Edges ==
    /\ \A s \in {"preflight", "cancelled"} : ValidTransition("planned", s)
    /\ \A s \in {"injecting", "failed"} : ValidTransition("preflight", s)
    /\ \A s \in {"active", "cleaning_up"} : ValidTransition("injecting", s)
    /\ \A s \in {"expired", "cancellation_requested"} : ValidTransition("active", s)
    /\ \A s \in {"verifying", "cleanup_failed"} : ValidTransition("cleaning_up", s)
    /\ \A s \in CleanupStates \ {"cleaning_up"} : ValidTransition(s, "cleaning_up")
    /\ \A s \in {"passed", "cancelled", "operator_attention"} : ValidTransition("verifying", s)
BY DEF ValidTransition, AllowedTransitions, ExperimentState, CleanupStates

-----------------------------------------------------------------------------
(* Every step *)

\* Steps that leave the committed rows and the count of stops alone.
LEMMA SilentSteps ==
    ASSUME IInv, NEW e \in Experiments,
           \/ Prepare(e) \/ VerifyActive(e) \/ Restore(e) \/ CleanupExhausted(e)
           \/ CleanupSucceeded(e) \/ VerifyCleanup(e)
    PROVE  UNCHANGED <<saved, stopCalls>>
<1>1. CASE Prepare(e) \/ VerifyActive(e) \/ CleanupSucceeded(e) \/ VerifyCleanup(e)
  BY <1>1 DEF Prepare, VerifyActive, CleanupSucceeded, VerifyCleanup, StatusCall, Flush,
     storeVars, targetVars
<1>2. CASE Restore(e)
  BY <1>2 DEF Restore, StartCall, storeVars, targetVars
<1>3. CASE CleanupExhausted(e)
  <2>1. rows[e].state = "cleaning_up"
    BY <1>3 DEF CleanupExhausted, At, IInv, ControlInv, JobInv
  <2> QED
    BY <1>3, <2>1, NoEscalation DEF CleanupExhausted, storeVars, targetVars
<1> QED
  BY <1>1, <1>2, <1>3

\* Where the session is ahead of the database at e, and what else is known.
LEMMA PreflightAhead ==
    ASSUME IInv, NEW e \in Experiments, current = e, rows[e].state = "preflight"
    PROVE  /\ \A f \in Experiments \ {e} : Agrees(f)
           /\ Agrees(e) \/ Ahead(e, "planned", "preflight")
           /\ stopCalls[e] = 0
           /\ rows[e] \in Row
BY OthersAgree
DEF IInv, SessionInv, Uncommitted, Ahead, StoreInv, RowInv, UntouchedStates, TypeOK

LEMMA RefusalRecords ==
    ASSUME IInv, NEW e \in Experiments, current = e, rows[e].state = "preflight",
           UNCHANGED targetVars, RefusePreflight(e)
    PROVE  Record(e)
<1> DEFINE row == Moved(rows[e], "failed")
<1>1. "failed" \in ExperimentState /\ "planned" \in ExperimentState \ TerminalStates
  BY DEF ExperimentState, TerminalStates
<1>2. Commit(Write(e, row))
  BY DEF RefusePreflight
<1>3. CASE Agrees(e)
  BY <1>1, <1>2, <1>3, PreflightAhead, CommitMoveRecords, Edges
  DEF ExperimentState, TerminalStates
<1>4. CASE Ahead(e, "planned", "preflight")
  <2>1. /\ row \in Row /\ row.state = "failed" /\ rows[e].audit \subseteq row.audit
        /\ row.context = rows[e].context /\ row.attempts = rows[e].attempts
    BY <1>1, PreflightAhead, MovedRow
  <2> HIDE DEF row
  <2>2. LegalMove(e, saved[e], row)
    BY <1>4, <2>1, PreflightAhead DEF LegalMove, Ahead
  <2> QED
    BY <1>1, <1>2, <1>4, <2>1, <2>2, PreflightAhead, CommitAheadRecords
<1> QED
  BY <1>3, <1>4, PreflightAhead

LEMMA PreflightRecords ==
    ASSUME IInv, NEW e \in Experiments, ScenarioPreflight(e) \/ TargetPreflight(e)
    PROVE  UNCHANGED <<saved, stopCalls>> \/ Record(e)
<1>1. current = e /\ rows[e].state = "preflight" /\ UNCHANGED targetVars
  BY DEF ScenarioPreflight, TargetPreflight, At, StatusCall, IInv, ControlInv, JobInv
<1>2. UNCHANGED storeVars \/ RefusePreflight(e)
  BY DEF ScenarioPreflight, TargetPreflight, StatusReplies
<1> QED
  BY <1>1, <1>2, RefusalRecords DEF storeVars, targetVars

LEMMA ObserveBeforeRecords ==
    ASSUME IInv, NEW e \in Experiments, ObserveBefore(e)
    PROVE  Record(e)
<1>1. /\ pc = "observe_before" /\ current = e /\ UNCHANGED targetVars
      /\ rows[e].state = "preflight"
  BY DEF ObserveBefore, At, SiteCall, IInv, ControlInv, JobInv
<1>2. PICK seen \in Observations : Commit(Write(e, [rows[e] EXCEPT !.before = seen]))
  BY DEF ObserveBefore, Observed, Observations
<1> DEFINE row == [rows[e] EXCEPT !.before = seen]
<1>3. /\ row \in Row /\ row.state = rows[e].state /\ row.audit = rows[e].audit
      /\ row.context = rows[e].context /\ row.attempts = rows[e].attempts
  BY <1>1, PreflightAhead DEF Row
<1>4. rows[e].attempts \in Nat
  BY SupervisorConstants DEF IInv, TypeOK, Row
<1>5. Commit(Write(e, row))
  BY <1>2
<1> HIDE DEF row
<1>6. CASE Agrees(e)
  BY <1>1, <1>3, <1>4, <1>5, <1>6, PreflightAhead, CommitFieldRecords DEF TerminalStates
<1>7. CASE Ahead(e, "planned", "preflight")
  <2>1. LegalMove(e, saved[e], row)
    BY <1>1, <1>3, <1>7, Edges DEF LegalMove, Ahead, ExperimentState
  <2>2. "planned" \in ExperimentState \ TerminalStates
    BY DEF ExperimentState, TerminalStates
  <2> QED
    BY <1>1, <1>3, <1>5, <1>7, <2>1, <2>2, PreflightAhead, CommitAheadRecords
<1> QED
  BY <1>1, <1>6, <1>7, PreflightAhead

\* The commits of one transition of a row that is in step with the database.
LEMMA MoveRecords ==
    ASSUME IInv, NEW e \in Experiments,
           \/ StartInjecting(e) \/ Activate(e) \/ InjectionFailed(e) \/ ExpireActive(e)
           \/ CleanupFailed(e)
    PROVE  Record(e)
<1>1. /\ pc \in {"start_injecting", "activate", "injection_failed", "run", "conclude"}
      /\ current = e /\ UNCHANGED targetVars
  BY DEF StartInjecting, Activate, InjectionFailed, ExpireActive, CleanupFailed, At
<1>2. \A f \in Experiments : Agrees(f)
  BY <1>1, OthersAgree
<1>3. JobInv(e) /\ RowInv(e, rows[e])
  BY <1>1 DEF IInv, ControlInv, StoreInv
<1>4. CASE StartInjecting(e)
  <2>1. rows[e].state = "preflight"
    BY <1>3, <1>4 DEF StartInjecting, At, JobInv
  <2> QED
    BY <1>1, <1>2, <1>4, <2>1, CommitMoveRecords, Edges
    DEF StartInjecting, ExperimentState, TerminalStates
<1>5. CASE Activate(e)
  <2>1. rows[e].state = "injecting" /\ stopCalls[e] > 0
    BY <1>3, <1>5 DEF Activate, At, JobInv, RowInv
  <2> QED
    BY <1>1, <1>2, <1>5, <2>1, CommitMoveRecords, Edges
    DEF Activate, ExperimentState, TerminalStates
<1>6. CASE InjectionFailed(e)
  <2>1. rows[e].state = "injecting"
    BY <1>3, <1>6 DEF InjectionFailed, At, JobInv
  <2> QED
    BY <1>1, <1>2, <1>6, <2>1, CommitMoveRecords, Edges
    DEF InjectionFailed, ExperimentState, TerminalStates
<1>7. CASE ExpireActive(e)
  BY <1>1, <1>2, <1>7, CommitMoveRecords, Edges
  DEF ExpireActive, ExperimentState, TerminalStates
<1>8. CASE CleanupFailed(e)
  <2>1. rows[e].state = "cleaning_up"
    BY <1>3, <1>8 DEF CleanupFailed, At, JobInv
  <2> QED
    BY <1>1, <1>2, <1>8, <2>1, CommitMoveRecords, Edges
    DEF CleanupFailed, ExperimentState, TerminalStates
<1> QED
  BY <1>4, <1>5, <1>6, <1>7, <1>8

LEMMA EnterCleanupRecords ==
    ASSUME IInv, NEW e \in Experiments, EnterCleanup(e)
    PROVE  UNCHANGED <<saved, stopCalls>> \/ Record(e)
<1>1. /\ pc = "run" /\ UNCHANGED targetVars
      /\ rows[e].state \in CleanupStates
  BY DEF EnterCleanup, At
<1>2. CASE rows[e].state = "cleaning_up"
  BY <1>1, <1>2 DEF EnterCleanup, storeVars, targetVars
<1>3. CASE rows[e].state # "cleaning_up"
  <2>1. Commit(Write(e, Moved(rows[e], "cleaning_up")))
    BY <1>3 DEF EnterCleanup
  <2> QED
    BY <1>1, <1>3, <2>1, OthersAgree, CommitMoveRecords, Edges
    DEF CleanupStates, ExperimentState, TerminalStates
<1> QED
  BY <1>2, <1>3

LEMMA SaveContextRecords ==
    ASSUME IInv, NEW e \in Experiments, SaveContext(e)
    PROVE  Record(e)
<1> DEFINE row == [rows[e] EXCEPT !.context = TRUE]
<1>1. /\ pc = "save_context" /\ UNCHANGED targetVars /\ Commit(Write(e, row))
      /\ rows[e].state = "injecting" /\ rows[e] \in Row
  BY DEF SaveContext, At, IInv, ControlInv, JobInv, TypeOK
<1>2. /\ row \in Row /\ row.state = rows[e].state /\ row.audit = rows[e].audit
      /\ row.context /\ row.attempts = rows[e].attempts
  BY <1>1 DEF Row
<1>3. rows[e].attempts \in Nat
  BY <1>1, SupervisorConstants DEF Row
<1> HIDE DEF row
<1> QED
  BY <1>1, <1>2, <1>3, OthersAgree, CommitFieldRecords DEF TerminalStates

LEMMA MarkCancelledRecords ==
    ASSUME IInv, NEW e \in Experiments, MarkCancelled(e)
    PROVE  Record(e)
<1> DEFINE row == [rows[e] EXCEPT !.outcome = "cancelled_pending"]
<1>1. /\ pc = "mark_cancelled" /\ UNCHANGED targetVars /\ Commit(Write(e, row))
      /\ rows[e].state = "cleaning_up" /\ rows[e] \in Row
  BY DEF MarkCancelled, At, IInv, ControlInv, JobInv, TypeOK
<1>2. /\ row \in Row /\ row.state = rows[e].state /\ row.audit = rows[e].audit
      /\ row.context = rows[e].context /\ row.attempts = rows[e].attempts
  BY <1>1 DEF Row, Outcomes
<1>3. rows[e].attempts \in Nat
  BY <1>1, SupervisorConstants DEF Row
<1> HIDE DEF row
<1> QED
  BY <1>1, <1>2, <1>3, OthersAgree, CommitFieldRecords DEF TerminalStates

LEMMA RecordAttemptRecords ==
    ASSUME IInv, NEW e \in Experiments, RecordAttempt(e)
    PROVE  Record(e)
<1> DEFINE number == IF rows[e].attempts < AttemptCap THEN rows[e].attempts + 1
                                                      ELSE rows[e].attempts
           row == [rows[e] EXCEPT !.attempts = number]
<1>1. /\ pc = "record_attempt" /\ UNCHANGED targetVars /\ Commit(Write(e, row))
      /\ rows[e].state = "cleaning_up" /\ rows[e] \in Row
  BY DEF RecordAttempt, At, IInv, ControlInv, JobInv, TypeOK
<1>2. rows[e].attempts <= number /\ number \in 0..AttemptCap
  BY <1>1, SupervisorConstants DEF Row
<1>3. /\ row \in Row /\ row.state = rows[e].state /\ row.audit = rows[e].audit
      /\ row.context = rows[e].context /\ row.attempts = number
  <2> HIDE DEF number
  <2> QED
    BY <1>1, <1>2 DEF Row
<1> HIDE DEF row, number
<1> QED
  BY <1>1, <1>2, <1>3, OthersAgree, CommitFieldRecords DEF TerminalStates

LEMMA ObserveAfterRecords ==
    ASSUME IInv, NEW e \in Experiments, ObserveAfter(e)
    PROVE  Record(e)
<1>1. /\ pc = "observe_after" /\ current = e /\ UNCHANGED targetVars
      /\ rows[e].state = "verifying" /\ rows[e] \in Row
  BY DEF ObserveAfter, At, SiteCall, IInv, ControlInv, JobInv, TypeOK
<1>2. PICK seen \in Observations : Commit(Write(e, [rows[e] EXCEPT !.after = seen]))
  BY DEF ObserveAfter, Observed, Observations
<1> DEFINE row == [rows[e] EXCEPT !.after = seen]
<1>3. /\ row \in Row /\ row.state = rows[e].state /\ row.audit = rows[e].audit
      /\ row.context = rows[e].context /\ row.attempts = rows[e].attempts
  BY <1>1 DEF Row
<1>4. rows[e].attempts \in Nat
  BY <1>1, SupervisorConstants DEF Row
<1>5. Commit(Write(e, row))
  BY <1>2
<1> HIDE DEF row
<1>6. CASE Agrees(e)
  <2>1. \A f \in Experiments : Agrees(f)
    BY <1>1, <1>6, OthersAgree
  <2> QED
    BY <1>1, <1>3, <1>4, <1>5, <2>1, CommitFieldRecords DEF TerminalStates
<1>7. CASE Ahead(e, "cleaning_up", "verifying")
  <2>1. LegalMove(e, saved[e], row)
    BY <1>1, <1>3, <1>7, Edges DEF LegalMove, Ahead, ExperimentState
  <2>2. "cleaning_up" \in ExperimentState \ TerminalStates
    BY DEF ExperimentState, TerminalStates
  <2> QED
    BY <1>1, <1>3, <1>5, <1>7, <2>1, <2>2, OthersAgree, CommitAheadRecords
<1> QED
  BY <1>1, <1>6, <1>7 DEF IInv, SessionInv, Uncommitted

LEMMA VerdictRecords ==
    ASSUME IInv, NEW e \in Experiments, Verdict(e)
    PROVE  Record(e)
<1> DEFINE moved == Moved(rows[e], FinalState)
           row == [moved EXCEPT !.outcome = FinalState]
<1>1. /\ pc = "verdict" /\ current = e /\ UNCHANGED targetVars
      /\ Commit(Write(e, row))
      /\ rows[e].state = "verifying" /\ rows[e] \in Row
  BY DEF Verdict, At, IInv, ControlInv, JobInv, TypeOK
<1>2. \A f \in Experiments : Agrees(f)
  BY <1>1, OthersAgree
<1>3. /\ saved[e].state = "verifying" /\ saved[e].audit = rows[e].audit
      /\ saved[e].context = rows[e].context /\ saved[e].attempts = rows[e].attempts
  BY <1>1, <1>2, AgreeFields DEF IInv
<1>4. /\ FinalState \in ExperimentState \cap Outcomes
      /\ FinalState \in {"operator_attention", "cancelled", "passed"}
  BY DEF FinalState, ExperimentState, Outcomes
<1>5. /\ moved \in Row /\ moved.state = FinalState
      /\ moved.audit = rows[e].audit \cup {FinalState}
      /\ moved.context = rows[e].context /\ moved.attempts = rows[e].attempts
  BY <1>1, <1>4, MovedRow
<1>6. /\ row \in Row /\ row.state = FinalState
      /\ row.audit = rows[e].audit \cup {FinalState}
      /\ row.context = rows[e].context /\ row.attempts = rows[e].attempts
  <2> HIDE DEF moved
  <2> QED
    BY <1>4, <1>5 DEF Row
<1>7. stopCalls[e] > 0
  BY <1>1 DEF IInv, StoreInv, RowInv, OwnedStates
<1>8. rows[e].attempts \in Nat
  BY <1>1, SupervisorConstants DEF Row
<1> HIDE DEF row, moved
<1>9. Grows(saved[e], row)
  BY <1>3, <1>6, <1>8 DEF Grows
<1>10. LegalMove(e, saved[e], row)
  BY <1>3, <1>4, <1>6, <1>7, Edges DEF LegalMove, ExperimentState
<1>11. Continues(e, saved[e], row)
  BY <1>3, <1>9, <1>10 DEF Continues, TerminalStates
<1> QED
  BY <1>1, <1>2, <1>6, <1>11, CommitRecords

LEMMA ReleaseRecords ==
    ASSUME IInv, NEW e \in Experiments, Release(e)
    PROVE  Record(e)
<1> DEFINE row == [rows[e] EXCEPT !.lease = "none"]
<1>1. /\ pc = "release" /\ current = e /\ UNCHANGED targetVars /\ Commit(Write(e, row))
      /\ rows[e] \in Row
  BY DEF Release, At, IInv, TypeOK
<1>2. /\ row \in Row /\ row.state = rows[e].state /\ row.audit = rows[e].audit
      /\ row.context = rows[e].context /\ row.attempts = rows[e].attempts
  BY <1>1, LeaseField DEF Leases
<1>3. OnlyLease(rows[e], row)
  BY <1>1 DEF OnlyLease, Row
<1>4. rows[e].attempts \in Nat
  BY <1>1, SupervisorConstants DEF Row
<1> HIDE DEF row
<1>5. CASE Agrees(e)
  <2>1. \A f \in Experiments : Agrees(f)
    BY <1>1, <1>5, OthersAgree
  <2> QED
    BY <1>1, <1>2, <1>3, <1>4, <2>1, CommitFieldRecords
<1>6. CASE Ahead(e, "planned", "preflight")
  <2>1. LegalMove(e, saved[e], row)
    BY <1>1, <1>2, <1>6, Edges DEF LegalMove, Ahead, ExperimentState
  <2>2. "planned" \in ExperimentState \ TerminalStates
    BY DEF ExperimentState, TerminalStates
  <2> QED
    BY <1>1, <1>2, <1>6, <2>1, <2>2, OthersAgree, CommitAheadRecords
<1> QED
  BY <1>1, <1>5, <1>6 DEF IInv, SessionInv, Uncommitted

LEMMA CoordinatorRecords ==
    ASSUME IInv, NEW e \in Experiments, CoordinatorStep(e)
    PROVE  UNCHANGED <<saved, stopCalls>> \/ Inject(e) \/ Record(e)
<1>1. CASE ObserveDuring(e)
  BY <1>1, OthersAgree, NothingRecorded DEF ObserveDuring, At
<1>2. CASE \/ Prepare(e) \/ VerifyActive(e) \/ Restore(e) \/ CleanupExhausted(e)
           \/ CleanupSucceeded(e) \/ VerifyCleanup(e)
  BY <1>2, SilentSteps
<1>3. CASE \/ ScenarioPreflight(e) \/ TargetPreflight(e) \/ ObserveBefore(e)
           \/ EnterCleanup(e) \/ SaveContext(e) \/ MarkCancelled(e)
  BY <1>3, PreflightRecords, ObserveBeforeRecords, EnterCleanupRecords,
     SaveContextRecords, MarkCancelledRecords
<1>4. CASE \/ StartInjecting(e) \/ Activate(e) \/ InjectionFailed(e) \/ ExpireActive(e)
           \/ CleanupFailed(e) \/ RecordAttempt(e) \/ ObserveAfter(e) \/ Verdict(e)
           \/ Release(e)
  BY <1>4, MoveRecords, RecordAttemptRecords, ObserveAfterRecords, VerdictRecords,
     ReleaseRecords
<1> QED
  BY <1>1, <1>2, <1>3, <1>4 DEF CoordinatorStep

LEMMA TickRecords ==
    ASSUME IInv, TickStep
    PROVE  UNCHANGED <<saved, stopCalls>> \/ \E e \in Experiments : Record(e)
<1>1. ASSUME NEW r \in Requests, ApplyRequest(r) PROVE \E e \in Experiments : Record(e)
  <2> DEFINE e == r.experiment
             s == ControlEffect(r)
  <2>1. e \in Experiments
    BY DEF Requests
  <2>2. /\ pc = "controls" /\ UNCHANGED targetVars
        /\ s # rows[e].state
        /\ ValidTransition(rows[e].state, s)
        /\ Commit(Write(e, Moved(rows[e], s)))
    BY <1>1 DEF ApplyRequest
  <2>3. \/ rows[e].state = "planned" /\ s = "cancelled"
        \/ rows[e].state = "active" /\ s = "cancellation_requested"
    BY <2>2 DEF ControlEffect, CancelTarget, ValidTransition, AllowedTransitions,
       ExperimentState
  <2>4. s \in ExperimentState /\ rows[e].state \in ExperimentState \ TerminalStates
    BY <2>3 DEF ExperimentState, TerminalStates
  <2> HIDE DEF e, s
  <2> QED
    BY <2>1, <2>2, <2>3, <2>4, NobodyAhead, CommitMoveRecords DEF CoordinatorLabels
<1>2. ASSUME NEW r \in Requests, CompleteRequest(r) PROVE \E e \in Experiments : Record(e)
  <2>1. r.experiment \in Experiments
    BY DEF Requests
  <2> QED
    BY <1>2, <2>1, NobodyAhead, NothingRecorded
    DEF CompleteRequest, Processed, CoordinatorLabels
<1>3. ASSUME NEW e \in Experiments, ReconcileInjecting(e) PROVE Record(e)
  BY <1>3, NobodyAhead, CommitMoveRecords, Edges
  DEF ReconcileInjecting, CoordinatorLabels, ExperimentState, TerminalStates
<1>4. ASSUME NEW e \in Experiments, Claim(e) PROVE Record(e)
  <2> DEFINE row == [rows[e] EXCEPT !.lease = "held"]
  <2>1. /\ pc = "claim" /\ UNCHANGED targetVars /\ Commit(Write(e, row))
        /\ rows[e] \in Row
    BY <1>4 DEF Claim, IInv, TypeOK
  <2>2. /\ row \in Row /\ row.state = rows[e].state /\ row.audit = rows[e].audit
        /\ row.context = rows[e].context /\ row.attempts = rows[e].attempts
    BY <2>1, LeaseField DEF Leases
  <2>3. OnlyLease(rows[e], row)
    BY <2>1 DEF OnlyLease, Row
  <2>4. rows[e].attempts \in Nat
    BY <2>1, SupervisorConstants DEF Row
  <2> HIDE DEF row
  <2> QED
    BY <2>1, <2>2, <2>3, <2>4, NobodyAhead, CommitFieldRecords DEF CoordinatorLabels
<1>5. CASE \/ BeginTick \/ ReconcileNothing \/ ReadControls \/ ControlsDone \/ ClaimNothing
           \/ \E r \in Requests : RefuseRequest(r)
           \/ \E e \in Experiments : ReconcileCleanup(e) \/ StaleClaimRaises(e)
  BY <1>5 DEF BeginTick, ReconcileNothing, ReadControls, ControlsDone, ClaimNothing,
     RefuseRequest, ReconcileCleanup, StaleClaimRaises, Flush, storeVars, targetVars
<1> QED
  BY <1>1, <1>2, <1>3, <1>4, <1>5 DEF TickStep

LEMMA LeaseRunsOutRecords ==
    ASSUME IInv, NEW e \in Experiments, LeaseRunsOut(e)
    PROVE  Record(e)
<1> DEFINE row == [saved[e] EXCEPT !.lease = "run_out"]
<1>1. UNCHANGED targetVars /\ saved[e] \in Row
  BY DEF LeaseRunsOut, TimeVars, IInv, TypeOK
<1>2. \A f \in Experiments : saved'[f] = IF f = e THEN row ELSE saved[f]
  BY DEF LeaseRunsOut, IInv, TypeOK
<1>3. /\ row.state = saved[e].state /\ row.audit = saved[e].audit
      /\ row.context = saved[e].context /\ row.attempts = saved[e].attempts
  BY <1>1, LeaseField DEF Leases
<1>4. OnlyLease(saved[e], row)
  BY <1>1 DEF OnlyLease, Row
<1>5. saved[e].attempts \in Nat
  BY <1>1, SupervisorConstants DEF Row
<1>6. \A f \in Experiments \ {e} : OnlyLease(saved[f], saved[f])
  BY DEF IInv, TypeOK, OnlyLease, Row
<1> HIDE DEF row
<1>7. Grows(saved[e], row)
  BY <1>3, <1>5 DEF Grows
<1>8. Continues(e, saved[e], row)
  BY <1>3, <1>4, <1>7 DEF Continues, LegalMove
<1> QED
  BY <1>1, <1>2, <1>6, <1>8 DEF Record

\* The classification both theorems rest on.
LEMMA StepKinds ==
    ASSUME IInv, [Next]_vars
    PROVE  \/ UNCHANGED <<saved, stopCalls>>
           \/ \E e \in Experiments : Inject(e) \/ Schedule(e) \/ Record(e)
<1>1. CASE AgentStep
  BY <1>1, TickRecords, CoordinatorRecords DEF AgentStep
<1>2. CASE OperatorStep
  BY <1>2 DEF OperatorStep, RequestControl, OperatorVars, storeVars, targetVars
<1>3. CASE TimeStep
  BY <1>3, LeaseRunsOutRecords DEF TimeStep, Elapse, TimeVars, storeVars, targetVars
<1>4. CASE TargetStep
  BY <1>4 DEF TargetStep, TargetChanges, LateStopLands, LateStartLands, OutsideStop,
     OutsideStart, storeVars
<1>5. CASE Crash \/ Boot
  BY <1>5 DEF Crash, Boot, storeVars, targetVars
<1>6. CASE UNCHANGED vars
  BY <1>6 DEF vars, storeVars, targetVars
<1> QED
  BY <1>1, <1>2, <1>3, <1>4, <1>5, <1>6 DEF Next

\* A scheduled row starts from nothing, and leaves the others as they are.
LEMMA ScheduleEffect ==
    ASSUME IInv, NEW e \in Experiments, Schedule(e)
    PROVE  /\ UNCHANGED targetVars
           /\ \A f \in Experiments : saved[f].state \notin Unfinished
           /\ saved[e].state = "absent"
           /\ saved'[e].state = "planned"
           /\ \A f \in Experiments \ {e} : OnlyLease(saved[f], saved'[f])
<1> DEFINE row == Moved(NoRow, "planned")
<1>1. /\ ~writing /\ rows[e].state = "absent" /\ UNCHANGED targetVars
      /\ \A f \in Experiments : rows[f].state \notin Unfinished
      /\ Commit(Write(e, row))
  BY DEF Schedule, OperatorVars
<1>2. \A f \in Experiments : Agrees(f)
  BY <1>1 DEF IInv, SessionInv, Uncommitted
<1>3. \A f \in Experiments : saved[f].state = rows[f].state
  BY <1>2, AgreeFields DEF IInv
<1>4. row.state = "planned"
  BY NoRowIsRow, MovedRow DEF ExperimentState
<1> HIDE DEF row
<1>5. \A f \in Experiments : saved'[f] = IF f = e THEN row ELSE rows[f]
  BY <1>1 DEF Commit, Write, IInv, TypeOK
<1>6. \A f \in Experiments : OnlyLease(saved[f], rows[f])
  BY <1>2, AgreesIsOnlyLease DEF IInv
<1> QED
  BY <1>1, <1>3, <1>4, <1>5, <1>6

-----------------------------------------------------------------------------
(* What is on record stays on record *)

LEMMA HistoryStep ==
    ASSUME IInv, IInv', [Next]_vars
    PROVE  [HistoryKept]_saved
<1>1. \A e \in Experiments : saved[e] \in Row /\ saved'[e] \in Row
  BY DEF IInv, TypeOK
<1>2. \A e \in Experiments : saved[e].attempts \in Nat /\ saved'[e].attempts \in Nat
  BY <1>1, SupervisorConstants DEF Row
<1>3. ASSUME NEW e \in Experiments, OnlyLease(saved[e], saved'[e])
      PROVE  /\ saved[e].audit \subseteq saved'[e].audit
             /\ saved[e].attempts <= saved'[e].attempts
             /\ saved[e].context => saved'[e].context
  BY <1>1, <1>2, <1>3, OnlyLeaseFields
<1>4. ASSUME NEW e \in Experiments, Schedule(e) PROVE HistoryKept
  <2>1. saved[e].audit = {} /\ saved[e].attempts = 0 /\ ~saved[e].context
    <3>1. RowInv(e, saved[e]) /\ saved[e].state = "absent"
      BY <1>4, ScheduleEffect DEF IInv, StoreInv
    <3>2. stopCalls[e] = 0
      BY <3>1 DEF RowInv, UntouchedStates
    <3> QED
      BY <3>1, <3>2 DEF RowInv
  <2>2. saved[e].attempts <= saved'[e].attempts
    BY <1>2, <2>1
  <2> QED
    BY <1>3, <1>4, <2>1, <2>2, ScheduleEffect DEF HistoryKept, OnlyLease, TerminalStates
<1>5. ASSUME NEW e \in Experiments, Record(e) PROVE HistoryKept
  BY <1>3, <1>5 DEF Record, Continues, Grows, OnlyLease, HistoryKept
<1>6. ASSUME NEW e \in Experiments, Inject(e) PROVE UNCHANGED saved
  BY <1>6 DEF Inject, storeVars
<1> QED
  BY <1>4, <1>5, <1>6, StepKinds

\* No commit, crash or rollback takes back an audit row, a cleanup attempt or
\* the cleanup evidence, and nothing but its lease changes in a terminal row.
THEOREM HistoryNeverLost == Spec => HistoryIsFinal
<1>1. IInv /\ IInv' /\ [Next]_vars => [HistoryKept]_saved
  BY HistoryStep
<1> QED
  BY <1>1, InductiveInvariant, PTL DEF Spec, HistoryIsFinal

-----------------------------------------------------------------------------
(* The supervisor implements the abstract life cycle *)

AbstractState == [e \in Experiments |-> saved[e].state]
AbstractInjected == {e \in Experiments : stopCalls[e] > 0}

LEMMA AbstractInit == Init => Abstract!LifecycleInit
<1> SUFFICES ASSUME Init PROVE Abstract!LifecycleInit
  OBVIOUS
<1>1. \A e \in Experiments : saved[e].state = "absent" /\ ~(stopCalls[e] > 0)
  <2> SUFFICES ASSUME NEW e \in Experiments
               PROVE  saved[e].state = "absent" /\ ~(stopCalls[e] > 0)
    OBVIOUS
  <2>1. stopCalls[e] = 0
    BY DEF Init, TargetInit
  <2>2. saved[e].state = "absent"
    BY DEF Init, NoRow
  <2> QED
    BY <2>1, <2>2
<1> QED
  BY <1>1 DEF Abstract!LifecycleInit

\* One row moves, the others keep their state: the abstract state moves at e.
LEMMA AbstractMove ==
    ASSUME NEW e \in Experiments,
           \A f \in Experiments \ {e} : saved'[f].state = saved[f].state
    PROVE  AbstractState' = [AbstractState EXCEPT ![e] = saved'[e].state]
BY DEF AbstractState

LEMMA AbstractStep ==
    ASSUME IInv, IInv', [Next]_vars
    PROVE  [Abstract!LifecycleNext]_(Abstract!lifecycleVars)
<1>1. \A e \in Experiments : saved[e] \in Row /\ saved'[e] \in Row
  BY DEF IInv, TypeOK
<1>2. CASE UNCHANGED <<saved, stopCalls>>
  BY <1>2 DEF Abstract!lifecycleVars
<1>3. ASSUME NEW e \in Experiments, Inject(e) PROVE Abstract!RequestFault(e)
  <2>1. /\ rows[e].state = "injecting" /\ UNCHANGED saved /\ pc = "run" /\ current = e
    BY <1>3 DEF Inject, At, storeVars
  <2>2. saved[e].state = "injecting" /\ stopCalls[e] = 0
    BY <2>1, OthersAgree, AgreeFields DEF IInv, ControlInv, JobInv
  <2>3. PICK verified \in BOOLEAN : StopCall(e, verified)
    BY <1>3 DEF Inject
  <2>4. /\ stopCalls'[e] = 1
        /\ \A f \in Experiments \ {e} : stopCalls'[f] = stopCalls[f]
    BY <2>2, <2>3 DEF StopCall, IInv, TypeOK, TargetTypeOK
  <2>5. e \notin AbstractInjected
    BY <2>2 DEF AbstractInjected
  <2>6. AbstractInjected' = AbstractInjected \cup {e}
    BY <2>4 DEF AbstractInjected
  <2>7. UNCHANGED AbstractState
    BY <2>1 DEF AbstractState
  <2> QED
    BY <2>2, <2>5, <2>6, <2>7 DEF Abstract!RequestFault, AbstractState, AbstractInjected
<1>4. ASSUME NEW e \in Experiments, Schedule(e) PROVE Abstract!ScheduleOne(e)
  <2>1. \A f \in Experiments \ {e} : saved'[f].state = saved[f].state
    BY <1>1, <1>4, ScheduleEffect, OnlyLeaseFields
  <2>2. AbstractState' = [AbstractState EXCEPT ![e] = "planned"]
    BY <1>4, <2>1, ScheduleEffect, AbstractMove
  <2>3. UNCHANGED AbstractInjected
    BY <1>4, ScheduleEffect DEF AbstractInjected, targetVars
  <2>4. \A f \in Experiments : saved[f].state \in TerminalStates \cup {"absent"}
    BY <1>1, <1>4, ScheduleEffect DEF Row, Unfinished
  <2> QED
    BY <1>4, <2>2, <2>3, <2>4, ScheduleEffect
    DEF Abstract!ScheduleOne, Abstract!TerminalStates, TerminalStates, AbstractState,
        AbstractInjected
<1>5. ASSUME NEW e \in Experiments, Record(e)
      PROVE  \/ UNCHANGED <<AbstractState, AbstractInjected>>
             \/ \E s \in Abstract!ExperimentState : Abstract!Advance(e, s)
             \/ Abstract!RefuseUnseen(e)
  <2>0. PICK to : to = saved'[e].state
    OBVIOUS
  <2>1. \A f \in Experiments \ {e} : saved'[f].state = saved[f].state
    BY <1>1, <1>5, OnlyLeaseFields DEF Record
  <2>2. AbstractState' = [AbstractState EXCEPT ![e] = to]
    BY <2>0, <2>1, AbstractMove
  <2>3. UNCHANGED AbstractInjected
    BY <1>5 DEF Record, AbstractInjected, targetVars
  <2>4. AbstractState[e] = saved[e].state /\ (e \in AbstractInjected <=> stopCalls[e] > 0)
    BY DEF AbstractState, AbstractInjected
  <2>5. LegalMove(e, saved[e], saved'[e])
    BY <1>5 DEF Record, Continues
  <2>6. CASE to = saved[e].state
    <3>1. AbstractState' = AbstractState
      BY <2>2, <2>6 DEF AbstractState
    <3> QED
      BY <2>3, <3>1
  <2>7. CASE /\ to \in ExperimentState /\ saved[e].state \in ExperimentState
             /\ ValidTransition(saved[e].state, to)
             /\ to \in {"active", "passed"} => stopCalls[e] > 0
             /\ to = "failed" => stopCalls[e] = 0
    <3>1. to = "failed" => ~(stopCalls[e] > 0)
      BY <2>7
    <3>2. Abstract!Advance(e, to)
      BY <2>2, <2>3, <2>4, <2>7, <3>1
      DEF Abstract!Advance, Abstract!Justified, Abstract!ValidTransition, ValidTransition,
          Abstract!AllowedTransitions, AllowedTransitions, Abstract!ExperimentState,
          ExperimentState, AbstractState, AbstractInjected
    <3>3. to \in Abstract!ExperimentState
      BY <2>7 DEF Abstract!ExperimentState, ExperimentState
    <3> QED
      BY <3>2, <3>3
  <2>8. CASE saved[e].state = "planned" /\ to = "failed" /\ stopCalls[e] = 0
    <3>1. ~(stopCalls[e] > 0)
      BY <2>8
    <3> QED
      BY <2>2, <2>3, <2>4, <2>8, <3>1
      DEF Abstract!RefuseUnseen, Abstract!Justified, AbstractState, AbstractInjected
  <2> QED
    BY <2>0, <2>5, <2>6, <2>7, <2>8 DEF LegalMove
<1> QED
  BY <1>2, <1>3, <1>4, <1>5, StepKinds
  DEF Abstract!LifecycleNext, Abstract!lifecycleVars, AbstractState, AbstractInjected

\* Read through the committed states and the stops sent, every behaviour of
\* the agent, its operators, its crashes and its target is a behaviour of the
\* abstract life cycle.
THEOREM SupervisorImplementsLifecycle == Spec => ImplementsLifecycle
<1>1. IInv /\ IInv' /\ [Next]_vars => [Abstract!LifecycleNext]_(Abstract!lifecycleVars)
  BY AbstractStep
<1> QED
  BY <1>1, AbstractInit, InductiveInvariant, PTL
  DEF Spec, ImplementsLifecycle, Abstract!LifecycleSpec

-----------------------------------------------------------------------------
(* Cancellations *)

RowKept(e) ==
    /\ rows'[e].state = rows[e].state
    /\ rows'[e].audit = rows[e].audit
    /\ rows'[e].outcome = rows[e].outcome

\* A transition that is neither a verdict nor taken by a row that rests.
RowMoved(e) ==
    /\ rows[e].state \notin CancelledEnds \cup {"cancellation_requested", "passed"}
    /\ rows'[e].state # "passed"
    /\ rows'[e].audit = rows[e].audit \cup {rows'[e].state}
    /\ rows'[e].outcome = rows[e].outcome
    /\ pc # "mark_cancelled"

\* _cleanup goes on with the argument it was called with.
CleanupGoesOn ==
    /\ pc' \in CleanupLabels =>
          pc \in CleanupLabels /\ current' = current /\ cancelled' = cancelled
    /\ pc' = "mark_cancelled" => pc = "mark_cancelled"
    /\ pc = "mark_cancelled" => pc' = "mark_cancelled" /\ current' = current

\* What most steps do to rows and cancellations.
Ordinary ==
    /\ \A e \in Experiments : RowKept(e) \/ RowMoved(e)
    /\ saved' = saved \/ saved' = rows' \/ (\E e \in Experiments : LeaseRunsOut(e))
    /\ CleanupGoesOn

LEMMA WriteKeepsRows ==
    ASSUME TypeOK, NEW e \in Experiments, NEW row \in Row, rows' = Write(e, row),
           row.state = rows[e].state, row.audit = rows[e].audit,
           row.outcome = rows[e].outcome
    PROVE  \A f \in Experiments : RowKept(f)
BY DEF Write, TypeOK, RowKept

LEMMA WriteMovesRow ==
    ASSUME TypeOK, NEW e \in Experiments, NEW s \in ExperimentState,
           rows' = Write(e, Moved(rows[e], s)), s # "passed", pc # "mark_cancelled",
           rows[e].state \notin CancelledEnds \cup {"cancellation_requested", "passed"}
    PROVE  \A f \in Experiments : RowKept(f) \/ RowMoved(f)
<1>1. /\ Moved(rows[e], s).state = s
      /\ Moved(rows[e], s).audit = rows[e].audit \cup {s}
      /\ Moved(rows[e], s).outcome = rows[e].outcome
  BY DEF Moved, TypeOK, Row
<1>2. \A f \in Experiments :
         rows'[f] = IF f = e THEN Moved(rows[e], s) ELSE rows[f]
  BY DEF Write, TypeOK
<1> QED
  BY <1>1, <1>2 DEF RowKept, RowMoved

LEMMA OrdinaryKeepsCancelInv ==
    ASSUME IInv, CancelInv, Ordinary
    PROVE  CancelInv'
<1> SUFFICES ASSUME NEW e \in Experiments
             PROVE  /\ rows'[e].outcome = saved'[e].outcome
                    /\ rows'[e].state = "passed" => rows'[e].outcome = "passed"
                    /\ current' = e /\ pc' \in CleanupLabels =>
                          (pc' = "mark_cancelled" \/ rows'[e].outcome = "cancelled_pending"
                              => cancelled')
  BY DEF CancelInv
<1>1. rows'[e].outcome = rows[e].outcome
  BY DEF Ordinary, RowKept, RowMoved
<1>2. saved'[e].outcome = rows'[e].outcome
  <2>1. ASSUME NEW f \in Experiments, LeaseRunsOut(f) PROVE saved'[e].outcome = saved[e].outcome
    BY <2>1 DEF LeaseRunsOut, IInv, TypeOK, Row
  <2> QED
    BY <1>1, <2>1 DEF CancelInv, Ordinary
<1>3. rows'[e].state = "passed" => rows[e].state = "passed"
  BY DEF Ordinary, RowKept, RowMoved
<1> QED
  BY <1>1, <1>2, <1>3 DEF CancelInv, Ordinary, CleanupGoesOn

LEMMA OrdinaryKeepsCancellation ==
    ASSUME Ordinary, NEW e \in Experiments
    PROVE  /\ Remembered(e) => Remembered(e)'
           /\ WasCancelled(e)' => WasCancelled(e) \/ Remembered(e)'
<1>1. CASE RowKept(e)
  BY <1>1 DEF Ordinary, CleanupGoesOn, RowKept, Remembered, WasCancelled, At
<1>2. CASE RowMoved(e)
  BY <1>2 DEF RowMoved, Remembered, WasCancelled, At
<1> QED
  BY <1>1, <1>2 DEF Ordinary

LEMMA KeptIsOrdinary ==
    ASSUME UNCHANGED storeVars, CleanupGoesOn
    PROVE  Ordinary
BY DEF Ordinary, RowKept, storeVars

\* A process that returns or raises is not in _cleanup any more.
LEMMA ReturnLeavesCleanup ==
    ASSUME Return \/ Raise, pc # "mark_cancelled"
    PROVE  CleanupGoesOn
BY DEF Return, Raise, Goto, IdleJob, CleanupGoesOn, CleanupLabels

LEMMA GotoGoesOn ==
    ASSUME NEW label \in Labels, Goto(label), pc # "mark_cancelled",
           label \in CleanupLabels \ {"mark_cancelled"} => pc \in CleanupLabels,
           label # "mark_cancelled"
    PROVE  CleanupGoesOn
BY DEF Goto, jobVars, CleanupGoesOn

LEMMA PrepareIsOrdinary ==
    ASSUME IInv, NEW e \in Experiments,
           \/ Prepare(e) \/ ScenarioPreflight(e) \/ TargetPreflight(e) \/ ObserveBefore(e)
           \/ StartInjecting(e)
    PROVE  Ordinary
<1>1. TypeOK /\ rows[e] \in Row
  BY DEF IInv, TypeOK
<1>2. "preflight" \in ExperimentState /\ "failed" \in ExperimentState /\ "injecting" \in ExperimentState
  BY DEF ExperimentState
<1>3. pc \notin CleanupLabels
  BY DEF Prepare, ScenarioPreflight, TargetPreflight, ObserveBefore, StartInjecting, At,
     CleanupLabels
<1>4. pc # "mark_cancelled"
  BY <1>3 DEF CleanupLabels
<1>5. ASSUME NEW label \in {"scenario_preflight", "target_preflight", "observe_before",
                            "start_injecting", "run"}, Goto(label)
      PROVE  CleanupGoesOn
  BY <1>4, <1>5, GotoGoesOn DEF CleanupLabels, Labels
<1>6. CASE Prepare(e)
  <2>1. CleanupGoesOn
    BY <1>4, <1>5, <1>6, ReturnLeavesCleanup DEF Prepare
  <2>2. CASE rows[e].state = "planned"
    <3>1. rows' = Write(e, Moved(rows[e], "preflight")) /\ saved' = saved
      BY <1>6, <2>2 DEF Prepare, Flush
    <3> QED
      BY <1>1, <1>2, <1>4, <2>1, <2>2, <3>1, WriteMovesRow DEF Ordinary, CancelledEnds
  <2> QED
    BY <1>6, <2>1, <2>2, KeptIsOrdinary DEF Prepare
<1>7. CASE ScenarioPreflight(e) \/ TargetPreflight(e)
  <2>1. rows[e].state = "preflight"
    BY <1>7 DEF ScenarioPreflight, TargetPreflight, At, IInv, ControlInv, JobInv
  <2>2. CASE RefusePreflight(e)
    <3>1. CleanupGoesOn
      BY <1>4, <2>2, ReturnLeavesCleanup DEF RefusePreflight
    <3>2. rows' = Write(e, Moved(rows[e], "failed")) /\ saved' = rows'
      BY <2>2 DEF RefusePreflight, Commit
    <3> QED
      BY <1>1, <1>2, <1>4, <2>1, <3>1, <3>2, WriteMovesRow DEF Ordinary, CancelledEnds
  <2>3. CASE UNCHANGED storeVars /\ CleanupGoesOn
    BY <2>3, KeptIsOrdinary
  <2>4. RefusePreflight(e) \/ (UNCHANGED storeVars /\ CleanupGoesOn)
    BY <1>4, <1>5, <1>7, ReturnLeavesCleanup DEF ScenarioPreflight, TargetPreflight, StatusReplies
  <2> QED
    BY <2>2, <2>3, <2>4
<1>8. CASE ObserveBefore(e)
  <2>1. PICK seen \in Observations : Commit(Write(e, [rows[e] EXCEPT !.before = seen]))
    BY <1>8 DEF ObserveBefore, Observed, Observations
  <2> DEFINE row == [rows[e] EXCEPT !.before = seen]
  <2>2. /\ row \in Row /\ row.state = rows[e].state /\ row.audit = rows[e].audit
        /\ row.outcome = rows[e].outcome
    BY <1>1 DEF Row
  <2>3. \A f \in Experiments : RowKept(f)
    BY <1>1, <2>1, <2>2, WriteKeepsRows DEF Commit
  <2> QED
    BY <1>5, <1>8, <2>1, <2>3 DEF ObserveBefore, Commit, Ordinary
<1>9. CASE StartInjecting(e)
  <2>1. rows[e].state = "preflight"
    BY <1>9 DEF StartInjecting, At, IInv, ControlInv, JobInv
  <2>2. rows' = Write(e, Moved(rows[e], "injecting")) /\ saved' = rows'
    BY <1>9 DEF StartInjecting, Commit
  <2> QED
    BY <1>1, <1>2, <1>4, <1>5, <1>9, <2>1, <2>2, WriteMovesRow
    DEF StartInjecting, Ordinary, CancelledEnds
<1> QED
  BY <1>6, <1>7, <1>8, <1>9

LEMMA InjectionIsOrdinary ==
    ASSUME IInv, NEW e \in Experiments,
           \/ Inject(e) \/ SaveContext(e) \/ VerifyActive(e) \/ Activate(e)
           \/ InjectionFailed(e) \/ ExpireActive(e) \/ ObserveDuring(e)
    PROVE  Ordinary
<1>1. TypeOK /\ rows[e] \in Row
  BY DEF IInv, TypeOK
<1>2. "active" \in ExperimentState /\ "cleaning_up" \in ExperimentState /\ "expired" \in ExperimentState
  BY DEF ExperimentState
<1>3. pc \notin CleanupLabels
  BY DEF Inject, SaveContext, VerifyActive, Activate, InjectionFailed, ExpireActive,
     ObserveDuring, At, CleanupLabels
<1>4. pc # "mark_cancelled"
  BY <1>3 DEF CleanupLabels
<1>5. ASSUME NEW label \in {"save_context", "verify_active", "activate",
                            "injection_failed", "run"}, Goto(label)
      PROVE  CleanupGoesOn
  BY <1>4, <1>5, GotoGoesOn DEF CleanupLabels, Labels
<1>6. CASE Inject(e) \/ VerifyActive(e)
  BY <1>5, <1>6, KeptIsOrdinary DEF Inject, VerifyActive
<1>7. CASE SaveContext(e)
  <2> DEFINE row == [rows[e] EXCEPT !.context = TRUE]
  <2>1. /\ row \in Row /\ row.state = rows[e].state /\ row.audit = rows[e].audit
        /\ row.outcome = rows[e].outcome
    BY <1>1 DEF Row
  <2>2. \A f \in Experiments : RowKept(f)
    BY <1>1, <1>7, <2>1, WriteKeepsRows DEF SaveContext, Commit
  <2> QED
    BY <1>5, <1>7, <2>2 DEF SaveContext, Commit, Ordinary
<1>8. CASE Activate(e) \/ InjectionFailed(e) \/ ExpireActive(e)
  <2>1. rows[e].state \in {"injecting", "active"}
    BY <1>8 DEF Activate, InjectionFailed, ExpireActive, At, IInv, ControlInv, JobInv
  <2>2. PICK s \in {"active", "cleaning_up", "expired"} :
           rows' = Write(e, Moved(rows[e], s)) /\ saved' = rows'
    BY <1>8 DEF Activate, InjectionFailed, ExpireActive, Commit
  <2>3. CleanupGoesOn
    BY <1>5, <1>8 DEF Activate, InjectionFailed, ExpireActive
  <2> QED
    BY <1>1, <1>2, <1>4, <2>1, <2>2, <2>3, WriteMovesRow DEF Ordinary, CancelledEnds
<1>9. CASE ObserveDuring(e)
  BY <1>4, <1>9, ReturnLeavesCleanup DEF ObserveDuring, Commit, Ordinary, RowKept
<1> QED
  BY <1>6, <1>7, <1>8, <1>9

LEMMA CleanupIsOrdinary ==
    ASSUME IInv, NEW e \in Experiments,
           \/ Restore(e) \/ RecordAttempt(e) \/ CleanupExhausted(e) \/ CleanupFailed(e)
           \/ CleanupSucceeded(e) \/ VerifyCleanup(e) \/ ObserveAfter(e) \/ Release(e)
    PROVE  Ordinary
<1>1. TypeOK /\ rows[e] \in Row
  BY DEF IInv, TypeOK
<1>2. "cleanup_failed" \in ExperimentState /\ "verifying" \in ExperimentState
  BY DEF ExperimentState
<1>3. /\ pc # "mark_cancelled"
      /\ pc \in CleanupLabels \cup {"release"}
  BY DEF Restore, RecordAttempt, CleanupExhausted, CleanupFailed, CleanupSucceeded,
     VerifyCleanup, ObserveAfter, Release, At, CleanupLabels
<1>4. ASSUME NEW label \in CleanupLabels \ {"mark_cancelled"}, pc \in CleanupLabels,
             Goto(label) \/ \E value \in BOOLEAN : SetOk(label, value)
      PROVE  CleanupGoesOn
  BY <1>3, <1>4 DEF Goto, SetOk, jobVars, CleanupGoesOn
<1>5. CASE Restore(e) \/ VerifyCleanup(e)
  <2>1. CleanupGoesOn
    BY <1>3, <1>4, <1>5 DEF Restore, VerifyCleanup, At, CleanupLabels
  <2> QED
    BY <1>5, <2>1, KeptIsOrdinary DEF Restore, VerifyCleanup
<1>6. CASE RecordAttempt(e)
  <2> DEFINE number == IF rows[e].attempts < AttemptCap THEN rows[e].attempts + 1
                                                        ELSE rows[e].attempts
             row == [rows[e] EXCEPT !.attempts = number]
  <2>1. /\ rows[e].attempts \in 0..AttemptCap /\ AttemptCap \in Nat
    BY <1>1, SupervisorConstants DEF Row
  <2>2. number \in 0..AttemptCap
    BY <2>1
  <2>3. /\ row \in Row /\ row.state = rows[e].state /\ row.audit = rows[e].audit
        /\ row.outcome = rows[e].outcome
    BY <1>1, <2>2 DEF Row
  <2>4. rows' = Write(e, row) /\ saved' = rows' /\ Goto("conclude") /\ pc = "record_attempt"
    BY <1>6 DEF RecordAttempt, Commit, At
  <2>5. \A f \in Experiments : RowKept(f)
    BY <1>1, <2>3, <2>4, WriteKeepsRows
  <2>6. CleanupGoesOn
    BY <1>4, <2>4 DEF CleanupLabels
  <2> QED
    BY <2>4, <2>5, <2>6 DEF Ordinary
<1>7. CASE CleanupExhausted(e)
  <2>1. rows[e].state = "cleaning_up"
    BY <1>7 DEF CleanupExhausted, At, IInv, ControlInv, JobInv
  <2>2. UNCHANGED storeVars /\ Raise
    BY <1>7, <2>1, NoEscalation DEF CleanupExhausted
  <2> QED
    BY <1>3, <2>2, ReturnLeavesCleanup, KeptIsOrdinary
<1>8. CASE CleanupFailed(e) \/ CleanupSucceeded(e)
  <2>1. rows[e].state = "cleaning_up" /\ pc = "conclude"
    BY <1>8 DEF CleanupFailed, CleanupSucceeded, At, IInv, ControlInv, JobInv
  <2>2. PICK s \in {"cleanup_failed", "verifying"} : rows' = Write(e, Moved(rows[e], s))
    BY <1>8 DEF CleanupFailed, CleanupSucceeded, Commit, Flush
  <2>3. saved' = saved \/ saved' = rows'
    BY <1>8 DEF CleanupFailed, CleanupSucceeded, Commit, Flush
  <2>4. CleanupGoesOn
    BY <1>3, <1>4, <1>8, <2>1, ReturnLeavesCleanup
    DEF CleanupFailed, CleanupSucceeded, CleanupLabels
  <2> QED
    BY <1>1, <1>2, <1>3, <2>1, <2>2, <2>3, <2>4, WriteMovesRow DEF Ordinary, CancelledEnds
<1>9. CASE ObserveAfter(e)
  <2>1. PICK seen \in Observations : Commit(Write(e, [rows[e] EXCEPT !.after = seen]))
    BY <1>9 DEF ObserveAfter, Observed, Observations
  <2> DEFINE row == [rows[e] EXCEPT !.after = seen]
  <2>2. /\ row \in Row /\ row.state = rows[e].state /\ row.audit = rows[e].audit
        /\ row.outcome = rows[e].outcome
    BY <1>1 DEF Row
  <2>3. \A f \in Experiments : RowKept(f)
    BY <1>1, <2>1, <2>2, WriteKeepsRows DEF Commit
  <2>4. CleanupGoesOn
    BY <1>4, <1>9 DEF ObserveAfter, At, CleanupLabels
  <2> QED
    BY <2>1, <2>3, <2>4 DEF Commit, Ordinary
<1>10. CASE Release(e)
  <2> DEFINE row == [rows[e] EXCEPT !.lease = "none"]
  <2>1. /\ row \in Row /\ row.state = rows[e].state /\ row.audit = rows[e].audit
        /\ row.outcome = rows[e].outcome
    BY <1>1 DEF Row, Leases
  <2>2. \A f \in Experiments : RowKept(f)
    BY <1>1, <1>10, <2>1, WriteKeepsRows DEF Release, Commit
  <2>3. CleanupGoesOn
    BY <1>3, <1>10 DEF Release, CleanupGoesOn, CleanupLabels
  <2> QED
    BY <1>10, <2>2, <2>3 DEF Release, Commit, Ordinary
<1> QED
  BY <1>5, <1>6, <1>7, <1>8, <1>9, <1>10

LEMMA TickIsOrdinary ==
    ASSUME IInv, TickStep
    PROVE  Ordinary
<1>1. TypeOK
  BY DEF IInv
<1>2. pc \notin CleanupLabels
  BY DEF TickStep, BeginTick, ReconcileNothing, ReadControls, ControlsDone, ClaimNothing,
     ApplyRequest, RefuseRequest, CompleteRequest, ReconcileInjecting, ReconcileCleanup,
     Claim, StaleClaimRaises, CleanupLabels
<1>3. pc' \notin CleanupLabels
  BY DEF TickStep, BeginTick, ReconcileNothing, ReadControls, ControlsDone, ClaimNothing,
     ApplyRequest, RefuseRequest, CompleteRequest, Processed, ReconcileInjecting,
     ReconcileCleanup, Claim, StaleClaimRaises, Goto, CleanupLabels
<1>4. pc # "mark_cancelled" /\ CleanupGoesOn
  BY <1>2, <1>3 DEF CleanupGoesOn, CleanupLabels
<1>5. ASSUME NEW r \in Requests, ApplyRequest(r) PROVE Ordinary
  <2> DEFINE e == r.experiment
             s == ControlEffect(r)
  <2>1. e \in Experiments
    BY DEF Requests
  <2>2. /\ s # rows[e].state /\ ValidTransition(rows[e].state, s)
        /\ rows' = Write(e, Moved(rows[e], s)) /\ saved' = rows'
    BY <1>5 DEF ApplyRequest, Commit
  <2>3. \/ rows[e].state = "planned" /\ s = "cancelled"
        \/ rows[e].state = "active" /\ s = "cancellation_requested"
    BY <2>2 DEF ControlEffect, CancelTarget, ValidTransition, AllowedTransitions,
       ExperimentState
  <2>4. s \in ExperimentState /\ s # "passed"
    BY <2>3 DEF ExperimentState
  <2> HIDE DEF e, s
  <2> QED
    BY <1>1, <1>4, <2>1, <2>2, <2>3, <2>4, WriteMovesRow DEF Ordinary, CancelledEnds
<1>6. ASSUME NEW e \in Experiments, ReconcileInjecting(e) PROVE Ordinary
  <2>1. "cleaning_up" \in ExperimentState
    BY DEF ExperimentState
  <2> QED
    BY <1>1, <1>4, <1>6, <2>1, WriteMovesRow
    DEF ReconcileInjecting, Commit, Ordinary, CancelledEnds
<1>7. ASSUME NEW e \in Experiments, Claim(e) \/ StaleClaimRaises(e) PROVE Ordinary
  <2> DEFINE row == [rows[e] EXCEPT !.lease = "held"]
  <2>1. /\ row \in Row /\ row.state = rows[e].state /\ row.audit = rows[e].audit
        /\ row.outcome = rows[e].outcome
    BY <1>1 DEF TypeOK, Row, Leases
  <2>2. rows' = Write(e, row) /\ (saved' = saved \/ saved' = rows')
    BY <1>7 DEF Claim, StaleClaimRaises, Commit, Flush
  <2> QED
    BY <1>1, <1>4, <2>1, <2>2, WriteKeepsRows DEF Ordinary
<1>8. CASE \E r \in Requests : CompleteRequest(r)
  BY <1>4, <1>8 DEF CompleteRequest, Processed, Commit, Ordinary, RowKept
<1>9. CASE \/ BeginTick \/ ReconcileNothing \/ ReadControls \/ ControlsDone \/ ClaimNothing
           \/ \E r \in Requests : RefuseRequest(r)
           \/ \E e \in Experiments : ReconcileCleanup(e)
  BY <1>4, <1>9, KeptIsOrdinary
  DEF BeginTick, ReconcileNothing, ReadControls, ControlsDone, ClaimNothing,
     RefuseRequest, ReconcileCleanup
<1> QED
  BY <1>5, <1>6, <1>7, <1>8, <1>9 DEF TickStep

LEMMA SurroundingsAreOrdinary ==
    ASSUME IInv, \/ \E r \in Requests : RequestControl(r)
                 \/ TimeStep \/ TargetStep \/ Boot \/ UNCHANGED vars
    PROVE  Ordinary
<1>1. CASE \E e \in Experiments : LeaseRunsOut(e)
  <2>1. PICK e \in Experiments : LeaseRunsOut(e)
    BY <1>1
  <2> DEFINE row == [rows[e] EXCEPT !.lease = "run_out"]
  <2>2. /\ row \in Row /\ row.state = rows[e].state /\ row.audit = rows[e].audit
        /\ row.outcome = rows[e].outcome
    BY DEF IInv, TypeOK, Row, Leases
  <2>3. CleanupGoesOn
    BY <2>1 DEF LeaseRunsOut, TimeVars, jobVars, CleanupGoesOn
  <2> QED
    BY <2>1, <2>2, <2>3, WriteKeepsRows DEF LeaseRunsOut, Ordinary, IInv
<1>2. CASE \/ \E r \in Requests : RequestControl(r)
           \/ \E e \in Experiments : Elapse(e)
           \/ TargetStep \/ UNCHANGED vars
  <2>1. UNCHANGED storeVars /\ UNCHANGED <<pc, current, cancelled>>
    BY <1>2 DEF RequestControl, OperatorVars, Elapse, TimeVars, TargetStep, vars, jobVars
  <2> QED
    BY <2>1, KeptIsOrdinary DEF CleanupGoesOn
<1>3. CASE Boot
  <2>1. CleanupGoesOn
    BY <1>3 DEF Boot, Goto, CleanupGoesOn, CleanupLabels
  <2> QED
    BY <1>3, <2>1, KeptIsOrdinary DEF Boot
<1> QED
  BY <1>1, <1>2, <1>3 DEF TimeStep

\* The four steps that are not: two of a cancellation, the verdict, and a new row.
LEMMA MostStepsAreOrdinary ==
    ASSUME IInv, [Next]_vars
    PROVE  \/ Ordinary \/ Crash
           \/ \E e \in Experiments :
                 EnterCleanup(e) \/ MarkCancelled(e) \/ Verdict(e) \/ Schedule(e)
<1>1. CASE AgentStep
  BY <1>1, TickIsOrdinary, PrepareIsOrdinary, InjectionIsOrdinary, CleanupIsOrdinary
  DEF AgentStep, CoordinatorStep
<1> QED
  BY <1>1, SurroundingsAreOrdinary DEF Next, OperatorStep

\* What the others do.
Forgets(e) == Crash /\ At("mark_cancelled", e)

CancelStep(e) ==
    /\ WasCancelled(e) /\ Remembered(e) => Remembered(e)' \/ Forgets(e)
    /\ WasCancelled(e)' => WasCancelled(e) \/ Remembered(e)' \/ crashes' # 0

LEMMA EnterCleanupKeepsCancellation ==
    ASSUME IInv, CancelInv, NEW c \in Experiments, EnterCleanup(c)
    PROVE  CancelInv' /\ \A e \in Experiments : CancelStep(e)
<1>1. /\ pc = "run" /\ current = c /\ current' = c
      /\ rows[c].state \in CleanupStates
      /\ cancelled' = CancellationKnown(rows[c])
      /\ pc' = IF CancellationKnown(rows[c]) THEN "mark_cancelled" ELSE "restore"
  BY DEF EnterCleanup, At
<1>2. CASE UNCHANGED storeVars
  BY <1>1, <1>2
  DEF storeVars, CancelInv, CancelStep, Remembered, WasCancelled, At, CancellationKnown
<1>3. CASE Commit(Write(c, Moved(rows[c], "cleaning_up")))
  <2>1. /\ saved' = rows'
        /\ \A e \in Experiments : e # c => rows'[e] = rows[e]
        /\ rows'[c].state = "cleaning_up" /\ rows'[c].outcome = rows[c].outcome
        /\ rows'[c].audit = rows[c].audit \cup {"cleaning_up"}
    BY <1>3 DEF Commit, Write, Moved, IInv, TypeOK, Row
  <2>2. CancelInv'
    BY <1>1, <2>1 DEF CancelInv, CancellationKnown
  <2>3. ASSUME NEW e \in Experiments PROVE CancelStep(e)
    <3>1. CASE e = c
      BY <1>1, <2>1, <3>1
      DEF CancelStep, Remembered, WasCancelled, At, CancellationKnown, CleanupStates,
          CancelledEnds
    <3>2. CASE e # c
      BY <1>1, <2>1, <3>2 DEF CancelStep, Remembered, WasCancelled, At
    <3> QED
      BY <3>1, <3>2
  <2> QED
    BY <2>2, <2>3
<1> QED
  BY <1>2, <1>3 DEF EnterCleanup

LEMMA MarkCancelledKeepsCancellation ==
    ASSUME IInv, CancelInv, NEW c \in Experiments, MarkCancelled(c)
    PROVE  CancelInv' /\ \A e \in Experiments : CancelStep(e)
<1>1. /\ pc = "mark_cancelled" /\ current = c
      /\ pc' = "restore" /\ current' = current /\ cancelled' = cancelled
      /\ cancelled /\ rows[c].state = "cleaning_up"
  BY DEF MarkCancelled, At, Goto, jobVars, CancelInv, CleanupLabels, IInv, ControlInv, JobInv
<1>2. /\ saved' = rows'
      /\ \A e \in Experiments : e # c => rows'[e] = rows[e]
      /\ rows'[c].state = rows[c].state /\ rows'[c].outcome = "cancelled_pending"
      /\ rows'[c].audit = rows[c].audit
  BY DEF MarkCancelled, Commit, Write, IInv, TypeOK, Row
<1>3. CancelInv'
  BY <1>1, <1>2 DEF CancelInv
<1>4. \A e \in Experiments : CancelStep(e)
  BY <1>1, <1>2 DEF CancelStep, Remembered, WasCancelled, At
<1> QED
  BY <1>3, <1>4

LEMMA VerdictKeepsCancellation ==
    ASSUME IInv, CancelInv, NEW c \in Experiments, Verdict(c)
    PROVE  CancelInv' /\ \A e \in Experiments : CancelStep(e)
<1>1. /\ pc = "verdict" /\ current = c /\ Return
      /\ rows[c].state = "verifying"
      /\ rows[c].outcome = "cancelled_pending" => cancelled
  BY DEF Verdict, At, CancelInv, CleanupLabels, IInv, ControlInv, JobInv
<1>2. /\ saved' = rows'
      /\ \A e \in Experiments : e # c => rows'[e] = rows[e]
      /\ rows'[c].state = FinalState /\ rows'[c].outcome = FinalState
      /\ rows'[c].audit = rows[c].audit \cup {FinalState}
  BY DEF Verdict, Commit, Write, Moved, IInv, TypeOK, Row
<1>3. pc' \notin CleanupLabels
  BY <1>1 DEF Return, Goto, CleanupLabels
<1>4. CancelInv'
  BY <1>2, <1>3 DEF CancelInv
<1>5. ASSUME NEW e \in Experiments PROVE CancelStep(e)
  <2>1. CASE e = c
    BY <1>1, <1>2, <2>1
    DEF CancelStep, Remembered, WasCancelled, At, FinalState, CancelledEnds
  <2>2. CASE e # c
    BY <1>1, <1>2, <2>2 DEF CancelStep, Remembered, WasCancelled, At
  <2> QED
    BY <2>1, <2>2
<1> QED
  BY <1>4, <1>5

LEMMA ScheduleKeepsCancellation ==
    ASSUME IInv, CancelInv, NEW c \in Experiments, Schedule(c)
    PROVE  CancelInv' /\ \A e \in Experiments : CancelStep(e)
<1>1. /\ rows[c].state = "absent" /\ rows[c].audit = {}
      /\ UNCHANGED <<pc, current, cancelled>>
  BY DEF Schedule, OperatorVars, jobVars, IInv, StoreInv, RowInv
<1>2. /\ saved' = rows'
      /\ \A e \in Experiments : e # c => rows'[e] = rows[e]
      /\ rows'[c].state = "planned" /\ rows'[c].outcome = "none"
      /\ rows'[c].audit = {"planned"}
  BY DEF Schedule, Commit, Write, Moved, NoRow, IInv, TypeOK
<1>3. CancelInv'
  <2>1. pc = "mark_cancelled" => current # c
    BY <1>1 DEF IInv, ControlInv, JobInv
  <2> QED
    BY <1>1, <1>2, <2>1 DEF CancelInv
<1>4. \A e \in Experiments : CancelStep(e)
  BY <1>1, <1>2 DEF CancelStep, Remembered, WasCancelled, At
<1> QED
  BY <1>3, <1>4

\* A crash throws away nothing of a cancellation that is committed.
LEMMA CrashKeepsCancellation ==
    ASSUME IInv, CancelInv, Crash
    PROVE  CancelInv' /\ \A e \in Experiments : CancelStep(e)
<1>1. /\ pc' = "down" /\ rows' = saved /\ saved' = saved
      /\ crashes' = crashes + 1 /\ crashes \in Nat
  BY SupervisorConstants DEF Crash, IInv, TypeOK
<1>2. ASSUME NEW e \in Experiments
      PROVE  /\ saved[e].outcome = rows[e].outcome
             /\ saved[e].state # rows[e].state =>
                   /\ saved[e].state \in {"planned", "cleaning_up"}
                   /\ rows[e].state \in {"preflight", "verifying"}
  BY AgreeFields DEF CancelInv, IInv, SessionInv, Uncommitted, Ahead
<1>3. CancelInv'
  BY <1>1, <1>2 DEF CancelInv, CleanupLabels
<1>4. ASSUME NEW e \in Experiments PROVE CancelStep(e)
  BY <1>1, <1>2 DEF CancelStep, Remembered, Forgets, At, CancelledEnds
<1> QED
  BY <1>3, <1>4

LEMMA CancellationStep ==
    ASSUME IInv, CancelInv, [Next]_vars
    PROVE  CancelInv' /\ \A e \in Experiments : CancelStep(e)
<1>1. CASE Ordinary
  BY <1>1, OrdinaryKeepsCancelInv, OrdinaryKeepsCancellation DEF CancelStep
<1> QED
  BY <1>1, MostStepsAreOrdinary, EnterCleanupKeepsCancellation,
     MarkCancelledKeepsCancellation, VerdictKeepsCancellation,
     ScheduleKeepsCancellation, CrashKeepsCancellation

LEMMA OnlyCrashesCount ==
    ASSUME [Next]_vars, ~Crash
    PROVE  crashes' = crashes
<1>1. CASE TickStep
  BY <1>1
  DEF TickStep, BeginTick, ReconcileNothing, ReadControls, ControlsDone, ClaimNothing,
      ApplyRequest, RefuseRequest, CompleteRequest, Processed, ReconcileInjecting,
      ReconcileCleanup, Claim, StaleClaimRaises, AgentOnly
<1>2. CASE \E e \in Experiments : CoordinatorStep(e)
  BY <1>2, Zenon
  DEF CoordinatorStep, Prepare, ScenarioPreflight, TargetPreflight, ObserveBefore,
      StartInjecting, Inject, SaveContext, VerifyActive, Activate, InjectionFailed,
      ExpireActive, ObserveDuring, EnterCleanup, MarkCancelled, Restore, RecordAttempt,
      CleanupExhausted, CleanupFailed, CleanupSucceeded, VerifyCleanup, ObserveAfter,
      Verdict, Release, AgentOnly
<1>3. CASE OperatorStep \/ TimeStep \/ TargetStep \/ Boot \/ UNCHANGED vars
  BY <1>3
  DEF OperatorStep, Schedule, RequestControl, OperatorVars, TimeStep, Elapse,
      LeaseRunsOut, TimeVars, TargetStep, Boot, AgentOnly, vars
<1> QED
  BY <1>1, <1>2, <1>3 DEF Next, AgentStep

LEMMA CancelInvInit == Init => CancelInv /\ RememberedInv
<1> SUFFICES ASSUME Init PROVE CancelInv /\ RememberedInv
  OBVIOUS
<1>1. \A e \in Experiments : rows[e] = NoRow /\ saved[e] = NoRow
  BY DEF Init
<1>2. NoRow.state = "absent" /\ NoRow.outcome = "none" /\ NoRow.audit = {}
  BY DEF NoRow
<1>3. pc = "idle"
  BY DEF Init
<1> QED
  BY <1>1, <1>2, <1>3 DEF CancelInv, RememberedInv, WasCancelled, CleanupLabels

\* What the row says of a cancellation and what _cleanup was called with agree
\* in every reachable state.
LEMMA CancelInvariant == Spec => [](IInv /\ CancelInv)
<1>1. IInv /\ CancelInv /\ [Next]_vars => CancelInv'
  BY CancellationStep
<1> QED
  BY <1>1, CancelInvInit, InductiveInvariant, PTL DEF Spec

\* Only a crash between the two commits of run_once and _cleanup makes the
\* agent forget a cancellation that is on record.
THEOREM CancellationIsForgottenOnce == Spec => CancellationSurvives
<1>1. IInv /\ CancelInv /\ [Next]_vars => [CancellationKept]_vars
  BY CancellationStep DEF CancellationKept, CancelStep, Forgets
<1> QED
  BY <1>1, CancelInvariant, PTL DEF Spec, CancellationSurvives

\* As long as the agent has not crashed, no cancelled experiment is reported as
\* passed: what CancelledNeverPasses has against the code is that crash alone.
THEOREM CancelledNeverPassesWithoutCrash ==
    Spec => [](crashes = 0 => CancelledNeverPasses)
<1>1. IInv /\ CancelInv /\ RememberedInv /\ [Next]_vars => RememberedInv'
  <2> SUFFICES ASSUME IInv, CancelInv, RememberedInv, [Next]_vars, crashes' = 0,
                      NEW e \in Experiments, WasCancelled(e)'
               PROVE  Remembered(e)'
    BY DEF RememberedInv
  <2>1. crashes = 0 /\ ~Crash
    <3>1. ~Crash
      BY SupervisorConstants DEF Crash, IInv, TypeOK
    <3> QED
      BY <3>1, OnlyCrashesCount
  <2> QED
    BY <2>1, CancellationStep DEF CancelStep, RememberedInv, Forgets
<1>2. IInv /\ CancelInv /\ RememberedInv => (crashes = 0 => CancelledNeverPasses)
  <2> SUFFICES ASSUME IInv, CancelInv, RememberedInv, crashes = 0,
                      NEW e \in Experiments, saved[e].state = "passed",
                      "cancellation_requested" \in saved[e].audit
               PROVE  FALSE
    BY DEF CancelledNeverPasses
  <2>1. rows[e].state = "passed" /\ WasCancelled(e)
    BY AgreeFields DEF IInv, SessionInv, Uncommitted, Ahead, WasCancelled
  <2>2. Remembered(e) /\ rows[e].outcome = "passed"
    BY <2>1 DEF RememberedInv, CancelInv
  <2> QED
    BY <2>1, <2>2 DEF Remembered, CancelledEnds, At, IInv, ControlInv, JobInv
<1> QED
  BY <1>1, <1>2, CancelInvInit, CancelInvariant, PTL DEF Spec

-----------------------------------------------------------------------------
(* The length of a tick *)

\* Either label has its stage; "run" has that of the row it is about.
LEMMA StageOf ==
    ASSUME IInv
    PROVE  /\ TickStage \in Nat
           /\ RunStage(rows[current].state) \in 9..19
           /\ \A e \in Experiments : RunStage(rows'[e].state) \in 9..19
<1>1. pc # "run" => LabelStage[pc] \in Nat
  BY DEF IInv, TypeOK, Labels, LabelStage
<1> QED
  BY <1>1 DEF TickStage, RunStage

\* Every step of the tick other than those that serve a request.
LEMMA StageFalls ==
    ASSUME IInv, AgentStep, pc' \notin {"run", "complete"}, reconciling' => reconciling,
           LabelStage[pc'] \in Nat,
           LabelStage[pc'] < (IF pc = "run" THEN RunStage(rows[current].state) ELSE LabelStage[pc])
    PROVE  TickAdvances /\ TickInv'
<1>1. TickStage' = LabelStage[pc'] + (IF reconciling' THEN 30 ELSE 0)
  BY DEF TickStage
<1>2. TickStage = (IF pc = "run" THEN RunStage(rows[current].state) ELSE LabelStage[pc])
                  + (IF reconciling THEN 30 ELSE 0)
  BY DEF TickStage
<1>3. (IF pc = "run" THEN RunStage(rows[current].state) ELSE LabelStage[pc]) \in Nat
  BY StageOf DEF IInv, TypeOK, Labels, LabelStage
<1>4. TickStage' < TickStage
  <2> HIDE DEF TickStage
  <2> QED
    BY <1>1, <1>2, <1>3
<1> QED
  BY <1>4 DEF TickAdvances, TickInv

LEMMA RunStageFalls ==
    ASSUME IInv, AgentStep, pc' = "run", NEW e \in Experiments, current' = e,
           rows'[e].state \in RunStates, reconciling' => reconciling \/ pc = "reconcile",
           \/ pc = "reconcile" /\ ~reconciling
           \/ pc # "reconcile" /\
              RunStage(rows'[e].state)
                < (IF pc = "run" THEN RunStage(rows[current].state) ELSE LabelStage[pc])
    PROVE  TickAdvances /\ TickInv'
<1>1. TickStage' = RunStage(rows'[e].state) + (IF reconciling' THEN 30 ELSE 0)
  BY DEF TickStage
<1>2. TickStage = (IF pc = "run" THEN RunStage(rows[current].state) ELSE LabelStage[pc])
                  + (IF reconciling THEN 30 ELSE 0)
  BY DEF TickStage
<1>3. (IF pc = "run" THEN RunStage(rows[current].state) ELSE LabelStage[pc]) \in Nat
  BY StageOf DEF IInv, TypeOK, Labels, LabelStage
<1>4. RunStage(rows'[e].state) \in 9..19 /\ (pc = "reconcile" => LabelStage[pc] = 50)
  BY StageOf DEF LabelStage
<1>5. TickStage' < TickStage
  <2> HIDE DEF TickStage
  <2> QED
    BY <1>1, <1>2, <1>3, <1>4
<1> QED
  BY <1>5 DEF TickAdvances, TickInv

LEMMA QuietTickAdvances ==
    ASSUME IInv, ReconcileNothing \/ ReadControls \/ ControlsDone \/ ClaimNothing
    PROVE  TickAdvances /\ TickInv'
<1>1. AgentStep
  BY DEF AgentStep, TickStep
<1>2. /\ pc \in {"reconcile", "read_controls", "controls", "claim"}
      /\ pc' \in {"read_controls", "controls", "claim", "idle"}
      /\ LabelStage[pc'] < LabelStage[pc] /\ LabelStage[pc'] \in Nat
      /\ UNCHANGED reconciling
  BY DEF ReconcileNothing, ReadControls, ControlsDone, ClaimNothing, Goto, jobVars, LabelStage
<1> QED
  BY <1>1, <1>2, StageFalls

LEMMA RequestAdvances ==
    ASSUME IInv, TickInv, NEW r \in Requests,
           ApplyRequest(r) \/ RefuseRequest(r) \/ CompleteRequest(r)
    PROVE  TickAdvances /\ TickInv'
<1>1. AgentStep
  BY DEF AgentStep, TickStep
<1>2. CASE ApplyRequest(r)
  <2>1. /\ pc = "controls" /\ pc' = "complete" /\ UNCHANGED reconciling
        /\ serving' \subseteq batch'
    BY <1>2 DEF ApplyRequest, jobVars
  <2>2. TickStage' < TickStage
    BY <2>1 DEF TickStage, LabelStage
  <2> QED
    BY <1>1, <2>1, <2>2 DEF TickAdvances, TickInv
<1>3. CASE RefuseRequest(r)
  <2>1. pc = "controls" /\ pc' = "idle" /\ UNCHANGED reconciling
    BY <1>3 DEF RefuseRequest, jobVars
  <2>2. LabelStage[pc'] \in Nat /\ LabelStage[pc'] < LabelStage[pc]
    BY <2>1 DEF LabelStage
  <2> QED
    BY <1>1, <2>1, <2>2, StageFalls
<1>4. CASE CompleteRequest(r)
  <2>1. pc \in {"controls", "complete"} /\ pc' = "controls" /\ r \in batch
    BY <1>4 DEF CompleteRequest, Processed, TickInv
  <2>2. batch' = batch \ {r}
    BY <1>4 DEF CompleteRequest, Processed
  <2> QED
    BY <1>1, <2>1, <2>2 DEF TickAdvances, TickInv
<1> QED
  BY <1>2, <1>3, <1>4

LEMMA BeginAdvances ==
    ASSUME BeginTick
    PROVE  TickAdvances /\ TickInv'
BY DEF BeginTick, Goto, TickAdvances, TickInv, AgentStep, TickStep

\* reconcile and the claim hand a row to the coordinator.
LEMMA HandOverAdvances ==
    ASSUME IInv, NEW e \in Experiments,
           \/ ReconcileInjecting(e) \/ ReconcileCleanup(e)
           \/ Claim(e) \/ StaleClaimRaises(e)
    PROVE  TickAdvances /\ TickInv'
<1>1. AgentStep
  BY DEF AgentStep, TickStep
<1>2. rows[e] \in Row /\ \A row \in Row : Write(e, row)[e] = row
  BY DEF IInv, TypeOK, Write
<1>3. pc \in {"reconcile", "claim"} => ~reconciling
  BY DEF IInv, ControlInv, CoordinatorLabels, SupervisorConstants
<1>4. CASE ReconcileInjecting(e)
  <2>1. Moved(rows[e], "cleaning_up") \in Row
        /\ Moved(rows[e], "cleaning_up").state = "cleaning_up"
    BY <1>2 DEF Moved, Row, ExperimentState
  <2>2. rows'[e].state \in RunStates
    BY <1>2, <1>4, <2>1 DEF ReconcileInjecting, Commit, RunStates, ClaimableStates
  <2> QED
    BY <1>1, <1>3, <1>4, <2>2, RunStageFalls DEF ReconcileInjecting
<1>5. CASE ReconcileCleanup(e)
  <2>1. rows'[e].state \in RunStates
    BY <1>5 DEF ReconcileCleanup, storeVars, RunStates, ClaimableStates, CleanupStates
  <2> QED
    BY <1>1, <1>3, <1>5, <2>1, RunStageFalls DEF ReconcileCleanup
<1>6. CASE Claim(e)
  <2>1. [rows[e] EXCEPT !.lease = "held"] \in Row
        /\ [rows[e] EXCEPT !.lease = "held"].state = rows[e].state
    BY <1>2 DEF Row, Leases
  <2>2. rows'[e].state \in RunStates
    BY <1>2, <1>6, <2>1 DEF Claim, Claimable, Commit, RunStates
  <2>3. LabelStage["claim"] = 20 /\ RunStage(rows'[e].state) < 20
    BY StageOf DEF LabelStage
  <2> QED
    BY <1>1, <1>6, <2>2, <2>3, RunStageFalls DEF Claim
<1>7. CASE StaleClaimRaises(e)
  <2>1. pc = "claim" /\ pc' = "idle" /\ UNCHANGED reconciling
    BY <1>7 DEF StaleClaimRaises, Goto, jobVars
  <2>2. LabelStage[pc'] \in Nat /\ LabelStage[pc'] < LabelStage[pc]
    BY <2>1 DEF LabelStage
  <2> QED
    BY <1>1, <2>1, <2>2, StageFalls
<1> QED
  BY <1>4, <1>5, <1>6, <1>7

\* The coordinator returns to the tick, or to reconcile() and so to the rest of
\* the tick, or it raises.
LEMMA ReturnAdvances ==
    ASSUME IInv, AgentStep, pc \in CoordinatorLabels \ {"release"}, Return \/ Raise
    PROVE  TickAdvances /\ TickInv'
<1>1. (IF pc = "run" THEN RunStage(rows[current].state) ELSE LabelStage[pc]) \in Nat \ {0, 1}
  BY StageOf DEF CoordinatorLabels, LabelStage
<1>2. CASE reconciling
  <2>1. pc' \in {"read_controls", "idle"} /\ ~reconciling'
    BY <1>2 DEF Return, Raise, IdleJob
  <2>2. TickStage' <= 23 /\ TickStage' \in Nat
    BY <2>1 DEF TickStage, LabelStage
  <2>3. TickStage >= 30 /\ TickStage \in Nat
    BY <1>1, <1>2 DEF TickStage
  <2>4. TickStage' < TickStage
    BY <2>2, <2>3
  <2> QED
    BY <2>1, <2>4 DEF TickAdvances, TickInv
<1>3. CASE ~reconciling
  <2>1. pc' = "release" /\ ~reconciling'
    BY <1>3 DEF Return, Raise, Goto, jobVars
  <2>2. LabelStage[pc'] = 1
    BY <2>1 DEF LabelStage
  <2> QED
    BY <1>1, <2>1, <2>2, StageFalls
<1> QED
  BY <1>2, <1>3

LEMMA PreparationAdvances ==
    ASSUME IInv, TickInv, NEW e \in Experiments,
           \/ Prepare(e) \/ ScenarioPreflight(e) \/ TargetPreflight(e)
           \/ ObserveBefore(e) \/ StartInjecting(e)
    PROVE  TickAdvances /\ TickInv'
<1>1. AgentStep
  BY DEF AgentStep, CoordinatorStep
<1>2. rows[e] \in Row /\ \A row \in Row : Write(e, row)[e] = row
  BY DEF IInv, TypeOK, Write
<1>3. CASE Return \/ Raise
  BY <1>1, <1>3, ReturnAdvances
  DEF Prepare, ScenarioPreflight, TargetPreflight, ObserveBefore, StartInjecting, At,
      CoordinatorLabels
<1>4. CASE Prepare(e) /\ Goto("scenario_preflight")
  <2>1. pc = "run" /\ pc' = "scenario_preflight" /\ UNCHANGED reconciling
        /\ RunStage(rows[current].state) = 19
    BY <1>4 DEF Prepare, Goto, jobVars, At, RunStage
  <2>2. LabelStage[pc'] = 18
    BY <2>1 DEF LabelStage
  <2> QED
    BY <1>1, <2>1, <2>2, StageFalls
<1>5. CASE \/ ScenarioPreflight(e) /\ Goto("target_preflight")
           \/ TargetPreflight(e) /\ Goto("observe_before")
           \/ ObserveBefore(e)
  <2>1. \/ pc = "scenario_preflight" /\ Goto("target_preflight")
        \/ pc = "target_preflight" /\ Goto("observe_before")
        \/ pc = "observe_before" /\ Goto("start_injecting")
    BY <1>5 DEF ScenarioPreflight, TargetPreflight, ObserveBefore, At
  <2>2. /\ pc # "run" /\ pc' \notin {"run", "complete"} /\ UNCHANGED reconciling
        /\ LabelStage[pc'] \in Nat /\ LabelStage[pc'] < LabelStage[pc]
    BY <2>1 DEF Goto, jobVars, LabelStage
  <2> QED
    BY <1>1, <2>2, StageFalls
<1>6. CASE StartInjecting(e)
  <2>1. Moved(rows[e], "injecting") \in Row /\ Moved(rows[e], "injecting").state = "injecting"
    BY <1>2 DEF Moved, Row, ExperimentState
  <2>2. rows'[e].state = "injecting"
    BY <1>2, <1>6, <2>1 DEF StartInjecting, Commit
  <2>3. /\ pc = "start_injecting" /\ pc' = "run" /\ current' = e /\ UNCHANGED reconciling
        /\ RunStage(rows'[e].state) = 14 /\ LabelStage[pc] = 15
        /\ rows'[e].state \in RunStates
    BY <1>6, <2>2 DEF StartInjecting, Goto, jobVars, At, RunStage, LabelStage, RunStates
  <2> QED
    BY <1>1, <2>3, RunStageFalls
<1>7. Prepare(e) => Raise \/ Goto("scenario_preflight")
  BY DEF Prepare
<1>8. ScenarioPreflight(e) => Return \/ Raise \/ Goto("target_preflight")
  BY DEF ScenarioPreflight, StatusReplies, RefusePreflight
<1>9. TargetPreflight(e) => Return \/ Raise \/ Goto("observe_before")
  BY DEF TargetPreflight, RefusePreflight
<1> QED
  BY <1>3, <1>4, <1>5, <1>6, <1>7, <1>8, <1>9

LEMMA InjectionAdvances ==
    ASSUME IInv, TickInv, NEW e \in Experiments,
           \/ Inject(e) \/ SaveContext(e) \/ VerifyActive(e) \/ Activate(e)
           \/ InjectionFailed(e) \/ ExpireActive(e) \/ ObserveDuring(e)
    PROVE  TickAdvances /\ TickInv'
<1>1. AgentStep
  BY DEF AgentStep, CoordinatorStep
<1>2. rows[e] \in Row /\ \A row \in Row : Write(e, row)[e] = row
  BY DEF IInv, TypeOK, Write
<1>3. CASE ObserveDuring(e)
  BY <1>1, <1>3, ReturnAdvances DEF ObserveDuring, At, CoordinatorLabels
<1>4. CASE Inject(e)
  <2>1. pc = "run" /\ pc' \in {"save_context", "injection_failed"} /\ UNCHANGED reconciling
        /\ RunStage(rows[current].state) = 14
    BY <1>4 DEF Inject, Goto, jobVars, At, RunStage
  <2>2. LabelStage[pc'] \in Nat /\ LabelStage[pc'] < 14
    BY <2>1 DEF LabelStage
  <2> QED
    BY <1>1, <2>1, <2>2, StageFalls
<1>5. CASE SaveContext(e) \/ VerifyActive(e)
  <2>1. /\ pc # "run" /\ pc' \in {"verify_active", "activate", "injection_failed"}
        /\ UNCHANGED reconciling
        /\ LabelStage[pc'] \in Nat /\ LabelStage[pc'] < LabelStage[pc]
    BY <1>5 DEF SaveContext, VerifyActive, Goto, jobVars, At, LabelStage
  <2> QED
    BY <1>1, <2>1, StageFalls
<1>6. CASE Activate(e) \/ InjectionFailed(e) \/ ExpireActive(e)
  <2>1. PICK state \in {"active", "cleaning_up", "expired"} :
           /\ rows' = Write(e, Moved(rows[e], state))
           /\ pc' = "run" /\ current' = e /\ UNCHANGED reconciling
           /\ \/ pc \in {"activate", "injection_failed"}
              \/ pc = "run" /\ current = e /\ rows[e].state = "active" /\ state = "expired"
    BY <1>6 DEF Activate, InjectionFailed, ExpireActive, Commit, Goto, jobVars, At
  <2>2. Moved(rows[e], state) \in Row /\ Moved(rows[e], state).state = state
    BY <1>2 DEF Moved, Row, ExperimentState
  <2>3. rows'[e].state = state /\ state \in RunStates
    BY <1>2, <2>1, <2>2 DEF RunStates, ClaimableStates
  <2>4. RunStage(rows'[e].state)
           < (IF pc = "run" THEN RunStage(rows[current].state) ELSE LabelStage[pc])
    BY <2>1, <2>3 DEF RunStage, LabelStage
  <2>5. pc # "reconcile"
    BY <2>1
  <2> QED
    BY <1>1, <2>1, <2>3, <2>4, <2>5, RunStageFalls
<1> QED
  BY <1>3, <1>4, <1>5, <1>6

LEMMA CleanupAdvances ==
    ASSUME IInv, TickInv, NEW e \in Experiments,
           \/ EnterCleanup(e) \/ MarkCancelled(e) \/ Restore(e) \/ RecordAttempt(e)
           \/ CleanupExhausted(e) \/ CleanupFailed(e) \/ CleanupSucceeded(e)
           \/ VerifyCleanup(e) \/ ObserveAfter(e) \/ Verdict(e) \/ Release(e)
    PROVE  TickAdvances /\ TickInv'
<1>1. AgentStep
  BY DEF AgentStep, CoordinatorStep
<1>2. CASE CleanupExhausted(e) \/ CleanupFailed(e) \/ Verdict(e)
  BY <1>1, <1>2, ReturnAdvances
  DEF CleanupExhausted, CleanupFailed, Verdict, At, CoordinatorLabels
<1>3. CASE EnterCleanup(e)
  <2>1. pc = "run" /\ pc' \in {"mark_cancelled", "restore"} /\ UNCHANGED reconciling
        /\ RunStage(rows[current].state) = 9
    BY <1>3 DEF EnterCleanup, At, RunStage, CleanupStates
  <2>2. LabelStage[pc'] \in Nat /\ LabelStage[pc'] < 9
    BY <2>1 DEF LabelStage
  <2> QED
    BY <1>1, <2>1, <2>2, StageFalls
<1>4. CASE Restore(e) \/ VerifyCleanup(e)
  <2>1. /\ pc # "run" /\ pc' \in {"record_attempt", "observe_after"}
        /\ UNCHANGED reconciling
        /\ LabelStage[pc'] \in Nat /\ LabelStage[pc'] < LabelStage[pc]
    BY <1>4 DEF Restore, VerifyCleanup, SetOk, At, LabelStage
  <2> QED
    BY <1>1, <2>1, StageFalls
<1>5. CASE MarkCancelled(e) \/ RecordAttempt(e) \/ CleanupSucceeded(e) \/ ObserveAfter(e)
  <2>1. /\ pc # "run" /\ pc' \in {"restore", "conclude", "verify_cleanup", "verdict"}
        /\ UNCHANGED reconciling
        /\ LabelStage[pc'] \in Nat /\ LabelStage[pc'] < LabelStage[pc]
    BY <1>5 DEF MarkCancelled, RecordAttempt, CleanupSucceeded, ObserveAfter, Goto, jobVars, At,
       LabelStage
  <2> QED
    BY <1>1, <2>1, StageFalls
<1>6. CASE Release(e)
  <2>1. pc = "release" /\ pc' = "idle" /\ ~reconciling'
    BY <1>6 DEF Release, IdleJob, At
  <2>2. LabelStage[pc'] = 0 /\ LabelStage[pc] = 1
    BY <2>1 DEF LabelStage
  <2> QED
    BY <1>1, <2>1, <2>2, StageFalls
<1> QED
  BY <1>2, <1>3, <1>4, <1>5, <1>6

LEMMA AgentAdvances ==
    ASSUME IInv, TickInv, AgentStep
    PROVE  TickAdvances /\ TickInv'
<1>1. CASE TickStep
  BY <1>1, BeginAdvances, QuietTickAdvances, RequestAdvances, HandOverAdvances DEF TickStep
<1>2. ASSUME NEW e \in Experiments, CoordinatorStep(e) PROVE TickAdvances /\ TickInv'
  BY <1>2, PreparationAdvances, InjectionAdvances, CleanupAdvances DEF CoordinatorStep
<1> QED
  BY <1>1, <1>2 DEF AgentStep

\* Nobody else sends a tick back: the row at hand keeps its state.
LEMMA SurroundingsKeepTick ==
    ASSUME IInv, TickInv,
           OperatorStep \/ TimeStep \/ TargetStep \/ Crash \/ Boot \/ UNCHANGED vars
    PROVE  TickStage' <= TickStage /\ batch' \subseteq batch /\ TickInv'
<1>1. CASE Crash \/ Boot
  <2>1. pc' \in {"down", "idle"} /\ batch' \subseteq batch /\ ~reconciling'
    BY <1>1 DEF Crash, Boot, IdleJob, Goto, jobVars, tickVars, IInv, ControlInv,
       CoordinatorLabels, SupervisorConstants
  <2>2. TickStage' <= TickStage
    BY <2>1, StageOf DEF TickStage, LabelStage
  <2> QED
    BY <2>1, <2>2 DEF TickInv
<1>2. ASSUME UNCHANGED <<pc, jobVars, tickVars>>,
             pc = "run" => rows'[current].state = rows[current].state
      PROVE  TickStage' <= TickStage /\ batch' \subseteq batch /\ TickInv'
  <2>1. TickStage' = TickStage
    BY <1>2 DEF TickStage, jobVars
  <2> QED
    BY <1>2, <2>1, StageOf DEF TickInv, jobVars, tickVars
<1>3. CASE \E e \in Experiments : Schedule(e)
  <2>1. PICK e \in Experiments : Schedule(e)
    BY <1>3
  <2>2. pc = "run" => current # e
    BY <2>1 DEF Schedule, TickInv, RunStates, ClaimableStates
  <2>3. pc = "run" => rows'[current].state = rows[current].state
    BY <2>1, <2>2 DEF Schedule, Commit, Write, IInv, TypeOK, TickInv
  <2> QED
    BY <1>2, <2>1, <2>3 DEF Schedule, OperatorVars
<1>4. CASE \E e \in Experiments : LeaseRunsOut(e)
  <2>1. PICK e \in Experiments : LeaseRunsOut(e)
    BY <1>4
  <2>2. pc = "run" => rows'[current].state = rows[current].state
    BY <2>1 DEF LeaseRunsOut, Write, IInv, TypeOK, TickInv
  <2> QED
    BY <1>2, <2>1, <2>2 DEF LeaseRunsOut, TimeVars
<1>5. CASE \/ \E r \in Requests : RequestControl(r)
           \/ \E e \in Experiments : Elapse(e)
           \/ TargetStep \/ UNCHANGED vars
  <2>1. UNCHANGED <<rows, pc, jobVars, tickVars>>
    BY <1>5 DEF RequestControl, OperatorVars, Elapse, TimeVars, TargetStep, storeVars, vars
  <2> QED
    BY <1>2, <2>1
<1> QED
  BY <1>1, <1>3, <1>4, <1>5 DEF OperatorStep, TimeStep

LEMMA TickInvInit == Init => TickInv
  BY DEF Init, TickInv

LEMMA TickAdvancesStep ==
    ASSUME IInv, TickInv, [Next]_vars
    PROVE  TickAdvances /\ TickInv'
<1>1. CASE AgentStep
  BY <1>1, AgentAdvances
<1>2. CASE ~AgentStep
  BY <1>2, SurroundingsKeepTick DEF Next, TickAdvances
<1> QED
  BY <1>1, <1>2

\* Each tick of the agent is bounded, whatever goes on around it.
THEOREM TicksComeToAnEnd == Spec => TicksAdvance
<1>1. IInv /\ TickInv /\ [Next]_vars => [TickAdvances]_vars /\ TickInv'
  BY TickAdvancesStep
<1> QED
  BY <1>1, TickInvInit, InductiveInvariant, PTL DEF Spec, TicksAdvance

(* The write lock *)

LEMMA LockInvInit == Init => LockInv
  BY DEF Init, NoRow, LockInv, WriteLockIsAccounted, LeaseInv, StartInv

\* What all steps but those on leases do: the session's leases stay what they are,
\* and the rows are committed or the database is left alone.
LeasesStay ==
    /\ \A e \in Experiments : rows'[e].lease = rows[e].lease
    /\ saved' = rows' \/ saved' = saved

\* The job goes on, begins, or ends without the claim of a tick.
JobStays ==
    \/ current' = current /\ reconciling' = reconciling
    \/ current = None
    \/ reconciling

LEMMA FieldsKeepLease ==
    ASSUME NEW row \in Row, NEW value
    PROVE  /\ Moved(row, value).lease = row.lease
           /\ [Moved(row, value) EXCEPT !.outcome = value].lease = row.lease
           /\ [row EXCEPT !.before = value].lease = row.lease
           /\ [row EXCEPT !.after = value].lease = row.lease
           /\ [row EXCEPT !.context = value].lease = row.lease
           /\ [row EXCEPT !.attempts = value].lease = row.lease
           /\ [row EXCEPT !.outcome = value].lease = row.lease
  BY DEF Moved, Row

LEMMA WriteKeepsLeases ==
    ASSUME TypeOK, NEW e \in Experiments, NEW row, row.lease = rows[e].lease,
           Commit(Write(e, row)) \/ Flush(Write(e, row))
    PROVE  LeasesStay
  BY DEF Write, TypeOK, Commit, Flush, LeasesStay

LEMMA MoveKeepsLeases ==
    ASSUME TypeOK, NEW e \in Experiments, NEW s,
           Commit(Write(e, Moved(rows[e], s))) \/ Flush(Write(e, Moved(rows[e], s)))
    PROVE  LeasesStay
<1>1. Moved(rows[e], s).lease = rows[e].lease
  BY FieldsKeepLease DEF TypeOK
<1> QED
  BY <1>1, WriteKeepsLeases

LEMMA StayingKeepsLeaseInv ==
    ASSUME TypeOK, LeaseInv, LeasesStay, JobStays, crashes' = crashes
    PROVE  LeaseInv'
  BY SupervisorConstants DEF LeaseInv, LeasesStay, JobStays

LEMMA CoordinatorKeepsLeases ==
    ASSUME TypeOK, NEW e \in Experiments, CoordinatorStep(e), ~Release(e)
    PROVE  LeasesStay
<1>1. rows[e] \in Row
  BY DEF TypeOK
<1>2. ASSUME UNCHANGED storeVars \/ Commit(rows) PROVE LeasesStay
  BY <1>2 DEF storeVars, Commit, LeasesStay
<1>3. CASE \/ Prepare(e) \/ ScenarioPreflight(e) \/ TargetPreflight(e) \/ StartInjecting(e)
  BY <1>2, <1>3, MoveKeepsLeases
  DEF Prepare, ScenarioPreflight, StatusReplies, TargetPreflight, RefusePreflight,
      StartInjecting
<1>4. CASE ObserveBefore(e)
  <2>1. PICK seen : Commit(Write(e, [rows[e] EXCEPT !.before = seen]))
    BY <1>4 DEF ObserveBefore
  <2> QED
    BY <1>1, <2>1, FieldsKeepLease, WriteKeepsLeases
<1>5. CASE \/ Inject(e) \/ VerifyActive(e) \/ Activate(e) \/ InjectionFailed(e)
           \/ ExpireActive(e) \/ ObserveDuring(e)
  BY <1>2, <1>5, MoveKeepsLeases
  DEF Inject, VerifyActive, Activate, InjectionFailed, ExpireActive, ObserveDuring
<1>6. CASE SaveContext(e)
  BY <1>1, <1>6, FieldsKeepLease, WriteKeepsLeases DEF SaveContext
<1>7. CASE EnterCleanup(e) \/ Restore(e)
  BY <1>2, <1>7, MoveKeepsLeases DEF EnterCleanup, Restore
<1>8. CASE MarkCancelled(e)
  BY <1>1, <1>8, FieldsKeepLease, WriteKeepsLeases DEF MarkCancelled
<1>9. CASE RecordAttempt(e)
  <2>1. PICK number : Commit(Write(e, [rows[e] EXCEPT !.attempts = number]))
    BY <1>9 DEF RecordAttempt
  <2> QED
    BY <1>1, <2>1, FieldsKeepLease, WriteKeepsLeases
<1>10. CASE \/ CleanupExhausted(e) \/ CleanupFailed(e) \/ CleanupSucceeded(e)
            \/ VerifyCleanup(e)
  BY <1>2, <1>10, MoveKeepsLeases
  DEF CleanupExhausted, CleanupFailed, CleanupSucceeded, VerifyCleanup
<1>11. CASE ObserveAfter(e)
  <2>1. PICK seen : Commit(Write(e, [rows[e] EXCEPT !.after = seen]))
    BY <1>11 DEF ObserveAfter
  <2> QED
    BY <1>1, <2>1, FieldsKeepLease, WriteKeepsLeases
<1>12. CASE Verdict(e)
  <2>1. PICK s : Commit(Write(e, [Moved(rows[e], s) EXCEPT !.outcome = s]))
    BY <1>12 DEF Verdict
  <2> QED
    BY <1>1, <2>1, FieldsKeepLease, WriteKeepsLeases
<1> QED
  BY <1>3, <1>4, <1>5, <1>6, <1>7, <1>8, <1>9, <1>10, <1>11, <1>12 DEF CoordinatorStep

LEMMA CoordinatorKeepsJob ==
    ASSUME NEW e \in Experiments, CoordinatorStep(e), ~Release(e)
    PROVE  JobStays
<1>1. ASSUME NEW label, Goto(label) \/ \E value \in BOOLEAN : SetOk(label, value)
      PROVE  JobStays
  BY <1>1 DEF Goto, SetOk, jobVars, JobStays
<1>2. ASSUME Return \/ Raise PROVE JobStays
  BY <1>1, <1>2 DEF Return, Raise, JobStays
<1>3. CASE EnterCleanup(e)
  BY <1>3 DEF EnterCleanup, JobStays
<1>4. CASE \/ Prepare(e) \/ ScenarioPreflight(e) \/ TargetPreflight(e) \/ ObserveBefore(e)
           \/ StartInjecting(e) \/ Inject(e) \/ SaveContext(e) \/ VerifyActive(e)
           \/ Activate(e) \/ InjectionFailed(e) \/ ExpireActive(e) \/ ObserveDuring(e)
  BY <1>1, <1>2, <1>4
  DEF Prepare, ScenarioPreflight, StatusReplies, TargetPreflight, RefusePreflight,
      ObserveBefore, StartInjecting, Inject, SaveContext, VerifyActive, Activate,
      InjectionFailed, ExpireActive, ObserveDuring
<1>5. CASE \/ MarkCancelled(e) \/ Restore(e) \/ RecordAttempt(e) \/ CleanupExhausted(e)
           \/ CleanupFailed(e) \/ CleanupSucceeded(e) \/ VerifyCleanup(e)
           \/ ObserveAfter(e) \/ Verdict(e)
  BY <1>1, <1>2, <1>5
  DEF MarkCancelled, Restore, RecordAttempt, CleanupExhausted, CleanupFailed,
      CleanupSucceeded, VerifyCleanup, ObserveAfter, Verdict
<1> QED
  BY <1>3, <1>4, <1>5 DEF CoordinatorStep

LEMMA LeaseTickKeeps ==
    ASSUME IInv, LockInv, TickStep, crashes' = crashes
    PROVE  LeaseInv'
<1>1. TypeOK /\ LeaseInv /\ current = None
  BY SupervisorConstants
  DEF TickStep, BeginTick, ReconcileNothing, ReadControls, ControlsDone, ClaimNothing,
      ApplyRequest, RefuseRequest, CompleteRequest, ReconcileInjecting, ReconcileCleanup,
      Claim, StaleClaimRaises, LockInv, IInv, TypeOK, ControlInv, CoordinatorLabels
<1>2. ~reconciling
  BY <1>1, SupervisorConstants DEF IInv, ControlInv
<1>3. ASSUME LeasesStay PROVE LeaseInv'
  BY <1>1, <1>3, StayingKeepsLeaseInv DEF JobStays
<1>4. CASE \/ BeginTick \/ ReconcileNothing \/ ReadControls \/ ControlsDone \/ ClaimNothing
           \/ \E r \in Requests : RefuseRequest(r) \/ CompleteRequest(r)
           \/ \E e \in Experiments : ReconcileCleanup(e)
  BY <1>3, <1>4
  DEF BeginTick, ReconcileNothing, ReadControls, ControlsDone, ClaimNothing, RefuseRequest,
      CompleteRequest, Processed, ReconcileCleanup, Commit, storeVars, LeasesStay
<1>5. CASE \/ \E r \in Requests : ApplyRequest(r)
           \/ \E e \in Experiments : ReconcileInjecting(e)
  BY <1>1, <1>3, <1>5, MoveKeepsLeases DEF ApplyRequest, ReconcileInjecting, Requests
<1>6. ASSUME NEW e \in Experiments, Claim(e) \/ StaleClaimRaises(e) PROVE LeaseInv'
  <2>1. /\ \A f \in Experiments : rows'[f].lease = IF f = e THEN "held" ELSE rows[f].lease
        /\ saved' = rows' \/ (saved' = saved /\ rows[e].lease = "run_out")
    BY <1>1, <1>6 DEF Claim, StaleClaimRaises, Commit, Flush, Write, TypeOK, Row
  <2>2. CASE Claim(e)
    <3>1. current' = e /\ reconciling' = FALSE /\ saved' = rows'
      BY <1>2, <2>2 DEF Claim, Commit
    <3> QED
      BY <1>1, <2>1, <3>1, SupervisorConstants DEF LeaseInv
  <2>3. CASE StaleClaimRaises(e)
    <3>1. crashes # 0
      BY <1>1, <2>3 DEF StaleClaimRaises, LeaseInv
    <3> QED
      BY <1>1, <2>1, <3>1 DEF LeaseInv
  <2> QED
    BY <1>6, <2>2, <2>3
<1> QED
  BY <1>4, <1>5, <1>6 DEF TickStep

LEMMA LeaseStep ==
    ASSUME IInv, LockInv, [Next]_vars
    PROVE  LeaseInv'
<1>1. TypeOK /\ LeaseInv
  BY DEF IInv, LockInv
<1>2. CASE Crash
  <2>1. crashes' # 0
    BY <1>1, <1>2 DEF Crash, TypeOK
  <2> QED
    BY <1>2, <2>1 DEF Crash, LeaseInv
<1>3. ASSUME ~Crash PROVE crashes' = crashes
  BY <1>3, OnlyCrashesCount
<1>4. CASE ~Crash /\ TickStep
  BY <1>3, <1>4, LeaseTickKeeps
<1>5. ASSUME ~Crash, NEW e \in Experiments, CoordinatorStep(e) PROVE LeaseInv'
  <2>1. CASE Release(e)
    <3>1. /\ \A f \in Experiments : rows'[f].lease = IF f = e THEN "none" ELSE rows[f].lease
          /\ saved' = rows' /\ current = e
      BY <1>1, <2>1 DEF Release, At, Commit, Write, TypeOK, Row
    <3> QED
      BY <1>1, <1>3, <1>5, <3>1 DEF LeaseInv
  <2>2. CASE ~Release(e)
    BY <1>1, <1>3, <1>5, <2>2, CoordinatorKeepsLeases, CoordinatorKeepsJob,
       StayingKeepsLeaseInv
  <2> QED
    BY <2>1, <2>2
<1>6. ASSUME NEW e \in Experiments, Schedule(e) PROVE LeaseInv'
  <2>1. /\ \A f \in Experiments : rows'[f].lease = IF f = e THEN "none" ELSE rows[f].lease
        /\ saved' = rows'
    BY <1>1, <1>6 DEF Schedule, Commit, Write, Moved, NoRow, TypeOK
  <2>2. UNCHANGED <<current, reconciling, crashes>>
    BY <1>6 DEF Schedule, OperatorVars, jobVars
  <2> QED
    BY <1>1, <2>1, <2>2 DEF LeaseInv
<1>7. ASSUME NEW e \in Experiments, LeaseRunsOut(e) PROVE LeaseInv'
  <2>1. /\ \A f \in Experiments : rows'[f].lease = IF f = e THEN "run_out" ELSE rows[f].lease
        /\ \A f \in Experiments : saved'[f].lease = IF f = e THEN "run_out" ELSE saved[f].lease
        /\ rows[e].lease = "held" /\ current # e
    BY <1>1, <1>7 DEF LeaseRunsOut, Write, TypeOK, Row
  <2>2. UNCHANGED <<current, reconciling, crashes>>
    BY <1>7 DEF LeaseRunsOut, TimeVars, jobVars
  <2> QED
    BY <1>1, <2>1, <2>2 DEF LeaseInv
<1>8. CASE \/ \E r \in Requests : RequestControl(r)
           \/ \E e \in Experiments : Elapse(e)
           \/ TargetStep \/ Boot \/ UNCHANGED vars
  <2>1. UNCHANGED <<rows, saved, current, reconciling, crashes>>
    BY <1>8 DEF RequestControl, OperatorVars, Elapse, TimeVars, TargetStep, Boot, Goto,
       AgentOnly, storeVars, jobVars, vars
  <2> QED
    BY <1>1, <2>1 DEF LeaseInv
<1> QED
  BY <1>2, <1>4, <1>5, <1>6, <1>7, <1>8 DEF Next, AgentStep, OperatorStep, TimeStep

\* The steps of a tick find the lock as a claim has left it, or commit.
LEMMA LockTick ==
    ASSUME IInv, LockInv, TickStep
    PROVE  WriteLockIsAccounted' /\ StartInv'
<1>1. StartInv /\ WriteLockIsAccounted
  BY DEF LockInv
<1>2. ASSUME NEW e \in Experiments, StaleClaimRaises(e)
      PROVE  WriteLockIsAccounted' /\ StartInv'
  <2>1. pc = "claim" /\ pc' = "idle" /\ reconciled' = reconciled
    BY <1>2 DEF StaleClaimRaises, Goto, tickVars
  <2>2. crashes > 0 /\ saved[e].lease = "run_out"
    BY <1>2 DEF StaleClaimRaises, LockInv, LeaseInv, IInv, TypeOK
  <2>3. saved[e].state \in ClaimableStates
    <3>1. Agrees(e)
      BY <2>1, SupervisorConstants
      DEF IInv, SessionInv, Uncommitted, ControlInv, CoordinatorLabels
    <3> QED
      BY <1>2, <3>1, AgreeFields DEF StaleClaimRaises, Claimable, IInv
  <2>4. saved' = saved /\ crashes' = crashes
    BY <1>2 DEF StaleClaimRaises, Flush, AgentOnly
  <2> QED
    BY <1>1, <2>1, <2>2, <2>3, <2>4 DEF WriteLockIsAccounted, StartInv, ClaimMayRaise
<1>3. CASE \/ \E r \in Requests : ApplyRequest(r) \/ CompleteRequest(r)
           \/ \E e \in Experiments : ReconcileInjecting(e) \/ Claim(e)
  <2>1. ~writing' /\ pc' \in {"complete", "controls", "run"}
    BY <1>3
    DEF ApplyRequest, CompleteRequest, Processed, ReconcileInjecting, Claim, Commit
  <2>2. pc' # "run" => pc \in {"controls", "complete"} /\ reconciled' = reconciled
    BY <1>3
    DEF ApplyRequest, CompleteRequest, Processed, ReconcileInjecting, Claim, tickVars
  <2> QED
    BY <1>1, <2>1, <2>2 DEF WriteLockIsAccounted, StartInv
<1>4. CASE \/ BeginTick \/ ReconcileNothing \/ ReadControls \/ ControlsDone \/ ClaimNothing
           \/ \E r \in Requests : RefuseRequest(r)
           \/ \E e \in Experiments : ReconcileCleanup(e)
  <2>1. UNCHANGED <<saved, writing, crashes>>
    BY <1>4
    DEF BeginTick, ReconcileNothing, ReadControls, ControlsDone, ClaimNothing, RefuseRequest,
        ReconcileCleanup, AgentOnly, storeVars
  <2>2. \/ pc = "reconcile" /\ ~writing
        \/ /\ pc \in {"idle", "read_controls", "controls", "claim"}
           /\ pc' \in {"idle", "reconcile", "read_controls", "controls", "claim"}
           /\ reconciled' = reconciled
    BY <1>1, <1>4
    DEF BeginTick, ReconcileNothing, ReadControls, ControlsDone, ClaimNothing, RefuseRequest,
        ReconcileCleanup, Goto, tickVars, WriteLockIsAccounted, FlushedLabels
  <2>3. pc' \in {"read_controls", "controls", "complete", "claim"} => reconciled'
    BY <1>1, <1>4
    DEF BeginTick, ReconcileNothing, ReadControls, ControlsDone, ClaimNothing, RefuseRequest,
        ReconcileCleanup, Goto, tickVars, StartInv
  <2>4. writing => pc # "reconcile" /\ pc' # "reconcile" /\ reconciled
    BY <1>1, <1>4, <2>2
    DEF BeginTick, ReconcileNothing, ReadControls, ControlsDone, ClaimNothing, RefuseRequest,
        ReconcileCleanup, Goto, StartInv
  <2>5. ClaimMayRaise' = ClaimMayRaise
    BY <2>1 DEF ClaimMayRaise
  <2>6. writing => /\ ClaimMayRaise /\ reconciled'
                   /\ pc' \in {"idle", "read_controls", "controls", "claim"}
    BY <1>1, <2>2, <2>4 DEF WriteLockIsAccounted, FlushedLabels
  <2> QED
    BY <2>1, <2>3, <2>5, <2>6 DEF WriteLockIsAccounted, StartInv
<1> QED
  BY <1>2, <1>3, <1>4 DEF TickStep

\* The coordinator flushes two transitions, and reconcile() never gets there with
\* one of them.
LEMMA LockCoordinator ==
    ASSUME IInv, LockInv, NEW e \in Experiments, CoordinatorStep(e)
    PROVE  WriteLockIsAccounted' /\ StartInv'
<1>1. StartInv /\ WriteLockIsAccounted
  BY DEF LockInv
<1>2. pc \in CoordinatorLabels
  BY DEF CoordinatorStep, Prepare, ScenarioPreflight, TargetPreflight, ObserveBefore,
      StartInjecting, Inject, SaveContext, VerifyActive, Activate, InjectionFailed,
      ExpireActive, ObserveDuring, EnterCleanup, MarkCancelled, Restore, RecordAttempt,
      CleanupExhausted, CleanupFailed, CleanupSucceeded, VerifyCleanup, ObserveAfter,
      Verdict, Release, At, CoordinatorLabels
<1>3. writing => pc \in FlushedLabels
  BY <1>1, <1>2 DEF WriteLockIsAccounted, CoordinatorLabels
<1>4. pc' \in {"read_controls", "controls", "complete", "claim"} => reconciled'
  <2>1. ASSUME NEW label \in CoordinatorLabels,
               Goto(label) \/ (\E value \in BOOLEAN : SetOk(label, value)) \/ Return \/ Raise
        PROVE  pc' \in {"read_controls", "controls", "complete", "claim"} => reconciled'
    BY <2>1 DEF Goto, SetOk, Return, Raise, CoordinatorLabels
  <2>2. CASE EnterCleanup(e) \/ Release(e)
    BY <2>2 DEF EnterCleanup, Release
  <2>3. CASE \/ Prepare(e) \/ ScenarioPreflight(e) \/ TargetPreflight(e) \/ ObserveBefore(e)
             \/ StartInjecting(e) \/ Inject(e) \/ SaveContext(e) \/ VerifyActive(e)
             \/ Activate(e) \/ InjectionFailed(e) \/ ExpireActive(e) \/ ObserveDuring(e)
    BY <2>1, <2>3
    DEF Prepare, ScenarioPreflight, StatusReplies, TargetPreflight, RefusePreflight,
        ObserveBefore, StartInjecting, Inject, SaveContext, VerifyActive, Activate,
        InjectionFailed, ExpireActive, ObserveDuring, CoordinatorLabels
  <2>4. CASE \/ MarkCancelled(e) \/ Restore(e) \/ RecordAttempt(e) \/ CleanupExhausted(e)
             \/ CleanupFailed(e) \/ CleanupSucceeded(e) \/ VerifyCleanup(e)
             \/ ObserveAfter(e) \/ Verdict(e)
    BY <2>1, <2>4
    DEF MarkCancelled, Restore, RecordAttempt, CleanupExhausted, CleanupFailed,
        CleanupSucceeded, VerifyCleanup, ObserveAfter, Verdict, CoordinatorLabels
  <2> QED
    BY <2>2, <2>3, <2>4 DEF CoordinatorStep
<1>5. ASSUME writing' PROVE pc' \in FlushedLabels
  <2>1. CASE Prepare(e)
    <3>1. ~writing /\ ~reconciling
      BY <1>3, <2>1
      DEF Prepare, At, FlushedLabels, IInv, ControlInv, JobInv, CleanupStates
    <3> QED
      BY <1>5, <2>1, <3>1 DEF Prepare, Raise, Goto, storeVars, FlushedLabels
  <2>2. CASE ScenarioPreflight(e) \/ TargetPreflight(e)
    <3>1. ~reconciling
      BY <2>2 DEF ScenarioPreflight, TargetPreflight, At, IInv, ControlInv, JobInv
    <3> QED
      BY <1>5, <2>2, <3>1
      DEF ScenarioPreflight, StatusReplies, TargetPreflight, RefusePreflight, Commit, Raise,
          Goto, FlushedLabels
  <2>3. CASE \/ ObserveBefore(e) \/ StartInjecting(e) \/ SaveContext(e) \/ Activate(e)
             \/ InjectionFailed(e) \/ ExpireActive(e) \/ ObserveDuring(e) \/ MarkCancelled(e)
             \/ RecordAttempt(e) \/ CleanupFailed(e) \/ ObserveAfter(e) \/ Verdict(e)
             \/ Release(e)
    BY <1>5, <2>3
    DEF ObserveBefore, StartInjecting, SaveContext, Activate, InjectionFailed, ExpireActive,
        ObserveDuring, MarkCancelled, RecordAttempt, CleanupFailed, ObserveAfter, Verdict,
        Release, Commit
  <2>4. CASE \/ Inject(e) \/ VerifyActive(e) \/ EnterCleanup(e) \/ Restore(e)
             \/ CleanupExhausted(e)
    BY <1>3, <1>5, <2>4
    DEF Inject, VerifyActive, EnterCleanup, Restore, CleanupExhausted, At, Commit,
        storeVars, FlushedLabels
  <2>5. CASE CleanupSucceeded(e) \/ VerifyCleanup(e)
    BY <2>5 DEF CleanupSucceeded, VerifyCleanup, Goto, SetOk, FlushedLabels
  <2> QED
    BY <2>1, <2>2, <2>3, <2>4, <2>5 DEF CoordinatorStep
<1> QED
  BY <1>4, <1>5 DEF WriteLockIsAccounted, StartInv, FlushedLabels

LEMMA LockStep ==
    ASSUME IInv, LockInv, [Next]_vars
    PROVE  LockInv'
<1>1. LeaseInv'
  BY LeaseStep
<1>2. CASE AgentStep
  BY <1>1, <1>2, LockTick, LockCoordinator DEF AgentStep, LockInv
<1>3. CASE Crash \/ \E e \in Experiments : Schedule(e)
  BY <1>1, <1>3
  DEF Crash, Schedule, OperatorVars, tickVars, Commit, LockInv, WriteLockIsAccounted, StartInv
<1>4. CASE Boot
  BY <1>1, <1>4
  DEF Boot, Goto, tickVars, storeVars, LockInv, WriteLockIsAccounted, StartInv, FlushedLabels
<1>5. ASSUME NEW e \in Experiments, LeaseRunsOut(e) PROVE LockInv'
  <2>1. \A f \in Experiments : /\ saved'[f].state = saved[f].state
                               /\ saved[f].lease = "run_out" => saved'[f].lease = "run_out"
    BY <1>5 DEF LeaseRunsOut, IInv, TypeOK, Row
  <2>2. UNCHANGED <<writing, pc, reconciled, crashes>>
    BY <1>5 DEF LeaseRunsOut, TimeVars, tickVars
  <2> QED
    BY <1>1, <2>1, <2>2 DEF LockInv, WriteLockIsAccounted, ClaimMayRaise, StartInv
<1>6. CASE \/ \E r \in Requests : RequestControl(r)
           \/ \E e \in Experiments : Elapse(e)
           \/ TargetStep \/ UNCHANGED vars
  <2>1. UNCHANGED <<saved, writing, pc, reconciled, crashes>>
    BY <1>6 DEF RequestControl, OperatorVars, Elapse, TimeVars, TargetStep, storeVars,
       tickVars, vars
  <2> QED
    BY <1>1, <2>1 DEF LockInv, WriteLockIsAccounted, ClaimMayRaise, StartInv
<1> QED
  BY <1>2, <1>3, <1>4, <1>5, <1>6 DEF Next, OperatorStep, TimeStep

\* The agent holds the write lock for two stretches of the coordinator's code and
\* the end of the same tick, or because a claim has raised on a lease that a
\* dead process left behind; there is no third way, and before the first crash
\* there is only the first.
THEOREM WriteLockAlwaysAccounted == Spec => []WriteLockIsAccounted
<1>1. IInv /\ LockInv /\ [Next]_vars => LockInv'
  BY LockStep
<1>2. LockInv => WriteLockIsAccounted
  BY DEF LockInv
<1> QED
  BY <1>1, <1>2, LockInvInit, InductiveInvariant, PTL DEF Spec

=============================================================================
