-------------------------- MODULE SupervisorProofs --------------------------
(***************************************************************************)
(* The safety properties of Supervisor.tla for every value of its          *)
(* constants.  IInv is shown to hold initially and to be preserved by      *)
(* every step, one lemma per action of the agent and one for each kind of  *)
(* step of its surroundings; the five properties are consequences of it.   *)
(* Most actions change one field of one row in both views at once, so the  *)
(* first sections say what such a write does to RowInv, to SessionInv and  *)
(* to the experiments it does not touch.                                   *)
(***************************************************************************)
EXTENDS SupervisorTypeProofs

-----------------------------------------------------------------------------
(* The two views of the store *)

\* While nothing is uncommitted the session holds what the database holds.
LEMMA AgreeFields ==
    ASSUME TypeOK, NEW e \in Experiments, Agrees(e)
    PROVE  /\ rows[e].state = saved[e].state
           /\ rows[e].audit = saved[e].audit
           /\ rows[e].context = saved[e].context
           /\ rows[e].outcome = saved[e].outcome
           /\ rows[e].attempts = saved[e].attempts
           /\ rows[e].before = saved[e].before
           /\ rows[e].after = saved[e].after
BY DEF TypeOK, Agrees, Row

\* Only the experiment the coordinator runs can be ahead of the database.
LEMMA OthersAgree ==
    ASSUME IInv, NEW e \in Experiments
    PROVE  /\ current = e \/ current \notin Experiments \/ ~writing
                => \A f \in Experiments \ {e} : Agrees(f)
           /\ pc \notin { "scenario_preflight", "target_preflight", "observe_before",
                          "release", "verify_cleanup", "observe_after" }
                => \A f \in Experiments : Agrees(f)
BY DEF IInv, SessionInv, Uncommitted

\* A field RowInv does not speak about may take any value.
LEMMA SameRowInv ==
    ASSUME NEW e \in Experiments, NEW row \in Row, NEW new \in Row, RowInv(e, row),
           new.state = row.state, new.audit = row.audit, new.context = row.context,
           new.attempts = row.attempts
    PROVE  RowInv(e, new)
BY DEF RowInv

LEMMA MovedRowInv ==
    ASSUME NEW e \in Experiments, NEW row \in Row, NEW s \in ExperimentState,
           RowInv(e, row),
           s \in UntouchedStates => stopCalls[e] = 0,
           s \in OwnedStates => row.context,
           e \in stoppedBy \cup lateStops => s \in UncertainStates,
           s \in { "cleanup_failed", "verifying", "passed", "operator_attention" }
                => row.attempts > 0
    PROVE  RowInv(e, Moved(row, s))
<1>1. s # "absent"
  BY DEF ExperimentState
<1> QED
  BY <1>1, MovedRow DEF RowInv

LEMMA CommitKeepsStore ==
    ASSUME TypeOK, StoreInv, UNCHANGED targetVars, NEW e \in Experiments, NEW row \in Row,
           Commit(Write(e, row)), RowInv(e, row), VerdictInv(row),
           \A f \in Experiments \ {e} : Agrees(f)
    PROVE  StoreInv' /\ SessionInv'
<1>1. \A f \in Experiments : rows'[f] = saved'[f]
  BY DEF Commit, Write, TypeOK
<1>2. \A f \in Experiments : rows'[f] = IF f = e THEN row ELSE rows[f]
  BY DEF Commit, Write, TypeOK
<1>3. SessionInv'
  <2>1. \A f \in Experiments : saved'[f] \in Row
    BY <1>1, <1>2 DEF TypeOK
  <2>2. \A f \in Experiments : [saved'[f] EXCEPT !.lease = saved'[f].lease] = saved'[f]
    BY <2>1 DEF Row
  <2> QED
    BY <1>1, <2>2 DEF SessionInv, Agrees
<1>4. StoreInv'
  <2> SUFFICES ASSUME NEW f \in Experiments
               PROVE  RowInv(f, rows[f])' /\ VerdictInv(rows[f])'
    BY <1>1 DEF StoreInv, RowInv, VerdictInv
  <2>1. CASE f = e
    BY <1>2, <2>1 DEF RowInv, targetVars
  <2>2. CASE f # e
    <3>1. rows'[f] = rows[f]
      BY <1>2, <2>2
    <3>2. VerdictInv(rows[f])
      BY <2>2, AgreeFields DEF StoreInv, VerdictInv
    <3>3. RowInv(f, rows[f])
      BY DEF StoreInv
    <3> QED
      BY <3>1, <3>2, <3>3 DEF RowInv, VerdictInv, targetVars
  <2> QED
    BY <2>1, <2>2
<1> QED
  BY <1>3, <1>4

LEMMA CommitMoveKeepsStore ==
    ASSUME TypeOK, StoreInv, UNCHANGED targetVars,
           NEW e \in Experiments, NEW s \in ExperimentState,
           Commit(Write(e, Moved(rows[e], s))),
           \A f \in Experiments \ {e} : Agrees(f),
           s \in UntouchedStates => stopCalls[e] = 0,
           s \in OwnedStates => rows[e].context,
           e \in stoppedBy \cup lateStops => s \in UncertainStates,
           s \in { "cleanup_failed", "verifying", "passed", "operator_attention" }
                => rows[e].attempts > 0,
           s \in { "verifying", "passed", "operator_attention" } => rows[e].after # "none"
    PROVE  /\ StoreInv' /\ SessionInv'
           /\ rows'[e] = Moved(rows[e], s)
<1>1. rows[e] \in Row /\ Moved(rows[e], s) \in Row
  BY MovedRow DEF TypeOK
<1>2. RowInv(e, Moved(rows[e], s))
  BY <1>1, MovedRowInv DEF StoreInv
<1>3. VerdictInv(Moved(rows[e], s))
  BY <1>1, MovedRow DEF VerdictInv
<1>4. rows'[e] = Moved(rows[e], s)
  BY DEF Commit, Write, TypeOK
<1> QED
  BY <1>1, <1>2, <1>3, <1>4, CommitKeepsStore

\* Steps of the target that only take effects and late calls away.
LEMMA TargetShrinks ==
    ASSUME TypeOK, StoreInv, UNCHANGED <<rows, saved>>, UNCHANGED stopCalls,
           lateStops' \subseteq lateStops,
           stoppedBy' \cup lateStops' \subseteq stoppedBy \cup lateStops
    PROVE  StoreInv'
<1> SUFFICES ASSUME NEW e \in Experiments, NEW row, RowInv(e, row)
             PROVE  RowInv(e, row)'
  BY DEF StoreInv
<1> QED
  BY DEF RowInv

LEMMA StoreUnchanged ==
    ASSUME StoreInv, UNCHANGED storeVars, UNCHANGED targetVars
    PROVE  StoreInv'
BY DEF StoreInv, RowInv, VerdictInv, storeVars, targetVars

LEMMA SessionUnchanged ==
    ASSUME UNCHANGED storeVars, \A f \in Experiments : Agrees(f)
    PROVE  SessionInv'
BY DEF SessionInv, Agrees, storeVars

LEMMA FlushMoveKeepsStore ==
    ASSUME TypeOK, StoreInv, UNCHANGED targetVars,
           NEW e \in Experiments, NEW s \in ExperimentState,
           Flush(Write(e, Moved(rows[e], s))),
           \A f \in Experiments : Agrees(f),
           RowInv(e, Moved(rows[e], s))
    PROVE  /\ StoreInv'
           /\ \A f \in Experiments \ {e} : Agrees(f)'
           /\ writing' = TRUE
           /\ rows'[e] = Moved(rows[e], s)
           /\ \A from \in ExperimentState : rows[e].state = from => Ahead(e, from, s)'
<1>1. \A f \in Experiments : rows'[f] = IF f = e THEN Moved(rows[e], s) ELSE rows[f]
  BY DEF Flush, Write, TypeOK
<1>2. saved' = saved /\ writing' = TRUE
  BY DEF Flush
<1>3. StoreInv'
  BY <1>1, <1>2 DEF StoreInv, RowInv, VerdictInv, targetVars
<1>4. \A f \in Experiments \ {e} : Agrees(f)'
  BY <1>1, <1>2 DEF Agrees
<1>5. ASSUME NEW from \in ExperimentState, rows[e].state = from
      PROVE  Ahead(e, from, s)'
  <2>1. rows[e] \in Row
    BY DEF TypeOK
  <2>2. /\ rows[e].state = saved[e].state
        /\ rows[e].audit = saved[e].audit
        /\ rows[e].context = saved[e].context
        /\ rows[e].attempts = saved[e].attempts
    BY AgreeFields
  <2> QED
    BY <1>1, <1>2, <1>5, <2>1, <2>2, MovedRow DEF Ahead
<1> QED
  BY <1>1, <1>2, <1>3, <1>4, <1>5

-----------------------------------------------------------------------------
(* Where the agent is *)

LEMMA GotoKeepsControl ==
    ASSUME ControlInv, NEW e \in Experiments, current = e,
           NEW label \in CoordinatorLabels, Goto(label), JobInv(e)'
    PROVE  ControlInv'
BY DEF ControlInv, Goto, jobVars

LEMMA ReturnKeepsControl ==
    ASSUME ControlInv, NEW e \in Experiments, current = e, Return \/ Raise
    PROVE  ControlInv'
<1>1. CASE reconciling
  BY <1>1, SupervisorConstants
  DEF ControlInv, Return, Raise, IdleJob, CoordinatorLabels
<1>2. CASE ~reconciling
  BY <1>2 DEF ControlInv, JobInv, Return, Raise, Goto, jobVars, CoordinatorLabels
<1> QED
  BY <1>1, <1>2

-----------------------------------------------------------------------------
(* _prepare *)

LEMMA PrepareKeeps ==
    ASSUME IInv, NEW e \in Experiments, Prepare(e)
    PROVE  StoreInv' /\ SessionInv' /\ ControlInv'
<1>1. /\ pc = "run" /\ current = e
      /\ rows[e].state \in {"planned", "preflight"}
      /\ UNCHANGED targetVars
  BY DEF Prepare, At
<1>2. \A f \in Experiments : Agrees(f)
  BY <1>1, OthersAgree
<1>3. ~reconciling
  BY <1>1 DEF IInv, ControlInv, JobInv, CleanupStates
<1>4. \/ Goto("scenario_preflight")
      \/ Goto("release")
  BY <1>3 DEF Prepare, Raise
<1>5. /\ current' = current /\ reconciling' = reconciling
      /\ pc' \in {"scenario_preflight", "release"}
  BY <1>4 DEF Goto, jobVars
<1>6. CASE rows[e].state = "planned"
  <2>1. Flush(Write(e, Moved(rows[e], "preflight")))
    BY <1>6 DEF Prepare
  <2>2. rows[e] \in Row /\ "preflight" \in ExperimentState
    BY DEF IInv, TypeOK, ExperimentState
  <2>3. RowInv(e, Moved(rows[e], "preflight"))
    <3>1. RowInv(e, rows[e])
      BY DEF IInv, StoreInv
    <3>2. stopCalls[e] = 0 /\ e \notin stoppedBy \cup lateStops
      BY <1>6, <3>1 DEF RowInv, UntouchedStates, UncertainStates
    <3> QED
      BY <2>2, <3>1, <3>2, MovedRowInv DEF OwnedStates
  <2>4. /\ StoreInv'
        /\ \A f \in Experiments \ {e} : Agrees(f)'
        /\ writing' = TRUE
        /\ rows'[e] = Moved(rows[e], "preflight")
        /\ Ahead(e, "planned", "preflight")'
    BY <1>1, <1>2, <1>6, <2>1, <2>2, <2>3, FlushMoveKeepsStore DEF IInv, ExperimentState
  <2>5. SessionInv'
    BY <1>1, <1>5, <2>4 DEF SessionInv, Uncommitted
  <2>6. JobInv(e)'
    BY <1>3, <1>5, <2>2, <2>4, MovedRow DEF JobInv
  <2> QED
    BY <1>1, <1>4, <2>4, <2>5, <2>6, GotoKeepsControl DEF IInv, CoordinatorLabels
<1>7. CASE rows[e].state = "preflight"
  <2>1. UNCHANGED storeVars
    BY <1>7 DEF Prepare
  <2>2. StoreInv' /\ SessionInv'
    BY <1>1, <1>2, <2>1, StoreUnchanged, SessionUnchanged DEF IInv
  <2>3. JobInv(e)'
    BY <1>3, <1>5, <1>7, <2>1 DEF JobInv, storeVars
  <2> QED
    BY <1>1, <1>4, <2>2, <2>3, GotoKeepsControl DEF IInv, CoordinatorLabels
<1> QED
  BY <1>1, <1>6, <1>7

\* A refusal commits preflight and failed together.
LEMMA RefusalKeeps ==
    ASSUME IInv, NEW e \in Experiments, current = e, rows[e].state = "preflight",
           UNCHANGED targetVars, RefusePreflight(e)
    PROVE  StoreInv' /\ SessionInv' /\ ControlInv'
<1>1. \A f \in Experiments \ {e} : Agrees(f)
  BY OthersAgree
<1>2. stopCalls[e] = 0 /\ e \notin stoppedBy \cup lateStops
  BY DEF IInv, StoreInv, RowInv, UntouchedStates, UncertainStates
<1>3. StoreInv' /\ SessionInv'
  BY <1>1, <1>2, CommitMoveKeepsStore
  DEF RefusePreflight, IInv, ExperimentState, OwnedStates
<1> QED
  BY <1>3, ReturnKeepsControl DEF RefusePreflight, IInv

\* A call that changes nothing on record leaves the planned row ahead.
LEMMA PreflightCallKeeps ==
    ASSUME IInv, NEW e \in Experiments, current = e, UNCHANGED <<storeVars, targetVars>>,
           pc \in {"scenario_preflight", "target_preflight"},
           Raise \/ \E label \in {"target_preflight", "observe_before"} : Goto(label)
    PROVE  StoreInv' /\ SessionInv' /\ ControlInv'
<1>1. JobInv(e) /\ ~reconciling /\ rows[e].state = "preflight"
  BY DEF IInv, ControlInv, JobInv
<1>2. PICK label \in {"target_preflight", "observe_before", "release"} : Goto(label)
  BY <1>1 DEF Raise
<1>3. current' = current /\ reconciling' = reconciling /\ pc' = label
  BY <1>2 DEF Goto, jobVars
<1>4. SessionInv'
  BY <1>3 DEF IInv, SessionInv, Agrees, Uncommitted, Ahead, storeVars
<1>5. JobInv(e)'
  BY <1>1, <1>3 DEF JobInv, storeVars
<1> QED
  BY <1>2, <1>4, <1>5, StoreUnchanged, GotoKeepsControl DEF IInv, CoordinatorLabels

LEMMA ScenarioPreflightKeeps ==
    ASSUME IInv, NEW e \in Experiments, ScenarioPreflight(e)
    PROVE  StoreInv' /\ SessionInv' /\ ControlInv'
<1>1. pc = "scenario_preflight" /\ current = e /\ UNCHANGED targetVars
  BY DEF ScenarioPreflight, At, StatusCall
<1>2. rows[e].state = "preflight"
  BY <1>1 DEF IInv, ControlInv, JobInv
<1>3. \/ Goto("target_preflight") /\ UNCHANGED storeVars
      \/ RefusePreflight(e)
      \/ Raise /\ UNCHANGED storeVars
  BY DEF ScenarioPreflight, StatusReplies
<1> QED
  BY <1>1, <1>2, <1>3, RefusalKeeps, PreflightCallKeeps

LEMMA TargetPreflightKeeps ==
    ASSUME IInv, NEW e \in Experiments, TargetPreflight(e)
    PROVE  StoreInv' /\ SessionInv' /\ ControlInv'
<1>1. pc = "target_preflight" /\ current = e /\ UNCHANGED targetVars
  BY DEF TargetPreflight, At
<1>2. rows[e].state = "preflight"
  BY <1>1 DEF IInv, ControlInv, JobInv
<1>3. \/ Goto("observe_before") /\ UNCHANGED storeVars
      \/ RefusePreflight(e)
      \/ Raise /\ UNCHANGED storeVars
  BY DEF TargetPreflight
<1> QED
  BY <1>1, <1>2, <1>3, RefusalKeeps, PreflightCallKeeps

\* Writing one field that RowInv does not speak about.
LEMMA CommitFieldKeepsStore ==
    ASSUME IInv, UNCHANGED targetVars, NEW e \in Experiments, NEW row \in Row,
           Commit(Write(e, row)), \A f \in Experiments \ {e} : Agrees(f),
           row.state = rows[e].state, row.audit = rows[e].audit,
           row.context = rows[e].context, row.attempts = rows[e].attempts,
           VerdictInv(row)
    PROVE  StoreInv' /\ SessionInv' /\ rows'[e] = row
<1>1. RowInv(e, row)
  BY SameRowInv DEF IInv, TypeOK, StoreInv
<1>2. rows'[e] = row
  BY DEF Commit, Write, IInv, TypeOK
<1> QED
  BY <1>1, <1>2, CommitKeepsStore DEF IInv

LEMMA ObserveBeforeKeeps ==
    ASSUME IInv, NEW e \in Experiments, ObserveBefore(e)
    PROVE  StoreInv' /\ SessionInv' /\ ControlInv'
<1>1. /\ pc = "observe_before" /\ current = e /\ UNCHANGED targetVars
      /\ Goto("start_injecting")
  BY DEF ObserveBefore, At, SiteCall
<1>2. rows[e].state = "preflight" /\ ~reconciling /\ rows[e] \in Row
  BY <1>1 DEF IInv, ControlInv, JobInv, TypeOK
<1>3. PICK seen \in Observations : Commit(Write(e, [rows[e] EXCEPT !.before = seen]))
  BY DEF ObserveBefore, Observed, Observations
<1> DEFINE row == [rows[e] EXCEPT !.before = seen]
<1>4. /\ row \in Row
      /\ row.state = rows[e].state /\ row.audit = rows[e].audit
      /\ row.context = rows[e].context /\ row.attempts = rows[e].attempts
  BY <1>2 DEF Row
<1>5. VerdictInv(row)
  BY <1>2, <1>4 DEF VerdictInv
<1>6. StoreInv' /\ SessionInv' /\ rows'[e] = row
  <2> HIDE DEF row
  <2>1. Commit(Write(e, row))
    BY <1>3 DEF row
  <2> QED
    BY <1>1, <1>4, <1>5, <2>1, CommitFieldKeepsStore, OthersAgree
<1>7. JobInv(e)'
  BY <1>1, <1>2, <1>4, <1>6 DEF JobInv, Goto, jobVars
<1> QED
  BY <1>1, <1>6, <1>7, GotoKeepsControl DEF IInv, CoordinatorLabels

LEMMA StartInjectingKeeps ==
    ASSUME IInv, NEW e \in Experiments, StartInjecting(e)
    PROVE  StoreInv' /\ SessionInv' /\ ControlInv'
<1>1. /\ pc = "start_injecting" /\ current = e /\ UNCHANGED targetVars
      /\ Goto("run") /\ Commit(Write(e, Moved(rows[e], "injecting")))
  BY DEF StartInjecting, At
<1>2. rows[e].state = "preflight" /\ ~reconciling /\ rows[e] \in Row
  BY <1>1 DEF IInv, ControlInv, JobInv, TypeOK
<1>3. stopCalls[e] = 0
  BY <1>2 DEF IInv, StoreInv, RowInv, UntouchedStates
<1>4. StoreInv' /\ SessionInv' /\ rows'[e] = Moved(rows[e], "injecting")
  BY <1>1, OthersAgree, CommitMoveKeepsStore
  DEF IInv, ExperimentState, OwnedStates, UntouchedStates, UncertainStates
<1>5. JobInv(e)'
  <2>1. rows'[e].state = "injecting"
    BY <1>2, <1>4, MovedRow DEF ExperimentState
  <2>2. stopCalls'[e] = 0 /\ pc' = "run" /\ ~reconciling'
    BY <1>1, <1>2, <1>3 DEF Goto, jobVars, targetVars
  <2> QED
    BY <2>1, <2>2 DEF JobInv
<1> QED
  BY <1>1, <1>4, <1>5, GotoKeepsControl DEF IInv, CoordinatorLabels

-----------------------------------------------------------------------------
(* _inject *)

LEMMA InjectKeeps ==
    ASSUME IInv, NEW e \in Experiments, Inject(e)
    PROVE  TargetInv' /\ StoreInv' /\ SessionInv' /\ ControlInv'
<1>1. /\ pc = "run" /\ current = e /\ UNCHANGED storeVars
      /\ rows[e].state = "injecting"
  BY DEF Inject, At
<1>2. stopCalls[e] = 0 /\ ~reconciling
  BY <1>1 DEF IInv, ControlInv, JobInv, CleanupStates
<1>3. PICK verified \in BOOLEAN :
        /\ StopCall(e, verified)
        /\ Goto(IF verified THEN "save_context" ELSE "injection_failed")
  BY DEF Inject
<1>4. \A f \in Experiments : Agrees(f)
  BY <1>1, OthersAgree
<1>5. /\ stopCalls'[e] = 1
      /\ \A f \in Experiments \ {e} : stopCalls'[f] = stopCalls[f]
  BY <1>2, <1>3 DEF StopCall, IInv, TypeOK, TargetTypeOK
<1>6. /\ stoppedBy' \subseteq stoppedBy \cup {e}
      /\ lateStops' \subseteq lateStops \cup {e}
      /\ verified => lateStops' = lateStops
  BY <1>3 DEF StopCall, StopTakesEffect
<1>7. TargetInv'
  BY <1>5, <1>6 DEF IInv, TargetInv
<1>8. StoreInv'
  <2> SUFFICES ASSUME NEW f \in Experiments
               PROVE  RowInv(f, rows[f])' /\ RowInv(f, saved[f])' /\ VerdictInv(saved[f])'
    BY DEF StoreInv
  <2>1. RowInv(f, rows[f]) /\ RowInv(f, saved[f]) /\ VerdictInv(saved[f])
    BY DEF IInv, StoreInv
  <2>2. CASE f # e
    BY <1>1, <1>5, <1>6, <2>1, <2>2 DEF RowInv, VerdictInv, storeVars
  <2>3. CASE f = e
    <3>1. saved[e].state = "injecting"
      BY <1>1, <1>4, AgreeFields DEF IInv
    <3>2. ~rows[e].context /\ ~saved[e].context
      BY <1>2, <2>1, <2>3 DEF RowInv
    <3> QED
      BY <1>1, <1>5, <2>1, <2>3, <3>1, <3>2
      DEF RowInv, VerdictInv, storeVars, UntouchedStates, OwnedStates, UncertainStates
  <2> QED
    BY <2>2, <2>3
<1>9. SessionInv'
  BY <1>1, <1>4, SessionUnchanged
<1>10. JobInv(e)'
  <2>1. /\ rows' = rows /\ reconciling' = reconciling
        /\ pc' = IF verified THEN "save_context" ELSE "injection_failed"
    BY <1>1, <1>3 DEF Goto, jobVars, storeVars
  <2>2. verified => e \notin lateStops'
    BY <1>2, <1>6 DEF IInv, TargetInv
  <2> QED
    BY <1>1, <1>2, <1>5, <2>1, <2>2 DEF JobInv
<1> QED
  BY <1>1, <1>3, <1>7, <1>8, <1>9, <1>10, GotoKeepsControl DEF IInv, CoordinatorLabels

LEMMA SaveContextKeeps ==
    ASSUME IInv, NEW e \in Experiments, SaveContext(e)
    PROVE  StoreInv' /\ SessionInv' /\ ControlInv'
<1>1. /\ pc = "save_context" /\ current = e /\ UNCHANGED targetVars
      /\ Goto("verify_active") /\ Commit(Write(e, [rows[e] EXCEPT !.context = TRUE]))
  BY DEF SaveContext, At
<1>2. /\ rows[e].state = "injecting" /\ ~reconciling /\ rows[e] \in Row
      /\ stopCalls[e] > 0 /\ e \notin lateStops
  BY <1>1 DEF IInv, ControlInv, JobInv, TypeOK
<1> DEFINE row == [rows[e] EXCEPT !.context = TRUE]
<1>3. /\ row \in Row /\ row.context
      /\ row.state = rows[e].state /\ row.audit = rows[e].audit
      /\ row.attempts = rows[e].attempts
  BY <1>2 DEF Row
<1>4. RowInv(e, row)
  <2>1. RowInv(e, rows[e])
    BY DEF IInv, StoreInv
  <2> HIDE DEF row
  <2> QED
    BY <1>2, <1>3, <2>1 DEF RowInv
<1>5. VerdictInv(row)
  BY <1>2, <1>3 DEF VerdictInv
<1>6. rows'[e] = row
  BY <1>1 DEF Commit, Write, IInv, TypeOK
<1>7. StoreInv' /\ SessionInv'
  <2>1. Commit(Write(e, row))
    BY <1>1
  <2> HIDE DEF row
  <2> QED
    BY <1>1, <1>3, <1>4, <1>5, <2>1, CommitKeepsStore, OthersAgree DEF IInv
<1>8. JobInv(e)'
  BY <1>1, <1>2, <1>3, <1>6 DEF JobInv, Goto, jobVars
<1> QED
  BY <1>1, <1>7, <1>8, GotoKeepsControl DEF IInv, CoordinatorLabels

LEMMA VerifyActiveKeeps ==
    ASSUME IInv, NEW e \in Experiments, VerifyActive(e)
    PROVE  StoreInv' /\ SessionInv' /\ ControlInv'
<1>1. pc = "verify_active" /\ current = e /\ UNCHANGED <<storeVars, targetVars>>
  BY DEF VerifyActive, At, StatusCall
<1>2. rows[e].state = "injecting" /\ ~reconciling /\ rows[e].context
  BY <1>1 DEF IInv, ControlInv, JobInv
<1>3. PICK label \in {"activate", "injection_failed"} : Goto(label)
  BY DEF VerifyActive
<1>4. StoreInv' /\ SessionInv'
  BY <1>1, OthersAgree, StoreUnchanged, SessionUnchanged DEF IInv
<1>5. JobInv(e)'
  BY <1>1, <1>2, <1>3 DEF JobInv, Goto, jobVars, storeVars
<1> QED
  BY <1>1, <1>3, <1>4, <1>5, GotoKeepsControl DEF IInv, CoordinatorLabels

\* The commits that move the row and go back to run_once.
LEMMA MoveAndRunKeeps ==
    ASSUME IInv, NEW e \in Experiments, current = e, UNCHANGED targetVars,
           NEW s \in { "active", "expired", "cleaning_up" },
           Commit(Write(e, Moved(rows[e], s))), Goto("run"),
           rows[e].state \in { "injecting", "active" }, ~reconciling,
           s # "cleaning_up" => rows[e].context
    PROVE  StoreInv' /\ SessionInv' /\ ControlInv'
<1>1. s \in ExperimentState /\ rows[e] \in Row
  BY DEF ExperimentState, IInv, TypeOK
<1>2. StoreInv' /\ SessionInv' /\ rows'[e] = Moved(rows[e], s)
  BY <1>1, OthersAgree, CommitMoveKeepsStore
  DEF IInv, UntouchedStates, OwnedStates, UncertainStates
<1>3. JobInv(e)'
  <2>1. rows'[e].state = s
    BY <1>1, <1>2, MovedRow
  <2> QED
    BY <2>1 DEF JobInv, Goto, jobVars
<1> QED
  BY <1>2, <1>3, GotoKeepsControl DEF IInv, CoordinatorLabels

LEMMA AfterInjectionKeeps ==
    ASSUME IInv, NEW e \in Experiments,
           Activate(e) \/ InjectionFailed(e) \/ ExpireActive(e)
    PROVE  StoreInv' /\ SessionInv' /\ ControlInv'
<1>1. JobInv(e) /\ RowInv(e, rows[e])
  BY DEF IInv, ControlInv, StoreInv, Activate, InjectionFailed, ExpireActive, At
<1>2. CASE Activate(e)
  BY <1>1, <1>2, MoveAndRunKeeps DEF Activate, At, JobInv
<1>3. CASE InjectionFailed(e)
  BY <1>1, <1>3, MoveAndRunKeeps DEF InjectionFailed, At, JobInv
<1>4. CASE ExpireActive(e)
  <2>1. ~reconciling /\ rows[e].context
    BY <1>1, <1>4 DEF ExpireActive, At, JobInv, CleanupStates, RowInv, OwnedStates
  <2> QED
    BY <1>4, <2>1, MoveAndRunKeeps DEF ExpireActive, At
<1> QED
  BY <1>2, <1>3, <1>4

\* A commit of a session with nothing to write.
LEMMA EmptyCommitKeeps ==
    ASSUME IInv, UNCHANGED targetVars, Commit(rows), \A f \in Experiments : Agrees(f)
    PROVE  StoreInv' /\ SessionInv'
<1>1. StoreInv'
  BY AgreeFields DEF IInv, StoreInv, RowInv, VerdictInv, Commit, targetVars
<1>2. \A f \in Experiments : [rows[f] EXCEPT !.lease = rows[f].lease] = rows[f]
  BY DEF IInv, TypeOK, Row
<1> QED
  BY <1>1, <1>2 DEF SessionInv, Agrees, Commit

LEMMA ObserveDuringKeeps ==
    ASSUME IInv, NEW e \in Experiments, ObserveDuring(e)
    PROVE  StoreInv' /\ SessionInv' /\ ControlInv'
<1>1. /\ pc = "run" /\ current = e /\ UNCHANGED targetVars
      /\ Commit(rows) /\ Return
  BY DEF ObserveDuring, At
<1> QED
  BY <1>1, EmptyCommitKeeps, OthersAgree, ReturnKeepsControl DEF IInv

-----------------------------------------------------------------------------
(* _cleanup *)

LEMMA EnterCleanupKeeps ==
    ASSUME IInv, NEW e \in Experiments, EnterCleanup(e)
    PROVE  StoreInv' /\ SessionInv' /\ ControlInv'
<1>1. /\ pc = "run" /\ current = e /\ UNCHANGED targetVars
      /\ rows[e].state \in CleanupStates
      /\ current' = current /\ reconciling' = reconciling
      /\ pc' \in {"mark_cancelled", "restore"}
  BY DEF EnterCleanup, At
<1>2. rows[e] \in Row /\ "cleaning_up" \in ExperimentState
  BY DEF IInv, TypeOK, ExperimentState
<1>3. \A f \in Experiments : Agrees(f)
  BY <1>1, OthersAgree
<1>4. StoreInv' /\ SessionInv' /\ rows'[e].state = "cleaning_up"
  <2>1. CASE rows[e].state = "cleaning_up"
    <3>1. UNCHANGED storeVars
      BY <2>1 DEF EnterCleanup
    <3> QED
      BY <1>1, <1>3, <2>1, <3>1, StoreUnchanged, SessionUnchanged DEF IInv, storeVars
  <2>2. CASE rows[e].state # "cleaning_up"
    <3>1. Commit(Write(e, Moved(rows[e], "cleaning_up")))
      BY <2>2 DEF EnterCleanup
    <3>2. StoreInv' /\ SessionInv' /\ rows'[e] = Moved(rows[e], "cleaning_up")
      BY <1>1, <1>2, <1>3, <3>1, CommitMoveKeepsStore
      DEF IInv, UntouchedStates, OwnedStates, UncertainStates
    <3> QED
      BY <1>2, <3>2, MovedRow
  <2> QED
    BY <2>1, <2>2
<1>5. ControlInv'
  BY <1>1, <1>4 DEF IInv, ControlInv, JobInv, CoordinatorLabels
<1> QED
  BY <1>4, <1>5

LEMMA MarkCancelledKeeps ==
    ASSUME IInv, NEW e \in Experiments, MarkCancelled(e)
    PROVE  StoreInv' /\ SessionInv' /\ ControlInv'
<1>1. /\ pc = "mark_cancelled" /\ current = e /\ UNCHANGED targetVars
      /\ Goto("restore")
      /\ Commit(Write(e, [rows[e] EXCEPT !.outcome = "cancelled_pending"]))
  BY DEF MarkCancelled, At
<1>2. rows[e].state = "cleaning_up" /\ rows[e] \in Row
  BY <1>1 DEF IInv, ControlInv, JobInv, TypeOK
<1> DEFINE row == [rows[e] EXCEPT !.outcome = "cancelled_pending"]
<1>3. /\ row \in Row
      /\ row.state = rows[e].state /\ row.audit = rows[e].audit
      /\ row.context = rows[e].context /\ row.attempts = rows[e].attempts
  BY <1>2 DEF Row, Outcomes
<1>4. StoreInv' /\ SessionInv' /\ rows'[e] = row
  <2>1. Commit(Write(e, row))
    BY <1>1
  <2> HIDE DEF row
  <2> QED
    BY <1>1, <1>2, <1>3, <2>1, CommitFieldKeepsStore, OthersAgree DEF VerdictInv
<1>5. JobInv(e)'
  BY <1>1, <1>2, <1>3, <1>4 DEF JobInv, Goto, jobVars
<1> QED
  BY <1>1, <1>4, <1>5, GotoKeepsControl DEF IInv, CoordinatorLabels

\* What a restoration does to the target: it sends and revokes no stop, it
\* leaves the outage as it was or ends it, and it counts as proven ("ok") only
\* with the context at hand and the outage ended.
RestoreShape(e) ==
    \/ ok' = FALSE /\ UNCHANGED targetVars
    \/ /\ rows[e].context
       /\ UNCHANGED <<lateStops, stopCalls>>
       /\ stoppedBy' \subseteq stoppedBy
       /\ ok' => stoppedBy' = {}

LEMMA RestoreKeeps ==
    ASSUME IInv, NEW e \in Experiments, Restore(e)
    PROVE  TargetInv' /\ StoreInv' /\ SessionInv' /\ ControlInv'
<1>1. /\ pc = "restore" /\ current = e /\ UNCHANGED storeVars
      /\ pc' = "record_attempt"
      /\ UNCHANGED <<current, reconciling>>
  BY DEF Restore, At, SetOk
<1>2. RestoreShape(e)
  BY DEF Restore, SetOk, StartCall, StartTakesEffect, RestoreShape, targetVars
<1>3. /\ stopCalls' = stopCalls /\ lateStops' = lateStops
      /\ stoppedBy' \subseteq stoppedBy
  BY <1>2 DEF RestoreShape, targetVars
<1>4. TargetInv'
  BY <1>3 DEF IInv, TargetInv
<1>5. StoreInv'
  BY <1>1, <1>3, TargetShrinks DEF IInv, storeVars
<1>6. SessionInv'
  BY <1>1, OthersAgree, SessionUnchanged
<1>7. rows[e].state = "cleaning_up" /\ RowInv(e, rows[e])
  BY <1>1 DEF IInv, ControlInv, JobInv, StoreInv
<1>8. ok' => rows[e].context /\ e \notin stoppedBy' \cup lateStops'
  BY <1>2, <1>3, <1>7 DEF RestoreShape, RowInv
<1>9. JobInv(e)'
  BY <1>1, <1>7, <1>8 DEF JobInv, storeVars
<1>10. ControlInv'
  BY <1>1, <1>9 DEF IInv, ControlInv, CoordinatorLabels
<1> QED
  BY <1>4, <1>5, <1>6, <1>10

LEMMA RecordAttemptKeeps ==
    ASSUME IInv, NEW e \in Experiments, RecordAttempt(e)
    PROVE  StoreInv' /\ SessionInv' /\ ControlInv'
<1> DEFINE number == IF rows[e].attempts < AttemptCap THEN rows[e].attempts + 1
                                                      ELSE rows[e].attempts
           row == [rows[e] EXCEPT !.attempts = number]
<1>1. /\ pc = "record_attempt" /\ current = e /\ UNCHANGED targetVars
      /\ Goto("conclude") /\ Commit(Write(e, row))
  BY DEF RecordAttempt, At
<1>2. /\ rows[e].state = "cleaning_up" /\ rows[e] \in Row
      /\ ok => rows[e].context /\ e \notin stoppedBy \cup lateStops
  BY <1>1 DEF IInv, ControlInv, JobInv, TypeOK
<1>3. number > 0 /\ number \in 0..AttemptCap
  BY <1>2, SupervisorConstants DEF Row
<1>4. /\ row \in Row
      /\ row.state = rows[e].state /\ row.audit = rows[e].audit
      /\ row.context = rows[e].context /\ row.attempts = number
  <2> HIDE DEF number
  <2> QED
    BY <1>2, <1>3 DEF Row
<1>5. RowInv(e, row)
  <2>1. RowInv(e, rows[e])
    BY DEF IInv, StoreInv
  <2> HIDE DEF row, number
  <2> QED
    BY <1>2, <1>4, <2>1 DEF RowInv
<1>6. StoreInv' /\ SessionInv'
  <2> HIDE DEF row
  <2> QED
    BY <1>1, <1>2, <1>4, <1>5, CommitKeepsStore, OthersAgree DEF IInv, VerdictInv
<1>7. rows'[e] = row
  <2> HIDE DEF row
  <2> QED
    BY <1>1 DEF Commit, Write, IInv, TypeOK
<1>8. JobInv(e)'
  <2>1. /\ rows'[e].state = "cleaning_up" /\ rows'[e].attempts > 0
        /\ rows'[e].context = rows[e].context
    <3> HIDE DEF row, number
    <3> QED
      BY <1>2, <1>3, <1>4, <1>7
  <2>2. pc' = "conclude" /\ ok' = ok /\ stoppedBy' = stoppedBy /\ lateStops' = lateStops
    BY <1>1 DEF Goto, jobVars, targetVars
  <2> QED
    BY <1>2, <2>1, <2>2 DEF JobInv
<1> QED
  BY <1>1, <1>6, <1>8, GotoKeepsControl DEF IInv, CoordinatorLabels

\* The transition policy has no edge from cleaning_up to operator_attention.
LEMMA NoEscalation == ~ValidTransition("cleaning_up", "operator_attention")
BY DEF ValidTransition, AllowedTransitions, ExperimentState

LEMMA CleanupExhaustedKeeps ==
    ASSUME IInv, NEW e \in Experiments, CleanupExhausted(e)
    PROVE  StoreInv' /\ SessionInv' /\ ControlInv'
<1>1. pc = "conclude" /\ current = e /\ UNCHANGED targetVars
  BY DEF CleanupExhausted, At
<1>2. rows[e].state = "cleaning_up"
  BY <1>1 DEF IInv, ControlInv, JobInv
<1>3. UNCHANGED storeVars /\ Raise
  BY <1>2, NoEscalation DEF CleanupExhausted
<1> QED
  BY <1>1, <1>3, OthersAgree, StoreUnchanged, SessionUnchanged, ReturnKeepsControl DEF IInv

LEMMA CleanupFailedKeeps ==
    ASSUME IInv, NEW e \in Experiments, CleanupFailed(e)
    PROVE  StoreInv' /\ SessionInv' /\ ControlInv'
<1>1. /\ pc = "conclude" /\ current = e /\ UNCHANGED targetVars
      /\ Return /\ Commit(Write(e, Moved(rows[e], "cleanup_failed")))
  BY DEF CleanupFailed, At
<1>2. rows[e].attempts > 0
  BY <1>1 DEF IInv, ControlInv, JobInv
<1>3. StoreInv' /\ SessionInv'
  BY <1>1, <1>2, OthersAgree, CommitMoveKeepsStore
  DEF IInv, ExperimentState, UntouchedStates, OwnedStates, UncertainStates
<1> QED
  BY <1>1, <1>3, ReturnKeepsControl DEF IInv

LEMMA CleanupSucceededKeeps ==
    ASSUME IInv, NEW e \in Experiments, CleanupSucceeded(e)
    PROVE  StoreInv' /\ SessionInv' /\ ControlInv'
<1>1. /\ pc = "conclude" /\ current = e /\ UNCHANGED targetVars /\ ok
      /\ Goto("verify_cleanup") /\ Flush(Write(e, Moved(rows[e], "verifying")))
  BY DEF CleanupSucceeded, At
<1>2. /\ rows[e].state = "cleaning_up" /\ rows[e].attempts > 0 /\ rows[e].context
      /\ e \notin stoppedBy \cup lateStops
      /\ rows[e] \in Row /\ RowInv(e, rows[e])
  BY <1>1 DEF IInv, ControlInv, JobInv, TypeOK, StoreInv
<1>3. "verifying" \in ExperimentState /\ "cleaning_up" \in ExperimentState
  BY DEF ExperimentState
<1>4. RowInv(e, Moved(rows[e], "verifying"))
  BY <1>2, <1>3, MovedRowInv DEF UntouchedStates
<1>5. /\ StoreInv'
      /\ \A f \in Experiments \ {e} : Agrees(f)'
      /\ writing' = TRUE
      /\ rows'[e] = Moved(rows[e], "verifying")
      /\ Ahead(e, "cleaning_up", "verifying")'
  BY <1>1, <1>2, <1>3, <1>4, OthersAgree, FlushMoveKeepsStore DEF IInv
<1>6. pc' = "verify_cleanup" /\ current' = e
  BY <1>1 DEF Goto, jobVars
<1>7. SessionInv'
  BY <1>5, <1>6 DEF SessionInv, Uncommitted
<1>8. JobInv(e)'
  BY <1>2, <1>3, <1>5, <1>6, MovedRow DEF JobInv
<1> QED
  BY <1>1, <1>5, <1>7, <1>8, GotoKeepsControl DEF IInv, CoordinatorLabels

LEMMA VerifyCleanupKeeps ==
    ASSUME IInv, NEW e \in Experiments, VerifyCleanup(e)
    PROVE  StoreInv' /\ SessionInv' /\ ControlInv'
<1>1. /\ pc = "verify_cleanup" /\ current = e /\ UNCHANGED <<storeVars, targetVars>>
      /\ pc' = "observe_after" /\ UNCHANGED <<current, reconciling>>
  BY DEF VerifyCleanup, At, SetOk, StatusCall
<1>2. rows[e].state = "verifying"
  BY <1>1 DEF IInv, ControlInv, JobInv
<1>3. SessionInv'
  BY <1>1 DEF IInv, SessionInv, Agrees, Uncommitted, Ahead, storeVars
<1>4. ControlInv'
  BY <1>1, <1>2 DEF IInv, ControlInv, JobInv, CoordinatorLabels, storeVars
<1> QED
  BY <1>1, <1>3, <1>4, StoreUnchanged DEF IInv

LEMMA ObserveAfterKeeps ==
    ASSUME IInv, NEW e \in Experiments, ObserveAfter(e)
    PROVE  StoreInv' /\ SessionInv' /\ ControlInv'
<1>1. /\ pc = "observe_after" /\ current = e /\ UNCHANGED targetVars
      /\ Goto("verdict")
  BY DEF ObserveAfter, At, SiteCall
<1>2. rows[e].state = "verifying" /\ rows[e] \in Row
  BY <1>1 DEF IInv, ControlInv, JobInv, TypeOK
<1>3. PICK seen \in Observations \ {"none"} :
        Commit(Write(e, [rows[e] EXCEPT !.after = seen]))
  BY DEF ObserveAfter, Observed, Observations
<1> DEFINE row == [rows[e] EXCEPT !.after = seen]
<1>4. /\ row \in Row /\ row.after # "none"
      /\ row.state = rows[e].state /\ row.audit = rows[e].audit
      /\ row.context = rows[e].context /\ row.attempts = rows[e].attempts
  BY <1>2, <1>3 DEF Row
<1>5. VerdictInv(row)
  BY <1>4 DEF VerdictInv
<1>6. StoreInv' /\ SessionInv' /\ rows'[e] = row
  <2> HIDE DEF row
  <2>1. Commit(Write(e, row))
    BY <1>3 DEF row
  <2> QED
    BY <1>1, <1>4, <1>5, <2>1, CommitFieldKeepsStore, OthersAgree
<1>7. JobInv(e)'
  BY <1>1, <1>2, <1>4, <1>6 DEF JobInv, Goto, jobVars
<1> QED
  BY <1>1, <1>6, <1>7, GotoKeepsControl DEF IInv, CoordinatorLabels

LEMMA VerdictKeeps ==
    ASSUME IInv, NEW e \in Experiments, Verdict(e)
    PROVE  StoreInv' /\ SessionInv' /\ ControlInv'
<1>1. /\ pc = "verdict" /\ current = e /\ UNCHANGED targetVars /\ Return
      /\ Commit(Write(e, [Moved(rows[e], FinalState) EXCEPT !.outcome = FinalState]))
  BY DEF Verdict, At
<1>2. rows[e].state = "verifying" /\ rows[e] \in Row
  BY <1>1 DEF IInv, ControlInv, JobInv, TypeOK
<1>3. \A f \in Experiments : Agrees(f)
  BY <1>1, OthersAgree
<1>4. rows[e].after # "none"
  BY <1>2, <1>3, AgreeFields DEF IInv, StoreInv, VerdictInv
<1>5. /\ FinalState \in ExperimentState \cap Outcomes
      /\ FinalState \in {"operator_attention", "cancelled", "passed"}
  BY DEF FinalState, ExperimentState, Outcomes
<1>6. RowInv(e, rows[e])
  BY DEF IInv, StoreInv
<1> DEFINE moved == Moved(rows[e], FinalState)
           row == [moved EXCEPT !.outcome = FinalState]
<1>7. RowInv(e, moved)
  BY <1>2, <1>5, <1>6, MovedRowInv
  DEF RowInv, UntouchedStates, OwnedStates, UncertainStates
<1>8. moved \in Row /\ moved.after # "none"
  BY <1>2, <1>4, <1>5, MovedRow
<1>9. /\ row \in Row /\ row.after = moved.after
      /\ row.state = moved.state /\ row.audit = moved.audit
      /\ row.context = moved.context /\ row.attempts = moved.attempts
  <2> HIDE DEF moved
  <2> QED
    BY <1>5, <1>8 DEF Row
<1>10. StoreInv' /\ SessionInv'
  <2> HIDE DEF moved
  <2>1. Commit(Write(e, row))
    BY <1>1 DEF moved
  <2> HIDE DEF row
  <2>2. RowInv(e, row)
    BY <1>7, <1>8, <1>9, SameRowInv
  <2>3. VerdictInv(row)
    BY <1>8, <1>9 DEF VerdictInv
  <2> QED
    BY <1>1, <1>3, <1>9, <2>1, <2>2, <2>3, CommitKeepsStore DEF IInv
<1> QED
  BY <1>1, <1>10, ReturnKeepsControl DEF IInv

LEMMA ReleaseKeeps ==
    ASSUME IInv, NEW e \in Experiments, Release(e)
    PROVE  StoreInv' /\ SessionInv' /\ ControlInv'
<1>1. /\ pc = "release" /\ current = e /\ UNCHANGED targetVars
      /\ pc' = "idle" /\ IdleJob
      /\ Commit(Write(e, [rows[e] EXCEPT !.lease = "none"]))
  BY DEF Release, At
<1>2. rows[e] \in Row
  BY DEF IInv, TypeOK
<1>3. VerdictInv(rows[e])
  <2>1. CASE Agrees(e)
    BY <2>1, AgreeFields DEF IInv, StoreInv, VerdictInv
  <2>2. CASE Uncommitted(e)
    BY <1>1, <2>2 DEF Uncommitted, Ahead, VerdictInv
  <2> QED
    BY <2>1, <2>2 DEF IInv, SessionInv
<1> DEFINE row == [rows[e] EXCEPT !.lease = "none"]
<1>4. /\ row \in Row /\ row.after = rows[e].after
      /\ row.state = rows[e].state /\ row.audit = rows[e].audit
      /\ row.context = rows[e].context /\ row.attempts = rows[e].attempts
  BY <1>2 DEF Row, Leases
<1>5. StoreInv' /\ SessionInv'
  <2>1. Commit(Write(e, row))
    BY <1>1
  <2> HIDE DEF row
  <2>2. VerdictInv(row)
    BY <1>3, <1>4 DEF VerdictInv
  <2> QED
    BY <1>1, <1>4, <2>1, <2>2, CommitFieldKeepsStore, OthersAgree
<1>6. ControlInv'
  BY <1>1, SupervisorConstants DEF ControlInv, IdleJob, CoordinatorLabels
<1> QED
  BY <1>5, <1>6

-----------------------------------------------------------------------------
(* The tick *)

\* Outside the coordinator the session has no transition of its own to keep.
LEMMA NobodyAhead ==
    ASSUME IInv, pc \notin CoordinatorLabels
    PROVE  current \notin Experiments /\ ~reconciling /\ \A f \in Experiments : Agrees(f)
BY DEF IInv, ControlInv, SessionInv, Uncommitted

\* A step of the tick that neither writes nor starts the coordinator.
LEMMA QuietKeeps ==
    ASSUME IInv, pc \notin CoordinatorLabels, UNCHANGED <<storeVars, targetVars>>,
           UNCHANGED <<current, reconciling>>, pc' \notin CoordinatorLabels
    PROVE  StoreInv' /\ SessionInv' /\ ControlInv'
<1>1. ControlInv'
  BY NobodyAhead DEF ControlInv
<1> QED
  BY <1>1, NobodyAhead, StoreUnchanged, SessionUnchanged DEF IInv

LEMMA QuietTickKeeps ==
    ASSUME IInv,
           \/ BeginTick \/ ReconcileNothing \/ ReadControls \/ ControlsDone
           \/ ClaimNothing \/ Boot \/ \E r \in Requests : RefuseRequest(r)
    PROVE  StoreInv' /\ SessionInv' /\ ControlInv'
<1>1. /\ pc \notin CoordinatorLabels /\ pc' \notin CoordinatorLabels
      /\ UNCHANGED <<storeVars, targetVars>>
      /\ UNCHANGED <<current, reconciling>>
  BY DEF BeginTick, ReconcileNothing, ReadControls, ControlsDone, ClaimNothing, Boot,
     RefuseRequest, Goto, jobVars, CoordinatorLabels
<1> QED
  BY <1>1, QuietKeeps

LEMMA ReconcileInjectingKeeps ==
    ASSUME IInv, NEW e \in Experiments, ReconcileInjecting(e)
    PROVE  StoreInv' /\ SessionInv' /\ ControlInv'
<1>1. /\ pc = "reconcile" /\ UNCHANGED targetVars
      /\ Commit(Write(e, Moved(rows[e], "cleaning_up")))
      /\ pc' = "run" /\ current' = e
  BY DEF ReconcileInjecting
<1>2. "cleaning_up" \in ExperimentState /\ rows[e] \in Row
  BY DEF IInv, TypeOK, ExperimentState
<1>3. StoreInv' /\ SessionInv' /\ rows'[e] = Moved(rows[e], "cleaning_up")
  BY <1>1, <1>2, NobodyAhead, CommitMoveKeepsStore
  DEF IInv, CoordinatorLabels, UntouchedStates, OwnedStates, UncertainStates
<1>4. rows'[e].state = "cleaning_up"
  BY <1>2, <1>3, MovedRow
<1>5. ControlInv'
  BY <1>1, <1>4, SupervisorConstants DEF ControlInv, JobInv, CoordinatorLabels, CleanupStates
<1> QED
  BY <1>3, <1>5

LEMMA ReconcileCleanupKeeps ==
    ASSUME IInv, NEW e \in Experiments, ReconcileCleanup(e)
    PROVE  StoreInv' /\ SessionInv' /\ ControlInv'
<1>1. /\ pc = "reconcile" /\ UNCHANGED <<storeVars, targetVars>>
      /\ rows[e].state \in CleanupStates
      /\ pc' = "run" /\ current' = e
  BY DEF ReconcileCleanup
<1>2. ControlInv'
  BY <1>1, SupervisorConstants
  DEF ControlInv, JobInv, CoordinatorLabels, CleanupStates, storeVars
<1> QED
  BY <1>1, <1>2, NobodyAhead, StoreUnchanged, SessionUnchanged DEF IInv, CoordinatorLabels

LEMMA ApplyRequestKeeps ==
    ASSUME IInv, NEW r \in Requests, ApplyRequest(r)
    PROVE  StoreInv' /\ SessionInv' /\ ControlInv'
<1> DEFINE e == r.experiment
           s == ControlEffect(r)
<1>1. e \in Experiments
  BY DEF Requests
<1>2. /\ pc = "controls" /\ pc' = "complete" /\ UNCHANGED targetVars
      /\ UNCHANGED <<current, reconciling>>
      /\ s # rows[e].state
      /\ ValidTransition(rows[e].state, s)
      /\ Commit(Write(e, Moved(rows[e], s)))
  BY DEF ApplyRequest, jobVars
<1>3. \/ rows[e].state = "planned" /\ s = "cancelled"
      \/ rows[e].state = "active" /\ s = "cancellation_requested"
  BY <1>2 DEF ControlEffect, CancelTarget, ValidTransition, AllowedTransitions,
     ExperimentState
<1>4. RowInv(e, rows[e])
  BY <1>1 DEF IInv, StoreInv
<1>5. StoreInv' /\ SessionInv'
  <2>1. s \in ExperimentState /\ s \notin UntouchedStates
    BY <1>3 DEF ExperimentState, UntouchedStates
  <2>2. s \in OwnedStates => rows[e].context
    BY <1>3, <1>4 DEF RowInv, OwnedStates
  <2>3. e \in stoppedBy \cup lateStops => s \in UncertainStates
    BY <1>3, <1>4 DEF RowInv, UncertainStates
  <2>4. s \notin { "cleanup_failed", "verifying", "passed", "operator_attention" }
    BY <1>3
  <2> HIDE DEF e, s
  <2> QED
    BY <1>1, <1>2, <2>1, <2>2, <2>3, <2>4, NobodyAhead, CommitMoveKeepsStore
    DEF IInv, CoordinatorLabels
<1>6. ControlInv'
  BY <1>2, NobodyAhead DEF ControlInv, CoordinatorLabels
<1> QED
  BY <1>5, <1>6

LEMMA CompleteRequestKeeps ==
    ASSUME IInv, NEW r \in Requests, CompleteRequest(r)
    PROVE  StoreInv' /\ SessionInv' /\ ControlInv'
<1>1. /\ pc \in {"controls", "complete"} /\ pc' = "controls" /\ UNCHANGED targetVars
      /\ UNCHANGED <<current, reconciling>> /\ Commit(rows)
  BY DEF CompleteRequest, Processed, jobVars
<1>2. ControlInv'
  BY <1>1, NobodyAhead DEF ControlInv, CoordinatorLabels
<1> QED
  BY <1>1, <1>2, NobodyAhead, EmptyCommitKeeps DEF CoordinatorLabels

\* Writing a lease changes nothing any part of the invariant looks at.
LEMMA LeaseField ==
    ASSUME NEW row \in Row, NEW lease \in Leases
    PROVE  /\ [row EXCEPT !.lease = lease] \in Row
           /\ [row EXCEPT !.lease = lease].lease = lease
           /\ [row EXCEPT !.lease = lease].state = row.state
           /\ [row EXCEPT !.lease = lease].audit = row.audit
           /\ [row EXCEPT !.lease = lease].context = row.context
           /\ [row EXCEPT !.lease = lease].attempts = row.attempts
           /\ [row EXCEPT !.lease = lease].after = row.after
BY DEF Row

LEMMA ClaimKeeps ==
    ASSUME IInv, NEW e \in Experiments, Claim(e)
    PROVE  StoreInv' /\ SessionInv' /\ ControlInv'
<1> DEFINE row == [rows[e] EXCEPT !.lease = "held"]
<1>1. /\ pc = "claim" /\ UNCHANGED targetVars
      /\ rows[e].state \in ClaimableStates
      /\ Commit(Write(e, row))
      /\ pc' = "run" /\ current' = e /\ reconciling' = reconciling
  BY DEF Claim, Claimable
<1>2. rows[e] \in Row /\ "held" \in Leases
  BY DEF IInv, TypeOK, Leases
<1>3. ~reconciling /\ \A f \in Experiments : Agrees(f)
  BY <1>1, NobodyAhead DEF CoordinatorLabels
<1>4. VerdictInv(rows[e])
  BY <1>3, AgreeFields DEF IInv, StoreInv, VerdictInv
<1>5. /\ row \in Row /\ row.after = rows[e].after
      /\ row.state = rows[e].state /\ row.audit = rows[e].audit
      /\ row.context = rows[e].context /\ row.attempts = rows[e].attempts
  BY <1>2, LeaseField
<1>6. StoreInv' /\ SessionInv' /\ rows'[e] = row
  <2> HIDE DEF row
  <2>1. VerdictInv(row)
    BY <1>4, <1>5 DEF VerdictInv
  <2> QED
    BY <1>1, <1>3, <1>5, <2>1, CommitFieldKeepsStore
<1>7. rows'[e].state \in ClaimableStates
  BY <1>1, <1>5, <1>6
<1>8. ControlInv'
  BY <1>1, <1>3, <1>7, SupervisorConstants
  DEF ControlInv, JobInv, CoordinatorLabels, ClaimableStates
<1> QED
  BY <1>6, <1>8

LEMMA StaleClaimRaisesKeeps ==
    ASSUME IInv, NEW e \in Experiments, StaleClaimRaises(e)
    PROVE  StoreInv' /\ SessionInv' /\ ControlInv'
<1> DEFINE row == [rows[e] EXCEPT !.lease = "held"]
<1>1. /\ pc = "claim" /\ pc' = "idle" /\ UNCHANGED targetVars
      /\ UNCHANGED <<current, reconciling>>
      /\ Flush(Write(e, row))
  BY DEF StaleClaimRaises, Goto, jobVars
<1>2. rows[e] \in Row /\ "held" \in Leases
  BY DEF IInv, TypeOK, Leases
<1>3. \A f \in Experiments : Agrees(f)
  BY <1>1, NobodyAhead DEF CoordinatorLabels
<1>4. /\ \A f \in Experiments : rows'[f] = IF f = e THEN row ELSE rows[f]
      /\ saved' = saved
  BY <1>1 DEF Flush, Write, IInv, TypeOK
<1>5. RowInv(e, row)
  <2>1. RowInv(e, rows[e])
    BY DEF IInv, StoreInv
  <2>2. /\ row \in Row
        /\ row.state = rows[e].state /\ row.audit = rows[e].audit
        /\ row.context = rows[e].context /\ row.attempts = rows[e].attempts
    BY <1>2, LeaseField
  <2> HIDE DEF row
  <2> QED
    BY <1>2, <2>1, <2>2, SameRowInv
<1>6. StoreInv'
  <2> HIDE DEF row
  <2> QED
    BY <1>1, <1>4, <1>5 DEF IInv, StoreInv, RowInv, VerdictInv, targetVars
<1>7. SessionInv'
  <2>1. saved[e] \in Row /\ rows[e] = [saved[e] EXCEPT !.lease = rows[e].lease]
    BY <1>3 DEF IInv, TypeOK, Agrees
  <2>2. row = [saved[e] EXCEPT !.lease = row.lease]
    BY <1>2, <2>1 DEF Row
  <2> HIDE DEF row
  <2> QED
    BY <1>3, <1>4, <2>2 DEF SessionInv, Agrees
<1>8. ControlInv'
  BY <1>1, NobodyAhead DEF ControlInv, CoordinatorLabels
<1> QED
  BY <1>6, <1>7, <1>8

-----------------------------------------------------------------------------
(* Operators, crashes, time and the target *)

\* A step that leaves the agent where it is, and changes of the rows at most
\* fields and rows JobInv does not speak about.
LEMMA ControlUnchanged ==
    ASSUME ControlInv, UNCHANGED <<pc, current, reconciling, ok>>, UNCHANGED targetVars,
           \A e \in Experiments : current = e =>
              /\ rows'[e].state = rows[e].state /\ rows'[e].context = rows[e].context
              /\ rows'[e].attempts = rows[e].attempts
    PROVE  ControlInv'
BY DEF ControlInv, JobInv, targetVars

LEMMA ScheduleKeeps ==
    ASSUME IInv, NEW e \in Experiments, Schedule(e)
    PROVE  StoreInv' /\ SessionInv' /\ ControlInv'
<1>1. /\ ~writing /\ rows[e].state = "absent"
      /\ \A f \in Experiments : rows[f].state \notin Unfinished
      /\ Commit(Write(e, Moved(NoRow, "planned")))
      /\ UNCHANGED <<pc, current, reconciling, ok>> /\ UNCHANGED targetVars
  BY DEF Schedule, OperatorVars, jobVars
<1>2. \A f \in Experiments \ {e} : Agrees(f)
  BY <1>1, OthersAgree
<1> DEFINE row == Moved(NoRow, "planned")
<1>3. /\ row \in Row /\ row.state = "planned" /\ row.audit = {"planned"}
      /\ ~row.context /\ row.attempts = 0
  BY NoRowIsRow, MovedRow DEF NoRow, ExperimentState
<1>4. stopCalls[e] = 0 /\ e \notin stoppedBy \cup lateStops
  BY <1>1 DEF IInv, StoreInv, RowInv, UntouchedStates, TargetInv
<1>5. StoreInv' /\ SessionInv'
  <2> HIDE DEF row
  <2>1. RowInv(e, row)
    BY <1>3, <1>4 DEF RowInv, OwnedStates
  <2>2. VerdictInv(row)
    BY <1>3 DEF VerdictInv
  <2>3. Commit(Write(e, row))
    BY <1>1 DEF row
  <2> QED
    BY <1>1, <1>2, <1>3, <2>1, <2>2, <2>3, CommitKeepsStore DEF IInv
<1>6. ControlInv'
  <2>1. \A f \in Experiments \ {e} : rows'[f] = rows[f]
    BY <1>1 DEF Commit, Write, IInv, TypeOK
  <2>2. rows'[e] = row
    BY <1>1 DEF Commit, Write, IInv, TypeOK
  <2>3. CASE current # e
    BY <1>1, <2>1, <2>3, ControlUnchanged DEF IInv
  <2>4. CASE current = e
    <3>1. JobInv(e)
      BY <2>4 DEF IInv, ControlInv
    <3>2. /\ reconciling => pc \in CoordinatorLabels
          /\ pc \in {"run", "release"}
      BY <1>1, <2>4, <3>1 DEF IInv, ControlInv, JobInv, CoordinatorLabels
    <3>3. pc = "run" => ~reconciling
      BY <1>1, <3>1 DEF JobInv, CleanupStates
    <3>4. JobInv(e)'
      <4> HIDE DEF row
      <4> QED
        BY <1>1, <1>3, <2>2, <3>2, <3>3 DEF JobInv
    <3> QED
      BY <1>1, <2>4, <3>4 DEF IInv, ControlInv
  <2> QED
    BY <2>3, <2>4
<1> QED
  BY <1>5, <1>6

LEMMA CrashKeeps ==
    ASSUME IInv, Crash
    PROVE  StoreInv' /\ SessionInv' /\ ControlInv'
<1>1. /\ pc' = "down" /\ rows' = saved /\ saved' = saved /\ UNCHANGED targetVars
      /\ IdleJob
  BY DEF Crash
<1>2. StoreInv'
  BY <1>1 DEF IInv, StoreInv, RowInv, VerdictInv, targetVars
<1>3. SessionInv'
  <2>1. \A e \in Experiments : [saved[e] EXCEPT !.lease = saved[e].lease] = saved[e]
    BY DEF IInv, TypeOK, Row
  <2> QED
    BY <1>1, <2>1 DEF SessionInv, Agrees
<1>4. ControlInv'
  BY <1>1, SupervisorConstants DEF ControlInv, IdleJob, CoordinatorLabels
<1> QED
  BY <1>2, <1>3, <1>4

LEMMA LeaseRunsOutKeeps ==
    ASSUME IInv, NEW e \in Experiments, LeaseRunsOut(e)
    PROVE  StoreInv' /\ SessionInv' /\ ControlInv'
<1> DEFINE row == [rows[e] EXCEPT !.lease = "run_out"]
           kept == [saved[e] EXCEPT !.lease = "run_out"]
<1>1. /\ current # e /\ UNCHANGED <<pc, current, reconciling, ok>> /\ UNCHANGED targetVars
      /\ writing' = writing
  BY DEF LeaseRunsOut, TimeVars, jobVars
<1>2. /\ \A f \in Experiments : rows'[f] = IF f = e THEN row ELSE rows[f]
      /\ \A f \in Experiments : saved'[f] = IF f = e THEN kept ELSE saved[f]
  BY DEF LeaseRunsOut, Write, IInv, TypeOK
<1>3. rows[e] \in Row /\ saved[e] \in Row /\ "run_out" \in Leases
  BY DEF IInv, TypeOK, Leases
<1>4. RowInv(e, row) /\ RowInv(e, kept) /\ VerdictInv(kept)
  <2>1. RowInv(e, rows[e]) /\ RowInv(e, saved[e]) /\ VerdictInv(saved[e])
    BY DEF IInv, StoreInv
  <2>2. /\ row \in Row
        /\ row.state = rows[e].state /\ row.audit = rows[e].audit
        /\ row.context = rows[e].context /\ row.attempts = rows[e].attempts
    BY <1>3, LeaseField
  <2>3. /\ kept \in Row /\ kept.after = saved[e].after
        /\ kept.state = saved[e].state /\ kept.audit = saved[e].audit
        /\ kept.context = saved[e].context /\ kept.attempts = saved[e].attempts
    BY <1>3, LeaseField
  <2> HIDE DEF row, kept
  <2> QED
    BY <1>3, <2>1, <2>2, <2>3, SameRowInv DEF VerdictInv
<1>5. StoreInv'
  <2> HIDE DEF row, kept
  <2> QED
    BY <1>1, <1>2, <1>4 DEF IInv, StoreInv, RowInv, VerdictInv, targetVars
<1>6. SessionInv'
  <2>1. Agrees(e)
    BY <1>1 DEF IInv, SessionInv, Uncommitted
  <2>2. row = [kept EXCEPT !.lease = row.lease]
    BY <1>3, <2>1 DEF Agrees, Row
  <2> HIDE DEF row, kept
  <2>3. Agrees(e)'
    BY <1>2, <2>2 DEF Agrees
  <2>4. \A f \in Experiments \ {e} : Agrees(f) => Agrees(f)'
    BY <1>2 DEF Agrees
  <2>5. \A f \in Experiments \ {e} : Uncommitted(f) => Uncommitted(f)'
    BY <1>1, <1>2 DEF Uncommitted, Ahead
  <2> QED
    BY <2>3, <2>4, <2>5 DEF IInv, SessionInv
<1>7. ControlInv'
  <2> HIDE DEF row, kept
  <2> QED
    BY <1>1, <1>2, ControlUnchanged DEF IInv
<1> QED
  BY <1>5, <1>6, <1>7

LEMMA BystanderKeeps ==
    ASSUME IInv,
           \/ \E r \in Requests : RequestControl(r)
           \/ \E e \in Experiments : Elapse(e)
           \/ UNCHANGED vars
    PROVE  StoreInv' /\ SessionInv' /\ ControlInv'
<1>1. UNCHANGED <<storeVars, targetVars>> /\ UNCHANGED <<pc, current, reconciling, ok>>
  BY DEF RequestControl, Elapse, OperatorVars, TimeVars, vars, jobVars
<1>2. SessionInv'
  BY <1>1 DEF IInv, SessionInv, Agrees, Uncommitted, Ahead, storeVars
<1>3. ControlInv'
  BY <1>1, ControlUnchanged DEF IInv, storeVars
<1> QED
  BY <1>1, <1>2, <1>3, StoreUnchanged DEF IInv

LEMMA TargetStepKeeps ==
    ASSUME IInv, TargetStep
    PROVE  TargetInv' /\ StoreInv' /\ SessionInv' /\ ControlInv'
<1>1. UNCHANGED storeVars /\ UNCHANGED <<pc, current, reconciling, ok>>
  BY DEF TargetStep, jobVars
<1>2. /\ stopCalls' = stopCalls
      /\ lateStops' \subseteq lateStops
      /\ stoppedBy' \cup lateStops' \subseteq stoppedBy \cup lateStops
  BY DEF TargetStep, TargetChanges, LateStopLands, LateStartLands, OutsideStop,
     OutsideStart, StopTakesEffect, StartTakesEffect
<1>3. TargetInv'
  BY <1>2 DEF IInv, TargetInv
<1>4. StoreInv'
  BY <1>1, <1>2, TargetShrinks DEF IInv, storeVars
<1>5. SessionInv'
  BY <1>1 DEF IInv, SessionInv, Agrees, Uncommitted, Ahead, storeVars
<1>6. ControlInv'
  BY <1>1, <1>2 DEF IInv, ControlInv, JobInv, storeVars
<1> QED
  BY <1>3, <1>4, <1>5, <1>6

-----------------------------------------------------------------------------
(* The inductive invariant *)

\* Of the agent's own steps only an injection and a restoration can disturb
\* what is said of the target alone.
LEMMA TargetInvUnchanged ==
    ASSUME TargetInv, UNCHANGED targetVars
    PROVE  TargetInv'
BY DEF TargetInv, targetVars

LEMMA TargetInvStep ==
    ASSUME IInv, Next
    PROVE  TargetInv'
<1>1. ASSUME NEW e \in Experiments, Inject(e) PROVE TargetInv'
  BY <1>1, InjectKeeps
<1>2. ASSUME NEW e \in Experiments, Restore(e) PROVE TargetInv'
  BY <1>2, RestoreKeeps
<1>3. CASE TargetStep
  BY <1>3, TargetStepKeeps
<1>4. CASE UNCHANGED targetVars
  BY <1>4, TargetInvUnchanged DEF IInv
<1> QED
  BY <1>1, <1>2, <1>3, <1>4, WhoTouchesTheTarget

LEMMA CoordinatorStepKeeps ==
    ASSUME IInv, NEW e \in Experiments, CoordinatorStep(e)
    PROVE  StoreInv' /\ SessionInv' /\ ControlInv'
<1>1. CASE \/ Prepare(e) \/ ScenarioPreflight(e) \/ TargetPreflight(e)
           \/ ObserveBefore(e) \/ StartInjecting(e)
  BY <1>1, PrepareKeeps, ScenarioPreflightKeeps, TargetPreflightKeeps, ObserveBeforeKeeps,
     StartInjectingKeeps
<1>2. CASE \/ Inject(e) \/ SaveContext(e) \/ VerifyActive(e) \/ Activate(e)
           \/ InjectionFailed(e) \/ ExpireActive(e) \/ ObserveDuring(e)
  BY <1>2, InjectKeeps, SaveContextKeeps, VerifyActiveKeeps, AfterInjectionKeeps,
     ObserveDuringKeeps
<1>3. CASE \/ EnterCleanup(e) \/ MarkCancelled(e) \/ Restore(e) \/ RecordAttempt(e)
           \/ CleanupExhausted(e) \/ CleanupFailed(e) \/ CleanupSucceeded(e)
  BY <1>3, EnterCleanupKeeps, MarkCancelledKeeps, RestoreKeeps, RecordAttemptKeeps,
     CleanupExhaustedKeeps, CleanupFailedKeeps, CleanupSucceededKeeps
<1>4. CASE VerifyCleanup(e) \/ ObserveAfter(e) \/ Verdict(e) \/ Release(e)
  BY <1>4, VerifyCleanupKeeps, ObserveAfterKeeps, VerdictKeeps, ReleaseKeeps
<1> QED
  BY <1>1, <1>2, <1>3, <1>4 DEF CoordinatorStep

LEMMA TickStepKeeps ==
    ASSUME IInv, TickStep
    PROVE  StoreInv' /\ SessionInv' /\ ControlInv'
<1>1. CASE \E r \in Requests : ApplyRequest(r) \/ RefuseRequest(r) \/ CompleteRequest(r)
  BY <1>1, ApplyRequestKeeps, CompleteRequestKeeps, QuietTickKeeps
<1>2. CASE \E e \in Experiments :
            ReconcileInjecting(e) \/ ReconcileCleanup(e) \/ Claim(e) \/ StaleClaimRaises(e)
  BY <1>2, ReconcileInjectingKeeps, ReconcileCleanupKeeps, ClaimKeeps, StaleClaimRaisesKeeps
<1>3. CASE BeginTick \/ ReconcileNothing \/ ReadControls \/ ControlsDone \/ ClaimNothing
  BY <1>3, QuietTickKeeps
<1> QED
  BY <1>1, <1>2, <1>3 DEF TickStep

LEMMA InitIInv == Init => IInv
<1> SUFFICES ASSUME Init PROVE IInv
  OBVIOUS
<1>1. TypeOK
  BY InitTypeOK
<1>0. \A e \in Experiments : stopCalls[e] = 0 /\ e \notin stoppedBy \cup lateStops
  BY DEF Init, TargetInit
<1>2. TargetInv
  <2> SUFFICES ASSUME NEW e \in Experiments
               PROVE  stopCalls[e] <= 1 /\ e \notin stoppedBy \cup lateStops
    BY DEF TargetInv
  <2>1. stopCalls[e] = 0
    BY <1>0
  <2>2. stopCalls[e] <= 1
    BY <2>1
  <2>3. e \notin stoppedBy \cup lateStops
    BY <1>0
  <2> QED
    BY <2>2, <2>3
<1>3. StoreInv
  <2>1. \A e \in Experiments : rows[e] = NoRow /\ saved[e] = NoRow
    BY DEF Init
  <2>2. /\ NoRow.state = "absent" /\ NoRow.context = FALSE
        /\ NoRow.audit = {} /\ NoRow.attempts = 0
    BY DEF NoRow
  <2>3. ASSUME NEW e \in Experiments PROVE RowInv(e, NoRow) /\ VerdictInv(NoRow)
    <3>1. stopCalls[e] = 0
      BY <1>0
    <3>2. ~(stopCalls[e] > 0)
      BY <3>1
    <3>3. e \notin stoppedBy \cup lateStops
      BY <1>0
    <3> QED
      BY <2>2, <3>1, <3>2, <3>3 DEF RowInv, VerdictInv, OwnedStates
  <2> QED
    BY <2>1, <2>3 DEF StoreInv
<1>4. SessionInv
  BY DEF Init, SessionInv, Agrees, NoRow
<1>5. ControlInv
  BY SupervisorConstants DEF Init, ControlInv, CoordinatorLabels
<1> QED
  BY <1>1, <1>2, <1>3, <1>4, <1>5 DEF IInv

LEMMA IInvStep == IInv /\ [Next]_vars => IInv'
<1> SUFFICES ASSUME IInv, [Next]_vars PROVE IInv'
  OBVIOUS
<1>1. TypeOK'
  BY TypeStep DEF IInv
<1>2. TargetInv'
  <2>1. CASE UNCHANGED vars
    BY <2>1, TargetInvUnchanged DEF IInv, vars
  <2> QED
    BY <2>1, TargetInvStep
<1>3. StoreInv' /\ SessionInv' /\ ControlInv'
  <2>1. CASE AgentStep
    BY <2>1, TickStepKeeps, CoordinatorStepKeeps DEF AgentStep
  <2>2. CASE OperatorStep
    BY <2>2, ScheduleKeeps, BystanderKeeps DEF OperatorStep
  <2>3. CASE TimeStep
    BY <2>3, LeaseRunsOutKeeps, BystanderKeeps DEF TimeStep
  <2>4. CASE TargetStep
    BY <2>4, TargetStepKeeps
  <2>5. CASE Crash \/ Boot
    BY <2>5, CrashKeeps, QuietTickKeeps
  <2>6. CASE UNCHANGED vars
    BY <2>6, BystanderKeeps
  <2> QED
    BY <2>1, <2>2, <2>3, <2>4, <2>5, <2>6 DEF Next
<1> QED
  BY <1>1, <1>2, <1>3 DEF IInv

\* What the agent's session, the database, the target and the place the
\* coordinator has reached tell of each other holds in every reachable state.
THEOREM InductiveInvariant == Spec => []IInv
BY InitIInv, IInvStep, PTL DEF Spec

-----------------------------------------------------------------------------
(* The safety properties *)

LEMMA IInvImpliesSafety ==
    ASSUME IInv
    PROVE  /\ OutageIsAccounted
           /\ InjectAtMostOnce
           /\ IntentBeforeInjection
           /\ OwnershipIsDurable
           /\ OutcomeHasEvidence
<1>1. OutageIsAccounted
  BY DEF IInv, StoreInv, RowInv, OutageIsAccounted, TypeOK, TargetTypeOK
<1>2. InjectAtMostOnce
  BY DEF IInv, TargetInv, InjectAtMostOnce
<1>3. IntentBeforeInjection
  BY DEF IInv, StoreInv, RowInv, IntentBeforeInjection
<1>4. OwnershipIsDurable
  BY DEF IInv, StoreInv, RowInv, OwnershipIsDurable, OwnedStates
<1>5. OutcomeHasEvidence
  BY DEF IInv, StoreInv, RowInv, VerdictInv, OutcomeHasEvidence
<1> QED
  BY <1>1, <1>2, <1>3, <1>4, <1>5

\* Whatever fails, crashes or comes late, an outage the agent caused, or may
\* still cause, belongs to a row from which the agent goes on to cleanup.
THEOREM OutageAlwaysAccounted == Spec => []OutageIsAccounted
BY InductiveInvariant, IInvImpliesSafety, PTL

\* No number of crashes, reconciliations and retries sends a second stop.
THEOREM NeverInjectsTwice == Spec => []InjectAtMostOnce
BY InductiveInvariant, IInvImpliesSafety, PTL

\* No stop is sent before the intent to send it is committed.
THEOREM IntentIsCommitted == Spec => []IntentBeforeInjection
BY InductiveInvariant, IInvImpliesSafety, PTL

\* A confirmed fault never outlives the evidence its cleanup needs.
THEOREM OwnershipSurvives == Spec => []OwnershipIsDurable
BY InductiveInvariant, IInvImpliesSafety, PTL

\* No outcome is committed without the attempt and the observation behind it.
THEOREM OutcomesAreEvidenced == Spec => []OutcomeHasEvidence
BY InductiveInvariant, IInvImpliesSafety, PTL

=============================================================================
