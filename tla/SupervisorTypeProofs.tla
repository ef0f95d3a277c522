------------------------ MODULE SupervisorTypeProofs ------------------------
(***************************************************************************)
(* Type correctness of Supervisor.tla for every value of its constants.    *)
(* TypeOK is proved in three parts that do not depend on each other: the   *)
(* agent's own variables, the target, and the two views of the store.      *)
(***************************************************************************)
EXTENDS SupervisorInvariant, TLAPS

-----------------------------------------------------------------------------
(* Rows *)

LEMMA MovedRow ==
    ASSUME NEW row \in Row, NEW target \in ExperimentState
    PROVE  /\ Moved(row, target) \in Row
           /\ Moved(row, target).state = target
           /\ Moved(row, target).audit = row.audit \cup {target}
           /\ Moved(row, target).lease = row.lease
           /\ Moved(row, target).context = row.context
           /\ Moved(row, target).outcome = row.outcome
           /\ Moved(row, target).attempts = row.attempts
           /\ Moved(row, target).before = row.before
           /\ Moved(row, target).after = row.after
BY DEF Moved, Row

LEMMA NoRowIsRow == NoRow \in Row
BY SupervisorConstants DEF NoRow, Row, Leases, Outcomes, Observations

StoreTypeOK ==
    /\ rows \in [Experiments -> Row]
    /\ saved \in [Experiments -> Row]
    /\ writing \in BOOLEAN

LEMMA WriteType ==
    ASSUME StoreTypeOK, NEW e \in Experiments, NEW row \in Row,
           Commit(Write(e, row)) \/ Flush(Write(e, row))
    PROVE  StoreTypeOK'
BY DEF StoreTypeOK, Commit, Flush, Write

LEMMA RowFieldTypes ==
    ASSUME NEW row \in Row
    PROVE  /\ \A v \in Leases : [row EXCEPT !.lease = v] \in Row
           /\ [row EXCEPT !.context = TRUE] \in Row
           /\ \A v \in Outcomes : [row EXCEPT !.outcome = v] \in Row
           /\ [row EXCEPT !.attempts = IF @ < AttemptCap THEN @ + 1 ELSE @] \in Row
           /\ \A v \in Observations : [row EXCEPT !.before = v] \in Row
           /\ \A v \in Observations : [row EXCEPT !.after = v] \in Row
<1>1. [row EXCEPT !.attempts = IF @ < AttemptCap THEN @ + 1 ELSE @] \in Row
  <2>1. (IF row.attempts < AttemptCap THEN row.attempts + 1 ELSE row.attempts)
            \in 0..AttemptCap
    BY SupervisorConstants DEF Row
  <2> QED
    BY <2>1 DEF Row
<1>2. \A v \in Leases : [row EXCEPT !.lease = v] \in Row
  BY DEF Row
<1>3. \A v \in Outcomes : [row EXCEPT !.outcome = v] \in Row
  BY DEF Row
<1>4. \A v \in Observations :
        [row EXCEPT !.before = v] \in Row /\ [row EXCEPT !.after = v] \in Row
  BY DEF Row
<1>5. [row EXCEPT !.context = TRUE] \in Row
  BY DEF Row
<1> QED
  BY <1>1, <1>2, <1>3, <1>4, <1>5

AgentTypeOK ==
    /\ pending \subseteq Requests
    /\ processed \subseteq Requests
    /\ overdue \subseteq Experiments
    /\ pc \in Labels
    /\ current \in Experiments \cup {None}
    /\ reconciling \in BOOLEAN
    /\ cancelled \in BOOLEAN
    /\ ok \in BOOLEAN
    /\ batch \subseteq Requests
    /\ serving \subseteq Requests
    /\ reconciled \in BOOLEAN
    /\ crashes \in 0..MaxCrashes

LEMMA AgentTypeStep == AgentTypeOK /\ [Next]_vars => AgentTypeOK'
<1> SUFFICES ASSUME AgentTypeOK, Next PROVE AgentTypeOK'
  BY DEF AgentTypeOK, vars, requestVars, jobVars, tickVars
<1> USE DEF AgentTypeOK, Goto, At, AgentOnly, IdleJob, Return, Raise, requestVars, tickVars, jobVars, Labels
<1>1. CASE BeginTick
  BY <1>1 DEF BeginTick
<1>2. CASE ReconcileNothing
  BY <1>2 DEF ReconcileNothing
<1>3. CASE ReadControls
  BY <1>3 DEF ReadControls
<1>4. CASE ControlsDone
  BY <1>4 DEF ControlsDone
<1>5. CASE ClaimNothing
  BY <1>5 DEF ClaimNothing
<1>6. CASE Crash
  <2>1. crashes' \in 0..MaxCrashes
    BY <1>6, SupervisorConstants DEF Crash
  <2> QED
    BY <1>6, <2>1 DEF Crash
<1>7. CASE Boot
  BY <1>7 DEF Boot
<1>8. ASSUME NEW r \in Requests, ApplyRequest(r) PROVE AgentTypeOK'
  BY <1>8 DEF ApplyRequest
<1>9. ASSUME NEW r \in Requests, RefuseRequest(r) PROVE AgentTypeOK'
  BY <1>9 DEF RefuseRequest
<1>10. ASSUME NEW r \in Requests, CompleteRequest(r) PROVE AgentTypeOK'
  BY <1>10 DEF CompleteRequest, Processed
<1>11. ASSUME NEW r \in Requests, RequestControl(r) PROVE AgentTypeOK'
  BY <1>11 DEF RequestControl, OperatorVars
<1>12. ASSUME NEW e \in Experiments, ReconcileInjecting(e) PROVE AgentTypeOK'
  BY <1>12 DEF ReconcileInjecting
<1>13. ASSUME NEW e \in Experiments, ReconcileCleanup(e) PROVE AgentTypeOK'
  BY <1>13 DEF ReconcileCleanup
<1>14. ASSUME NEW e \in Experiments, Claim(e) PROVE AgentTypeOK'
  BY <1>14 DEF Claim
<1>15. ASSUME NEW e \in Experiments, StaleClaimRaises(e) PROVE AgentTypeOK'
  BY <1>15 DEF StaleClaimRaises
<1>16. ASSUME NEW e \in Experiments, Prepare(e) PROVE AgentTypeOK'
  BY <1>16 DEF Prepare
<1>17. ASSUME NEW e \in Experiments, ScenarioPreflight(e) PROVE AgentTypeOK'
  BY <1>17 DEF ScenarioPreflight, RefusePreflight, StatusReplies
<1>18. ASSUME NEW e \in Experiments, TargetPreflight(e) PROVE AgentTypeOK'
  BY <1>18 DEF TargetPreflight, RefusePreflight
<1>19. ASSUME NEW e \in Experiments, ObserveBefore(e) PROVE AgentTypeOK'
  BY <1>19 DEF ObserveBefore
<1>20. ASSUME NEW e \in Experiments, StartInjecting(e) PROVE AgentTypeOK'
  BY <1>20 DEF StartInjecting
<1>21. ASSUME NEW e \in Experiments, Inject(e) PROVE AgentTypeOK'
  BY <1>21 DEF Inject
<1>22. ASSUME NEW e \in Experiments, SaveContext(e) PROVE AgentTypeOK'
  BY <1>22 DEF SaveContext
<1>23. ASSUME NEW e \in Experiments, VerifyActive(e) PROVE AgentTypeOK'
  BY <1>23 DEF VerifyActive
<1>24. ASSUME NEW e \in Experiments, Activate(e) PROVE AgentTypeOK'
  BY <1>24 DEF Activate
<1>25. ASSUME NEW e \in Experiments, InjectionFailed(e) PROVE AgentTypeOK'
  BY <1>25 DEF InjectionFailed
<1>26. ASSUME NEW e \in Experiments, ExpireActive(e) PROVE AgentTypeOK'
  BY <1>26 DEF ExpireActive
<1>27. ASSUME NEW e \in Experiments, ObserveDuring(e) PROVE AgentTypeOK'
  BY <1>27 DEF ObserveDuring
<1>28. ASSUME NEW e \in Experiments, EnterCleanup(e) PROVE AgentTypeOK'
  BY <1>28 DEF EnterCleanup, CancellationKnown
<1>29. ASSUME NEW e \in Experiments, MarkCancelled(e) PROVE AgentTypeOK'
  BY <1>29 DEF MarkCancelled
<1>30. ASSUME NEW e \in Experiments, Restore(e) PROVE AgentTypeOK'
  BY <1>30 DEF Restore, SetOk
<1>31. ASSUME NEW e \in Experiments, RecordAttempt(e) PROVE AgentTypeOK'
  BY <1>31 DEF RecordAttempt
<1>32. ASSUME NEW e \in Experiments, CleanupExhausted(e) PROVE AgentTypeOK'
  BY <1>32 DEF CleanupExhausted
<1>33. ASSUME NEW e \in Experiments, CleanupFailed(e) PROVE AgentTypeOK'
  BY <1>33 DEF CleanupFailed
<1>34. ASSUME NEW e \in Experiments, CleanupSucceeded(e) PROVE AgentTypeOK'
  BY <1>34 DEF CleanupSucceeded
<1>35. ASSUME NEW e \in Experiments, VerifyCleanup(e) PROVE AgentTypeOK'
  BY <1>35 DEF VerifyCleanup, SetOk
<1>36. ASSUME NEW e \in Experiments, ObserveAfter(e) PROVE AgentTypeOK'
  BY <1>36 DEF ObserveAfter
<1>37. ASSUME NEW e \in Experiments, Verdict(e) PROVE AgentTypeOK'
  BY <1>37 DEF Verdict
<1>38. ASSUME NEW e \in Experiments, Release(e) PROVE AgentTypeOK'
  BY <1>38 DEF Release
<1>39. ASSUME NEW e \in Experiments, Schedule(e) PROVE AgentTypeOK'
  BY <1>39 DEF Schedule, OperatorVars
<1>40. ASSUME NEW e \in Experiments, Elapse(e) PROVE AgentTypeOK'
  BY <1>40 DEF Elapse, TimeVars
<1>41. ASSUME NEW e \in Experiments, LeaseRunsOut(e) PROVE AgentTypeOK'
  BY <1>41 DEF LeaseRunsOut, TimeVars
<1>42. CASE TargetStep
  BY <1>42 DEF TargetStep
<1> QED
  BY <1>1, <1>2, <1>3, <1>4, <1>5, <1>6, <1>7, <1>8, <1>9, <1>10, <1>11, <1>12, <1>13, <1>14, <1>15, <1>16, <1>17, <1>18, <1>19, <1>20, <1>21, <1>22, <1>23, <1>24, <1>25, <1>26, <1>27, <1>28, <1>29, <1>30, <1>31, <1>32, <1>33, <1>34, <1>35, <1>36, <1>37, <1>38, <1>39, <1>40, <1>41, <1>42 DEF Next, AgentStep, TickStep, CoordinatorStep, OperatorStep, TimeStep

LEMMA StopCallType ==
    ASSUME TargetTypeOK, NEW e \in Experiments, NEW verified, StopCall(e, verified)
    PROVE  TargetTypeOK'
<1>1. (IF stopCalls[e] = 0 THEN 1 ELSE 2) \in 0..2
  OBVIOUS
<1>2. stopCalls' \in [Experiments -> 0..2]
  BY <1>1 DEF StopCall, TargetTypeOK
<1> QED
  BY <1>2 DEF StopCall, StopTakesEffect, TargetTypeOK

LEMMA StartCallType ==
    ASSUME TargetTypeOK, NEW verified, StartCall(verified)
    PROVE  TargetTypeOK'
BY DEF StartCall, StartTakesEffect, TargetTypeOK

LEMMA TargetChangesType ==
    ASSUME TargetTypeOK, TargetChanges
    PROVE  TargetTypeOK'
BY DEF TargetTypeOK, TargetChanges, LateStopLands, LateStartLands, OutsideStop,
       OutsideStart, StopTakesEffect, StartTakesEffect

\* Only an injection, a restoration and the target itself change the target.
LEMMA WhoTouchesTheTarget ==
    ASSUME Next
    PROVE  \/ \E e \in Experiments : Inject(e) \/ Restore(e)
           \/ TargetStep
           \/ UNCHANGED targetVars
<1>1. CASE TickStep
  BY <1>1 DEF TickStep, BeginTick, ReconcileNothing, ReadControls, ControlsDone,
       ClaimNothing, ApplyRequest, RefuseRequest, CompleteRequest, Processed,
       ReconcileInjecting, ReconcileCleanup, Claim, StaleClaimRaises
<1>2. ASSUME NEW e \in Experiments, CoordinatorStep(e)
      PROVE  Inject(e) \/ Restore(e) \/ UNCHANGED targetVars
  <2>1. CASE Prepare(e) \/ ScenarioPreflight(e) \/ TargetPreflight(e) \/ ObserveBefore(e)
             \/ StartInjecting(e)
    BY <2>1 DEF Prepare, ScenarioPreflight, TargetPreflight, ObserveBefore, StartInjecting,
         StatusCall, SiteCall
  <2>2. CASE SaveContext(e) \/ VerifyActive(e) \/ Activate(e) \/ InjectionFailed(e)
             \/ ExpireActive(e) \/ ObserveDuring(e)
    BY <2>2 DEF SaveContext, VerifyActive, Activate, InjectionFailed, ExpireActive,
         ObserveDuring, StatusCall
  <2>3. CASE EnterCleanup(e) \/ MarkCancelled(e) \/ RecordAttempt(e) \/ CleanupExhausted(e)
             \/ CleanupFailed(e) \/ CleanupSucceeded(e)
    BY <2>3 DEF EnterCleanup, MarkCancelled, RecordAttempt, CleanupExhausted, CleanupFailed,
         CleanupSucceeded
  <2>4. CASE VerifyCleanup(e) \/ ObserveAfter(e) \/ Verdict(e) \/ Release(e)
    BY <2>4 DEF VerifyCleanup, ObserveAfter, Verdict, Release, StatusCall, SiteCall
  <2> QED
    BY <1>2, <2>1, <2>2, <2>3, <2>4 DEF CoordinatorStep
<1>3. CASE OperatorStep \/ TimeStep \/ Crash \/ Boot
  BY <1>3 DEF OperatorStep, TimeStep, Crash, Boot, Schedule, RequestControl, Elapse,
       LeaseRunsOut, OperatorVars, TimeVars
<1> QED
  BY <1>1, <1>2, <1>3 DEF Next, AgentStep

LEMMA TargetTypeStep == TargetTypeOK /\ [Next]_vars => TargetTypeOK'
<1> SUFFICES ASSUME TargetTypeOK, Next PROVE TargetTypeOK'
  BY DEF TargetTypeOK, vars, targetVars
<1>1. ASSUME NEW e \in Experiments, Inject(e) PROVE TargetTypeOK'
  BY <1>1, StopCallType DEF Inject
<1>2. ASSUME NEW e \in Experiments, Restore(e) PROVE TargetTypeOK'
  <2>1. CASE UNCHANGED targetVars
    BY <2>1 DEF TargetTypeOK, targetVars
  <2> QED
    BY <1>2, <2>1, StartCallType DEF Restore
<1>3. CASE TargetStep
  BY <1>3, TargetChangesType DEF TargetStep
<1>4. CASE UNCHANGED targetVars
  BY <1>4 DEF TargetTypeOK, targetVars
<1> QED
  BY <1>1, <1>2, <1>3, <1>4, WhoTouchesTheTarget


LEMMA StoreTypeStep == StoreTypeOK /\ [Next]_vars => StoreTypeOK'
<1> SUFFICES ASSUME StoreTypeOK, Next PROVE StoreTypeOK'
  BY DEF StoreTypeOK, vars, storeVars
<1>0. UNCHANGED storeVars => StoreTypeOK'
  BY DEF StoreTypeOK, storeVars
<1>1. \A e \in Experiments : rows[e] \in Row /\ saved[e] \in Row
  BY DEF StoreTypeOK
<1>2. ASSUME NEW e \in Experiments, NEW row \in Row,
             Commit(Write(e, row)) \/ Flush(Write(e, row))
      PROVE  StoreTypeOK'
  BY <1>2, WriteType
<1>3. ASSUME NEW e \in Experiments, NEW s \in ExperimentState,
             Commit(Write(e, Moved(rows[e], s))) \/ Flush(Write(e, Moved(rows[e], s)))
      PROVE  StoreTypeOK'
  BY <1>1, <1>2, <1>3, MovedRow
<1>4. ASSUME NEW e \in Experiments, ReconcileInjecting(e) PROVE StoreTypeOK'
  BY <1>4, <1>3 DEF ReconcileInjecting, ExperimentState
<1>5. ASSUME NEW e \in Experiments, ReconcileCleanup(e) PROVE StoreTypeOK'
  BY <1>5, <1>0 DEF ReconcileCleanup
<1>6. ASSUME NEW e \in Experiments, Claim(e) PROVE StoreTypeOK'
  BY <1>6, <1>1, <1>2, RowFieldTypes DEF Claim, Leases
<1>7. ASSUME NEW e \in Experiments, StaleClaimRaises(e) PROVE StoreTypeOK'
  BY <1>7, <1>1, <1>2, RowFieldTypes DEF StaleClaimRaises, Leases
<1>8. ASSUME NEW e \in Experiments, Prepare(e) PROVE StoreTypeOK'
  BY <1>8, <1>0, <1>3 DEF Prepare, ExperimentState
<1>9. ASSUME NEW e \in Experiments, ScenarioPreflight(e) PROVE StoreTypeOK'
  BY <1>9, <1>0, <1>3 DEF ScenarioPreflight, RefusePreflight, StatusReplies, ExperimentState
<1>10. ASSUME NEW e \in Experiments, TargetPreflight(e) PROVE StoreTypeOK'
  BY <1>10, <1>0, <1>3 DEF TargetPreflight, RefusePreflight, StatusReplies, ExperimentState
<1>11. ASSUME NEW e \in Experiments, ObserveBefore(e) PROVE StoreTypeOK'
  BY <1>11, <1>1, <1>2, RowFieldTypes DEF ObserveBefore, Observed, Observations
<1>12. ASSUME NEW e \in Experiments, StartInjecting(e) PROVE StoreTypeOK'
  BY <1>12, <1>3 DEF StartInjecting, ExperimentState
<1>13. ASSUME NEW e \in Experiments, Inject(e) PROVE StoreTypeOK'
  BY <1>13, <1>0 DEF Inject
<1>14. ASSUME NEW e \in Experiments, SaveContext(e) PROVE StoreTypeOK'
  BY <1>14, <1>1, <1>2, RowFieldTypes DEF SaveContext
<1>15. ASSUME NEW e \in Experiments, VerifyActive(e) PROVE StoreTypeOK'
  BY <1>15, <1>0 DEF VerifyActive
<1>16. ASSUME NEW e \in Experiments, Activate(e) PROVE StoreTypeOK'
  BY <1>16, <1>3 DEF Activate, ExperimentState
<1>17. ASSUME NEW e \in Experiments, InjectionFailed(e) PROVE StoreTypeOK'
  BY <1>17, <1>3 DEF InjectionFailed, ExperimentState
<1>18. ASSUME NEW e \in Experiments, ExpireActive(e) PROVE StoreTypeOK'
  BY <1>18, <1>3 DEF ExpireActive, ExperimentState
<1>19. ASSUME NEW e \in Experiments, ObserveDuring(e) PROVE StoreTypeOK'
  BY <1>19 DEF ObserveDuring, Commit, StoreTypeOK
<1>20. ASSUME NEW e \in Experiments, EnterCleanup(e) PROVE StoreTypeOK'
  BY <1>20, <1>0, <1>3 DEF EnterCleanup, ExperimentState
<1>21. ASSUME NEW e \in Experiments, MarkCancelled(e) PROVE StoreTypeOK'
  BY <1>21, <1>1, <1>2, RowFieldTypes DEF MarkCancelled, Outcomes
<1>22. ASSUME NEW e \in Experiments, Restore(e) PROVE StoreTypeOK'
  BY <1>22, <1>0 DEF Restore
<1>23. ASSUME NEW e \in Experiments, RecordAttempt(e) PROVE StoreTypeOK'
  BY <1>23, <1>1, <1>2, RowFieldTypes DEF RecordAttempt
<1>24. ASSUME NEW e \in Experiments, CleanupExhausted(e) PROVE StoreTypeOK'
  BY <1>24, <1>0, <1>3 DEF CleanupExhausted, ExperimentState
<1>25. ASSUME NEW e \in Experiments, CleanupFailed(e) PROVE StoreTypeOK'
  BY <1>25, <1>3 DEF CleanupFailed, ExperimentState
<1>26. ASSUME NEW e \in Experiments, CleanupSucceeded(e) PROVE StoreTypeOK'
  BY <1>26, <1>3 DEF CleanupSucceeded, ExperimentState
<1>27. ASSUME NEW e \in Experiments, VerifyCleanup(e) PROVE StoreTypeOK'
  BY <1>27, <1>0 DEF VerifyCleanup
<1>28. ASSUME NEW e \in Experiments, ObserveAfter(e) PROVE StoreTypeOK'
  BY <1>28, <1>1, <1>2, RowFieldTypes DEF ObserveAfter, Observed, Observations
<1>29. ASSUME NEW e \in Experiments, Verdict(e) PROVE StoreTypeOK'
  BY <1>29, <1>1, <1>2, MovedRow, RowFieldTypes DEF Verdict, FinalState, Outcomes, ExperimentState
<1>30. ASSUME NEW e \in Experiments, Release(e) PROVE StoreTypeOK'
  BY <1>30, <1>1, <1>2, RowFieldTypes DEF Release, Leases
<1>31. ASSUME NEW e \in Experiments, Schedule(e) PROVE StoreTypeOK'
  BY <1>31, <1>2, MovedRow, NoRowIsRow DEF Schedule, ExperimentState
<1>32. ASSUME NEW e \in Experiments, Elapse(e) PROVE StoreTypeOK'
  BY <1>32, <1>0 DEF Elapse
<1>33. ASSUME NEW e \in Experiments, LeaseRunsOut(e) PROVE StoreTypeOK'
  BY <1>33, <1>1, RowFieldTypes DEF LeaseRunsOut, Write, Leases, StoreTypeOK
<1>34. ASSUME NEW r \in Requests, ApplyRequest(r) PROVE StoreTypeOK'
  <2>1. r.experiment \in Experiments
    BY DEF Requests
  <2>2. ControlEffect(r) \in ExperimentState
    BY <1>34 DEF ApplyRequest, ControlEffect, CancelTarget, ExperimentState
  <2> QED
    BY <1>34, <1>3, <2>1, <2>2 DEF ApplyRequest
<1>35. ASSUME NEW r \in Requests, CompleteRequest(r) PROVE StoreTypeOK'
  BY <1>35 DEF CompleteRequest, Processed, Commit, StoreTypeOK
<1>36. ASSUME NEW r \in Requests, RefuseRequest(r) \/ RequestControl(r) PROVE StoreTypeOK'
  BY <1>36, <1>0 DEF RefuseRequest, RequestControl
<1>37. CASE BeginTick \/ ReconcileNothing \/ ReadControls \/ ControlsDone \/ ClaimNothing
           \/ Boot \/ TargetStep
  BY <1>37, <1>0 DEF BeginTick, ReconcileNothing, ReadControls, ControlsDone, ClaimNothing,
       Boot, TargetStep
<1>38. CASE Crash
  BY <1>38 DEF Crash, StoreTypeOK
<1> QED
  BY <1>4, <1>5, <1>6, <1>7, <1>8, <1>9, <1>10, <1>11, <1>12, <1>13, <1>14, <1>15, <1>16, <1>17, <1>18, <1>19, <1>20, <1>21, <1>22, <1>23, <1>24, <1>25, <1>26, <1>27, <1>28, <1>29, <1>30, <1>31, <1>32, <1>33, <1>34, <1>35, <1>36, <1>37, <1>38 DEF Next, AgentStep, TickStep, CoordinatorStep, OperatorStep, TimeStep

-----------------------------------------------------------------------------
(* Type correctness *)

LEMMA TypeParts == TypeOK <=> AgentTypeOK /\ TargetTypeOK /\ StoreTypeOK
BY DEF TypeOK, AgentTypeOK, StoreTypeOK

LEMMA InitTypeOK == Init => TypeOK
<1> SUFFICES ASSUME Init PROVE TypeOK
  OBVIOUS
<1>1. AgentTypeOK
  <2>1. crashes \in 0..MaxCrashes
    BY SupervisorConstants DEF Init
  <2> QED
    BY <2>1 DEF Init, AgentTypeOK, Labels
<1>2. TargetTypeOK
  <2>1. 0 \in 0..2
    OBVIOUS
  <2> QED
    BY <2>1 DEF Init, TargetInit, TargetTypeOK
<1>3. StoreTypeOK
  BY NoRowIsRow DEF Init, StoreTypeOK
<1> QED
  BY <1>1, <1>2, <1>3, TypeParts

LEMMA TypeStep == TypeOK /\ [Next]_vars => TypeOK'
<1> SUFFICES ASSUME TypeOK, [Next]_vars PROVE TypeOK'
  OBVIOUS
<1>1. AgentTypeOK' /\ TargetTypeOK' /\ StoreTypeOK'
  BY TypeParts, AgentTypeStep, TargetTypeStep, StoreTypeStep
<1> QED
  BY <1>1 DEF TypeOK, AgentTypeOK, StoreTypeOK

\* Every variable keeps its type: no handler of the agent, no operator, no
\* crash and no change on the target leaves the vocabulary of the schema.
THEOREM TypeCorrect == Spec => []TypeOK
BY InitTypeOK, TypeStep, PTL DEF Spec

=============================================================================
