---------------------------- MODULE FleetProofs -----------------------------
(***************************************************************************)
(* What holds for every number of supervisor processes and experiments:    *)
(* the types, the gapless audit trail and its policy, the final verdict    *)
(* and the shared life cycle, whoever has the claim; and, because the      *)
(* claim of a run-out lease raises, the exclusive claim, the single stop   *)
(* and the outage that stays accounted for.                                *)
(*                                                                         *)
(* A trail stays gapless because a session only moves a row whose revision *)
(* is that of its copy, and only rows that are there: whatever a process   *)
(* has at hand has been scheduled (PresentInv), and rows never go away.    *)
(*                                                                         *)
(* A copy is an earlier point of its row's trail, so one with the row's    *)
(* revision is the row, and what validate_transition lets pass on the copy *)
(* is valid for the row.  The exception is the copy a claimed process      *)
(* keeps when its activation conflicts; all it can make of it is           *)
(* "expired", on a row that is past its injection (CopyInv).  At most one  *)
(* transition of a row is written and not committed, and one of two        *)
(* (FlushInv), so the committed rows move by one edge or by the refusal of *)
(* an uncommitted preflight.  And a process that goes on as if the stop    *)
(* had been sent has seen to it, or read what the one that did has         *)
(* committed (KnowInv, EffectInv).                                         *)
(*                                                                         *)
(* A claim stays exclusive because the row of a claimed experiment has an  *)
(* owner until the process that claimed it lets it go (OwnedInv).  Then    *)
(* "injecting" is entered and taken up once, by the holder of the claim,   *)
(* and its stop is the first (StopInv); and a row that may have an outage  *)
(* behind it is closed only by who has undone it (UndoInv).                *)
(***************************************************************************)
EXTENDS FleetInvariant, FiniteSets, TLAPS

USE FleetConstants DEF FleetConstants

-----------------------------------------------------------------------------
(* What a step of a process makes of the store *)

LEMMA AtWork ==
  ASSUME FleetIInv, NEW a \in Agents, agent[a].pc \notin JoblessLabels
  PROVE  Job(a) \in Present /\ Job(a) \in Experiments
  BY DEF FleetIInv, PresentInv, ProcessOK, Job, Present

\* One transition more.
MovedOn(a, e, r, s) ==
    /\ e = Job(a) /\ Transits(a) /\ Moves(a) /\ r = View(a)[e]
    /\ r.state # "absent" /\ s.state = Goal(a) /\ s.state \in ExperimentState
    /\ s.revision = r.revision + 1
    /\ s.audit = r.audit \cup {[sequence |-> r.revision + 2, to |-> s.state]}

\* Only its own process lets a row go, and only who saves a context has one.
Lets(a, e) == At(a, "release") /\ e = Job(a)
Learns(a, e) == At(a, "save_context") /\ e = Job(a)

Follows(a, e, r, s) ==
    /\ s \in Row
    /\ Kept(r, s) \/ MovedOn(a, e, r, s)
    /\ s.owner = None /\ ~Lets(a, e) => r.owner = None
    /\ s.context => r.context \/ Learns(a, e)

RowsFollow(a, newRows) ==
    /\ newRows \in [Experiments -> Row]
    /\ \A e \in Experiments : Follows(a, e, View(a)[e], newRows[e])

\* A step commits, writes and keeps the lock, gives up what it has written, or
\* leaves the store alone.
Writes(a, newRows) ==
    CanWrite(a) /\ saved' = saved /\ rows' = newRows /\ writer' = a

StoreMoves(a) ==
    \/ UNCHANGED storeVars
    \/ \E newRows : RowsFollow(a, newRows) /\ (Commit(a, newRows) \/ Writes(a, newRows))
    \/ Rollback(a)
    \/ Die(a)

StoreFollows(a) ==
    /\ saved' \in [Experiments -> Row] /\ rows' \in [Experiments -> Row]
    /\ writer' \in Agents \cup {None}
    /\ \A e \in Experiments :
          /\ Follows(a, e, saved[e], saved'[e]) \/ Follows(a, e, rows[e], saved'[e])
          /\ Follows(a, e, saved[e], rows'[e]) \/ Follows(a, e, rows[e], rows'[e])

LEMMA ViewTyped ==
  ASSUME FleetTypeOK, NEW a \in Agents
  PROVE  /\ View(a) \in [Experiments -> Row]
         /\ View(a) = saved \/ View(a) = rows
  BY DEF FleetTypeOK, View

LEMMA ViewFollows ==
  ASSUME FleetTypeOK, NEW a \in Agents PROVE RowsFollow(a, View(a))
  BY ViewTyped DEF RowsFollow, Follows, Kept

LEMMA KeptFollows ==
  ASSUME NEW a \in Agents, NEW e \in Experiments, NEW r \in Row
  PROVE  Follows(a, e, r, r)
  BY DEF Follows, Kept

LEMMA OneRowFollows ==
  ASSUME FleetTypeOK, NEW a \in Agents, Job(a) \in Experiments, NEW s,
         Follows(a, Job(a), View(a)[Job(a)], s)
  PROVE  RowsFollow(a, Update(a, Job(a), s))
<1>1. s \in Row
  BY DEF Follows
<1>2. View(a) \in [Experiments -> Row]
  BY ViewTyped
<1>3. \A e \in Experiments : Follows(a, e, View(a)[e], View(a)[e])
  BY <1>2, KeptFollows
<1> QED
  BY <1>1, <1>2, <1>3 DEF RowsFollow, Update

LEMMA TransitionFields ==
  ASSUME NEW r \in Row, NEW state \in ExperimentState, NEW revision \in Nat,
         NEW audit \in SUBSET AuditEntry
  PROVE  [r EXCEPT !.state = state, !.revision = revision, !.audit = audit] \in Row
  BY DEF Row

LEMMA MovedFollows ==
  ASSUME FleetIInv, NEW a \in Agents, Transits(a), Moves(a)
  PROVE  LET r == View(a)[Job(a)]
             s == Moved(r, Copy(a).revision, Goal(a))
         IN  /\ r \in Row /\ s \in Row /\ MovedOn(a, Job(a), r, s)
             /\ s.owner = r.owner /\ s.context = r.context
<1>0. agent[a].pc \notin JoblessLabels
  BY DEF Transits, MoveLabels, JoblessLabels
<1>1. Job(a) \in Experiments /\ Job(a) \in Present
  BY <1>0, AtWork
<1>2. /\ View(a)[Job(a)] \in Row /\ View(a)[Job(a)].state # "absent"
      /\ Copy(a) \in CopyOf /\ Copy(a).state # "absent"
  BY <1>1, ViewTyped
     DEF FleetIInv, FleetTypeOK, PresentInv, Present, Copy, Moves, Loaded
<1>3. Goal(a) \in ExperimentState
  <2>1. Copy(a).state \in ExperimentState
    BY <1>2 DEF CopyOf
  <2>2. AllowedTransitions[Copy(a).state] \subseteq ExperimentState
    BY <2>1 DEF AllowedTransitions, ExperimentState
  <2> QED
    BY <2>2 DEF Moves, ValidTransition
<1> DEFINE r == View(a)[Job(a)]
           s == Moved(r, Copy(a).revision, Goal(a))
<1>4. r.revision = Copy(a).revision /\ r.revision \in Nat
  BY <1>2 DEF Moves, Row
<1>5. [sequence |-> r.revision + 2, to |-> Goal(a)] \in AuditEntry
  BY <1>3, <1>4 DEF AuditEntry
<1> HIDE DEF r
<1>6. r \in Row => s \in Row
  <2> DEFINE audit == r.audit \cup {[sequence |-> r.revision + 2, to |-> Goal(a)]}
             revision == r.revision + 1
  <2>1. r \in Row =>
          s = [r EXCEPT !.state = Goal(a), !.revision = revision, !.audit = audit]
    BY <1>4 DEF Moved, Row
  <2>2. r \in Row => audit \in SUBSET AuditEntry
    BY <1>5 DEF Row
  <2>3. revision \in Nat
    BY <1>4
  <2> HIDE DEF s, audit, revision
  <2>4. ASSUME r \in Row
        PROVE  [r EXCEPT !.state = Goal(a), !.revision = revision, !.audit = audit] \in Row
    BY <1>3, <2>2, <2>3, <2>4, TransitionFields
  <2> QED
    BY <2>1, <2>4
<1>7. r \in Row => /\ s.state = Goal(a) /\ s.revision = r.revision + 1 /\ s.owner = r.owner
                   /\ s.context = r.context
                   /\ s.audit = r.audit \cup {[sequence |-> r.revision + 2, to |-> Goal(a)]}
  BY <1>4 DEF Moved, Row
<1> QED
  BY <1>2, <1>3, <1>6, <1>7 DEF r, MovedOn

LEMMA MoveFollows ==
  ASSUME FleetIInv, NEW a \in Agents, Transits(a), Moves(a)
  PROVE  RowsFollow(a, MovedRows(a))
<1> DEFINE r == View(a)[Job(a)]
           s == Moved(r, Copy(a).revision, Goal(a))
<1>1. Follows(a, Job(a), r, s)
  BY MovedFollows DEF Follows
<1> HIDE DEF r, s
<1>2. agent[a].pc \notin JoblessLabels
  BY DEF Transits, MoveLabels, JoblessLabels
<1>3. RowsFollow(a, Update(a, Job(a), s))
  BY <1>1, <1>2, AtWork, OneRowFollows DEF FleetIInv, r
<1> QED
  BY <1>3 DEF MovedRows, r, s

\* The updates that leave the transitions alone.
LEMMA UpdateFollows ==
  ASSUME FleetIInv, NEW a \in Agents, agent[a].pc \notin JoblessLabels, NEW s \in Row,
         Kept(View(a)[Job(a)], s),
         s.owner = None /\ ~At(a, "release") => View(a)[Job(a)].owner = None,
         s.context => View(a)[Job(a)].context \/ At(a, "save_context")
  PROVE  RowsFollow(a, Update(a, Job(a), s))
<1>1. Follows(a, Job(a), View(a)[Job(a)], s)
  BY DEF Follows, Lets, Learns
<1> QED
  BY <1>1, AtWork, OneRowFollows DEF FleetIInv

LEMMA CommitsTheView ==
  ASSUME FleetIInv, NEW a \in Agents, Commit(a, View(a)) PROVE StoreMoves(a)
  BY ViewFollows DEF FleetIInv, StoreMoves

LEMMA CommitsTheMove ==
  ASSUME FleetIInv, NEW a \in Agents, Transits(a), Moves(a), Commit(a, MovedRows(a))
  PROVE  StoreMoves(a)
  BY MoveFollows DEF StoreMoves

\* Where a move is made without asking whether to make it.
LEMMA MovesTransit ==
  ASSUME NEW a \in Agents, Moves(a), agent[a].pc \in MoveLabels \ {"injection_failed", "cancel"}
  PROVE  Transits(a)
  BY DEF Transits, Moves, At

LEMMA RowAtHand ==
  ASSUME FleetIInv, NEW a \in Agents, agent[a].pc \notin JoblessLabels
  PROVE  View(a)[Job(a)] \in Row
  BY AtWork, ViewTyped DEF FleetIInv

\* A claim, raised or won, and a release write the lease and nothing else.
LEMMA LeaseFollows ==
  ASSUME FleetIInv, NEW a \in Agents, agent[a].pc \notin JoblessLabels
  PROVE  /\ RowsFollow(a, Leased(a))
         /\ At(a, "release") => RowsFollow(a, Released(a))
<1> DEFINE r == View(a)[Job(a)]
<1>1. r \in Row /\ None \notin Agents
  BY RowAtHand
<1>2. RowsFollow(a, View(a))
  BY ViewFollows DEF FleetIInv
<1>3. RowsFollow(a, Update(a, Job(a), [r EXCEPT !.owner = a, !.lapsed = FALSE]))
  <2> DEFINE s == [r EXCEPT !.owner = a, !.lapsed = FALSE]
  <2>1. s \in Row /\ Kept(r, s) /\ s.owner = a /\ s.context = r.context
    BY <1>1 DEF Row, Kept
  <2> HIDE DEF s
  <2>2. RowsFollow(a, Update(a, Job(a), s))
    BY <1>1, <2>1, UpdateFollows
  <2> QED
    BY <2>2 DEF s
<1>4. At(a, "release") => RowsFollow(a, Update(a, Job(a), [r EXCEPT !.owner = None, !.lapsed = FALSE]))
  <2> DEFINE s == [r EXCEPT !.owner = None, !.lapsed = FALSE]
  <2>1. s \in Row /\ Kept(r, s) /\ s.context = r.context
    BY <1>1 DEF Row, Kept
  <2> HIDE DEF s
  <2>2. At(a, "release") => RowsFollow(a, Update(a, Job(a), s))
    BY <1>1, <2>1, UpdateFollows
  <2> QED
    BY <2>2 DEF s
<1> QED
  BY <1>2, <1>3, <1>4 DEF Leased, Released

LEMMA TickStoreStep ==
  ASSUME FleetIInv, NEW a \in Agents, TickStep(a) PROVE StoreMoves(a)
<1>1. CASE Interrupt(a)
  BY <1>1, MovesTransit, CommitsTheMove DEF Interrupt, At, MoveLabels
<1>2. CASE ApplyCancel(a)
  BY <1>2, CommitsTheMove DEF ApplyCancel, StoreMoves
<1>3. CASE CompleteRequest(a)
  BY <1>3, CommitsTheView DEF CompleteRequest
<1>4. CASE ClaimWon(a)
  BY <1>4, LeaseFollows DEF ClaimWon, At, JoblessLabels, StoreMoves
<1>5. CASE ClaimLost(a)
  BY <1>5 DEF ClaimLost, StoreMoves
<1>6. CASE StaleClaimRaises(a)
  BY <1>6, LeaseFollows DEF StaleClaimRaises, Flush, At, JoblessLabels, StoreMoves, Writes
<1>7. CASE Release(a)
  BY <1>7, LeaseFollows DEF Release, At, JoblessLabels, StoreMoves
<1>8. CASE \/ BeginReconcile(a) \/ BeginControls(a) \/ ControlsDone(a) \/ NoCandidate(a)
           \/ \E e \in Experiments : ReconcileNext(a, e) \/ TakeRequest(a, e) \/ SelectCandidate(a, e)
  BY <1>8 DEF BeginReconcile, BeginControls, ControlsDone, NoCandidate, ReconcileNext,
              TakeRequest, SelectCandidate, StoreMoves
<1> QED
  BY <1>1, <1>2, <1>3, <1>4, <1>5, <1>6, <1>7, <1>8 DEF TickStep

LEMMA CoordinatorStoreStep ==
  ASSUME FleetIInv, NEW a \in Agents, CoordinatorStep(a) PROVE StoreMoves(a)
<1>0. FleetTypeOK
  BY DEF FleetIInv
<1>1. CASE Prepare(a) \/ CleanupSucceeded(a)
  BY <1>1, MovesTransit, MoveFollows
     DEF Prepare, CleanupSucceeded, Flush, At, MoveLabels, StoreMoves, Writes
<1>2. CASE \/ Refuse(a) \/ StartInjecting(a) \/ Activate(a) \/ InterruptedInjection(a)
           \/ Expire(a) \/ EnterCleanup(a) \/ CleanupFailed(a)
  BY <1>2, MovesTransit, CommitsTheMove
     DEF Refuse, StartInjecting, Activate, InterruptedInjection, Expire, EnterCleanup,
         CleanupFailed, MoveTo, MoveAndReturn, At, MoveLabels
<1>3. CASE Checks(a) \/ ObserveDuring(a) \/ Verify(a)
  BY <1>3, CommitsTheView DEF Checks, ObserveDuring, Verify, StoreMoves
<1>4. CASE SaveContext(a)
  <2> DEFINE r == View(a)[Job(a)]
             s == [r EXCEPT !.context = TRUE]
  <2>0. agent[a].pc \notin JoblessLabels
    BY <1>4 DEF SaveContext, At, JoblessLabels
  <2>1. s \in Row /\ Kept(r, s) /\ s.owner = r.owner
    BY <2>0, RowAtHand DEF Row, Kept
  <2>2. Commit(a, Update(a, Job(a), s))
    BY <1>4 DEF SaveContext
  <2> HIDE DEF s
  <2> QED
    BY <1>4, <2>0, <2>1, <2>2, UpdateFollows DEF SaveContext, StoreMoves
<1>5. CASE MarkCancelled(a)
  <2> DEFINE r == View(a)[Job(a)]
             s == [r EXCEPT !.outcome = "cancelled_pending"]
  <2>0. agent[a].pc \notin JoblessLabels
    BY <1>5 DEF MarkCancelled, At, JoblessLabels
  <2>1. s \in Row /\ Kept(r, s) /\ s.owner = r.owner /\ s.context = r.context
    BY <2>0, RowAtHand DEF Row, Kept, Outcomes
  <2>2. Commit(a, Update(a, Job(a), s))
    BY <1>5 DEF MarkCancelled
  <2> HIDE DEF s
  <2> QED
    BY <2>0, <2>1, <2>2, UpdateFollows DEF StoreMoves
<1>6. CASE RecordAttempt(a)
  <2> DEFINE r == View(a)[Job(a)]
             s == [r EXCEPT !.attempts = agent[a].attempt]
  <2>0. agent[a].pc \notin JoblessLabels
    BY <1>6 DEF RecordAttempt, At, JoblessLabels
  <2>1. agent[a].attempt \in 0..AttemptCap
    BY <1>0 DEF FleetTypeOK, Agent
  <2>2. s \in Row /\ Kept(r, s) /\ s.owner = r.owner /\ s.context = r.context
    BY <2>0, <2>1, RowAtHand DEF Row, Kept
  <2>3. Rollback(a) \/ Commit(a, Update(a, Job(a), s))
    BY <1>6 DEF RecordAttempt
  <2> HIDE DEF s
  <2> QED
    BY <2>0, <2>2, <2>3, UpdateFollows DEF StoreMoves
<1>7. CASE Verdict(a)
  <2> DEFINE r == View(a)[Job(a)]
             m == Moved(r, Copy(a).revision, Goal(a))
             s == [m EXCEPT !.outcome = Goal(a)]
  <2>0. Transits(a) /\ Moves(a) /\ Job(a) \in Experiments
    BY <1>7, MovesTransit, AtWork DEF Verdict, At, MoveLabels, JoblessLabels
  <2>1. m \in Row /\ MovedOn(a, Job(a), r, m) /\ m.owner = r.owner /\ m.context = r.context
    BY <2>0, MovedFollows
  <2>2. Goal(a) \in Outcomes
    BY <1>7 DEF Verdict, At, Goal, FinalState, Outcomes
  <2>3. Commit(a, Update(a, Job(a), s))
    <3>1. MovedRows(a)[Job(a)] = m
      BY <1>0, <2>0, ViewTyped DEF MovedRows, Update
    <3> QED
      BY <1>7, <3>1 DEF Verdict
  <2> HIDE DEF m
  <2>4. s \in Row /\ s.state = m.state /\ s.revision = m.revision /\ s.audit = m.audit
        /\ s.owner = m.owner /\ s.context = m.context
    BY <2>1, <2>2 DEF Row
  <2> HIDE DEF s
  <2>5. Follows(a, Job(a), r, s)
    BY <2>1, <2>4 DEF Follows, MovedOn
  <2>6. RowsFollow(a, Update(a, Job(a), s))
    BY <1>0, <2>0, <2>5, OneRowFollows
  <2> QED
    BY <2>3, <2>6 DEF StoreMoves
<1>8. CASE \/ Dispatch(a) \/ Inject(a) \/ VerifyActive(a) \/ InjectionOvertaken(a)
           \/ BeginCleanup(a) \/ Restore(a)
  BY <1>8 DEF Dispatch, Inject, VerifyActive, InjectionOvertaken, BeginCleanup, Restore,
              StoreMoves
<1> QED
  BY <1>1, <1>2, <1>3, <1>4, <1>5, <1>6, <1>7, <1>8 DEF CoordinatorStep

LEMMA AgentMovesStore ==
  ASSUME FleetIInv, NEW a \in Agents, AgentStep(a) PROVE StoreMoves(a)
<1>1. CASE MoveConflicts(a)
  BY <1>1, ViewFollows DEF MoveConflicts, FleetIInv, StoreMoves, Writes
<1>2. CASE Die(a) \/ Load(a) \/ MoveRefused(a) \/ LockedOut(a) \/ Boot(a)
  BY <1>2 DEF Load, MoveRefused, LockedOut, Boot, StoreMoves
<1> QED
  BY <1>1, <1>2, TickStoreStep, CoordinatorStoreStep DEF AgentStep

LEMMA OrphanedFollows ==
  ASSUME NEW a \in Agents, NEW store \in [Experiments -> Row]
  PROVE  /\ Orphaned(a, store) \in [Experiments -> Row]
         /\ \A e \in Experiments :
               Follows(a, e, store[e], Orphaned(a, store)[e]) /\ Kept(store[e], Orphaned(a, store)[e])
<1>1. \A e \in Experiments, r \in Row :
         /\ Follows(a, e, r, r) /\ Kept(r, r)
         /\ r.owner = a => /\ Follows(a, e, r, [r EXCEPT !.owner = Gone])
                           /\ Kept(r, [r EXCEPT !.owner = Gone])
  BY DEF Follows, Kept, Row
<1>2. \A e \in Experiments : Follows(a, e, store[e], Orphaned(a, store)[e])
                             /\ Kept(store[e], Orphaned(a, store)[e])
  BY <1>1 DEF Orphaned
<1> QED
  BY <1>2 DEF Orphaned, Follows

LEMMA AgentStoreStep ==
  ASSUME FleetIInv, NEW a \in Agents, AgentStep(a) PROVE StoreFollows(a)
<1>0. FleetTypeOK
  BY DEF FleetIInv
<1>1. \A e \in Experiments : Follows(a, e, saved[e], saved[e]) /\ Follows(a, e, rows[e], rows[e])
  BY <1>0, KeptFollows DEF FleetTypeOK
<1>2. CASE UNCHANGED storeVars \/ Rollback(a)
  BY <1>0, <1>1, <1>2 DEF storeVars, Rollback, StoreFollows, FleetTypeOK
<1>3. ASSUME NEW newRows, RowsFollow(a, newRows), Commit(a, newRows) \/ Writes(a, newRows)
      PROVE  StoreFollows(a)
  BY <1>0, <1>1, <1>3, ViewTyped DEF Commit, Writes, RowsFollow, StoreFollows, FleetTypeOK
<1>4. CASE Die(a)
  <2>1. saved' = Orphaned(a, saved) /\ rows' \in {Orphaned(a, saved), Orphaned(a, rows)}
        /\ writer' \in {writer, None}
    BY <1>4 DEF Die
  <2> QED
    BY <1>0, <2>1, OrphanedFollows DEF StoreFollows, FleetTypeOK
<1> QED
  BY <1>2, <1>3, <1>4, AgentMovesStore DEF StoreMoves

-----------------------------------------------------------------------------
(* What a step of a process makes of the process *)

\* A process is claimed by winning a claim, and keeps the experiment while it is.
ProcessFollows(a) ==
    \E process \in Agent :
        /\ agent' = [agent EXCEPT ![a] = process]
        /\ ProcessOK(process)
        /\ process.claimed => process.job = Job(a) /\ (agent[a].claimed \/ ClaimWon(a))

Process(a, process) == agent' = [agent EXCEPT ![a] = process]

LEMMA ProcessAt ==
  ASSUME FleetIInv, NEW a \in Agents
  PROVE  agent \in [Agents -> Agent] /\ agent[a] \in Agent /\ ProcessOK(agent[a])
  BY DEF FleetIInv, FleetTypeOK, PresentInv

LEMMA SameFollows ==
  ASSUME FleetIInv, NEW a \in Agents, agent' = agent PROVE ProcessFollows(a)
<1>1. agent' = [agent EXCEPT ![a] = agent[a]]
  BY ProcessAt
<1> QED
  BY <1>1, ProcessAt DEF ProcessFollows, Job

LEMMA GotoFollows ==
  ASSUME FleetIInv, NEW a \in Agents, NEW label \in Labels \ {"release"}, Goto(a, label),
         agent[a].claimed => label \notin UnclaimedLabels,
         label \in JoblessLabels \/ agent[a].pc \notin JoblessLabels
  PROVE  ProcessFollows(a)
<1> DEFINE g == [agent[a] EXCEPT !.pc = label]
<1>1. agent[a] \in Agent /\ ProcessOK(agent[a])
  BY ProcessAt
<1>2. /\ g \in Agent /\ g.pc = label /\ g.job = agent[a].job /\ g.todo = agent[a].todo
      /\ g.claimed = agent[a].claimed
  BY <1>1 DEF Agent
<1>3. agent' = [agent EXCEPT ![a] = g]
  BY ProcessAt DEF Goto
<1> HIDE DEF g
<1>4. ProcessOK(g)
  BY <1>1, <1>2 DEF ProcessOK
<1> QED
  BY <1>2, <1>3, <1>4 DEF ProcessFollows, Job

LEMMA BootedIs ==
  ASSUME NEW label \in {"down", "broken", "idle"}
  PROVE  Booted(label) \in Agent /\ ProcessOK(Booted(label)) /\ ~Booted(label).claimed
<1>1. label \in Labels /\ 0 \in 0..AttemptCap
  BY DEF Labels
<1>2. Booted(label) \in Agent
  BY <1>1 DEF Booted, Agent
<1>3. /\ Booted(label).pc = label /\ Booted(label).job = None /\ Booted(label).todo = {}
      /\ Booted(label).claimed = FALSE
  BY DEF Booted
<1> QED
  BY <1>2, <1>3 DEF ProcessOK, JoblessLabels

LEMMA ReadyIs ==
  ASSUME NEW ready \in BOOLEAN
  PROVE  LET g == [Booted("idle") EXCEPT !.ready = ready] IN
         g \in Agent /\ ProcessOK(g) /\ ~g.claimed
<1> DEFINE b == Booted("idle")
           g == [b EXCEPT !.ready = ready]
<1>1. b \in Agent /\ ProcessOK(b) /\ ~b.claimed
  BY BootedIs
<1> HIDE DEF b
<1>2. /\ g \in Agent /\ g.pc = b.pc /\ g.job = b.job /\ g.todo = b.todo
      /\ g.claimed = b.claimed
  BY <1>1 DEF Agent
<1> HIDE DEF g
<1>3. g \in Agent /\ ProcessOK(g) /\ ~g.claimed
  BY <1>1, <1>2 DEF ProcessOK
<1> QED
  BY <1>3 DEF g, b

LEMMA BootedFollows ==
  ASSUME FleetIInv, NEW a \in Agents, NEW label \in {"down", "broken", "idle"},
         Process(a, Booted(label))
  PROVE  ProcessFollows(a)
  BY BootedIs DEF ProcessFollows, Process

LEMMA TickOverFollows ==
  ASSUME FleetIInv, NEW a \in Agents, agent' = TickOver(a)
  PROVE  ProcessFollows(a) /\ ~agent'[a].claimed
<1> DEFINE g == [Booted("idle") EXCEPT !.ready = agent[a].ready]
<1>1. agent[a].ready \in BOOLEAN
  BY ProcessAt DEF Agent
<1>2. g \in Agent /\ ProcessOK(g) /\ ~g.claimed
  BY <1>1, ReadyIs
<1>3. agent' = [agent EXCEPT ![a] = g]
  BY DEF TickOver
<1> HIDE DEF g
<1> QED
  BY <1>2, <1>3, ProcessAt DEF ProcessFollows

LEMMA TickIsOver ==
  ASSUME FleetIInv, NEW a \in Agents, agent' = TickOver(a)
  PROVE  /\ agent'[a].pc = "idle" /\ ~agent'[a].claimed /\ ~agent'[a].owned /\ ~agent'[a].ok
         /\ agent'[a].job = None
<1> DEFINE g == [Booted("idle") EXCEPT !.ready = agent[a].ready]
<1>1. g.pc = "idle" /\ ~g.claimed /\ ~g.owned /\ ~g.ok /\ g.job = None
  BY DEF Booted
<1>2. agent' = [agent EXCEPT ![a] = g]
  BY DEF TickOver
<1> HIDE DEF g
<1> QED
  BY <1>1, <1>2, ProcessAt

LEMMA ReturnedFollows ==
  ASSUME FleetIInv, NEW a \in Agents, agent[a].pc \notin JoblessLabels, agent' = Returned(a)
  PROVE  ProcessFollows(a)
<1>1. agent[a] \in Agent /\ ProcessOK(agent[a]) /\ agent \in [Agents -> Agent]
  BY ProcessAt
<1>2. CASE agent[a].claimed
  <2> DEFINE g == [agent[a] EXCEPT !.pc = "release"]
  <2>1. /\ g \in Agent /\ g.pc = "release" /\ g.job = agent[a].job /\ g.todo = agent[a].todo
        /\ g.claimed = agent[a].claimed
    BY <1>1 DEF Agent, Labels
  <2>2. agent' = [agent EXCEPT ![a] = g]
    BY <1>1, <1>2 DEF Returned
  <2> HIDE DEF g
  <2>3. ProcessOK(g)
    BY <1>1, <1>2, <2>1 DEF ProcessOK, UnclaimedLabels, JoblessLabels
  <2> QED
    BY <1>2, <2>1, <2>2, <2>3 DEF ProcessFollows, Job
<1>3. CASE ~agent[a].claimed
  <2> DEFINE todo == agent[a].todo \ {Job(a)}
             g == [agent[a] EXCEPT !.pc = "reconcile", !.job = None, !.todo = todo,
                                   !.cancelled = FALSE, !.owned = FALSE, !.ok = FALSE,
                                   !.attempt = 0]
  <2>1. todo \in SUBSET Experiments /\ todo \subseteq agent[a].todo
    BY <1>1 DEF Agent
  <2>2. agent' = [agent EXCEPT ![a] = g]
    BY <1>1, <1>3 DEF Returned
  <2> HIDE DEF todo
  <2>5. "reconcile" \in Labels /\ 0 \in 0..AttemptCap
    BY DEF Labels
  <2>3. /\ g \in Agent /\ g.pc = "reconcile" /\ g.job = None /\ g.todo = todo
        /\ g.claimed = agent[a].claimed
    BY <1>1, <2>1, <2>5 DEF Agent
  <2> HIDE DEF g
  <2>4. ProcessOK(g)
    BY <1>1, <1>3, <2>1, <2>3 DEF ProcessOK, JoblessLabels
  <2> QED
    BY <1>3, <2>2, <2>3, <2>4 DEF ProcessFollows
<1> QED
  BY <1>2, <1>3

LEMMA RaisedFollows ==
  ASSUME FleetIInv, NEW a \in Agents, agent[a].pc \notin JoblessLabels, agent' = Raised(a)
  PROVE  ProcessFollows(a)
<1>1. CASE At(a, "activate")
  <2>1. Goto(a, "injection_failed")
    BY <1>1 DEF Raised, Goto, At
  <2> QED
    BY <2>1, GotoFollows DEF Labels, UnclaimedLabels, JoblessLabels
<1>2. CASE agent[a].claimed /\ ~At(a, "activate") /\ ~At(a, "release")
  <2>1. agent' = Returned(a)
    BY <1>2 DEF Raised, Returned
  <2> QED
    BY <2>1, ReturnedFollows
<1>3. CASE ~At(a, "activate") /\ (~agent[a].claimed \/ At(a, "release"))
  <2>1. agent' = TickOver(a)
    BY <1>3 DEF Raised
  <2> QED
    BY <2>1, TickOverFollows
<1> QED
  BY <1>1, <1>2, <1>3

LEMMA WorkFollows ==
  ASSUME FleetIInv, NEW a \in Agents, agent[a].pc \notin JoblessLabels,
         NEW g \in Agent, Process(a, g), g.pc \notin UnclaimedLabels \cup {"release"},
         g.job = agent[a].job, g.todo = agent[a].todo, g.claimed = agent[a].claimed
  PROVE  ProcessFollows(a)
<1>1. ProcessOK(g)
  BY ProcessAt DEF ProcessOK, UnclaimedLabels
<1> QED
  BY <1>1 DEF ProcessFollows, Process, Job

LEMMA TickProcessStep ==
  ASSUME FleetIInv, NEW a \in Agents, TickStep(a) PROVE ProcessFollows(a)
<1>0. /\ agent \in [Agents -> Agent] /\ agent[a] \in Agent /\ ProcessOK(agent[a])
      /\ FleetTypeOK /\ PresentInv
  BY ProcessAt DEF FleetIInv
<1>1. CASE BeginReconcile(a)
  <2> DEFINE active == {e \in Experiments : View(a)[e].state \in Unfinished}
             g == [agent[a] EXCEPT !.pc = "reconcile", !.todo = active]
  <2>1. active \in SUBSET Experiments /\ active \subseteq Present
    BY <1>0, ViewTyped DEF Unfinished, ExperimentState, PresentInv, Present
  <2>2. Process(a, g)
    BY <1>0, <1>1 DEF BeginReconcile, Process
  <2> HIDE DEF active
  <2>3. /\ g \in Agent /\ g.pc = "reconcile" /\ g.job = agent[a].job /\ g.todo = active
        /\ g.claimed = agent[a].claimed
    BY <1>0, <2>1 DEF Agent, Labels
  <2>4. ~agent[a].claimed
    BY <1>0, <1>1 DEF BeginReconcile, At, ProcessOK, UnclaimedLabels, JoblessLabels
  <2> HIDE DEF g
  <2>5. ProcessOK(g)
    BY <1>0, <2>1, <2>3, <2>4 DEF ProcessOK, JoblessLabels
  <2> QED
    BY <2>2, <2>3, <2>4, <2>5 DEF ProcessFollows, Process
<1>2. ASSUME NEW e \in Experiments, ReconcileNext(a, e) PROVE ProcessFollows(a)
  <2>1. e \in Present /\ ~agent[a].claimed
    BY <1>0, <1>2 DEF ReconcileNext, At, ProcessOK, UnclaimedLabels, JoblessLabels
  <2>2. ASSUME NEW label \in {"interrupt", "run"},
               agent' = [agent EXCEPT ![a].pc = label, ![a].job = e]
        PROVE  ProcessFollows(a)
    <3> DEFINE g == [agent[a] EXCEPT !.pc = label, !.job = e]
    <3>1. Process(a, g)
      BY <1>0, <2>2 DEF Process
    <3>2. /\ g \in Agent /\ g.pc = label /\ g.job = e /\ g.todo = agent[a].todo
          /\ g.claimed = agent[a].claimed
      BY <1>0 DEF Agent, Labels
    <3> HIDE DEF g
    <3>3. ProcessOK(g)
      BY <1>0, <2>1, <3>2 DEF ProcessOK
    <3> QED
      BY <2>1, <3>1, <3>2, <3>3 DEF ProcessFollows, Process
  <2>3. ASSUME agent' = [agent EXCEPT ![a].todo = @ \ {e}] PROVE ProcessFollows(a)
    <3> DEFINE todo == agent[a].todo \ {e}
               g == [agent[a] EXCEPT !.todo = todo]
    <3>1. Process(a, g)
      BY <1>0, <2>3 DEF Process
    <3>2. todo \in SUBSET Experiments /\ todo \subseteq agent[a].todo
      BY <1>0 DEF Agent
    <3> HIDE DEF todo
    <3>3. /\ g \in Agent /\ g.pc = agent[a].pc /\ g.job = agent[a].job /\ g.todo = todo
          /\ g.claimed = agent[a].claimed
      BY <1>0, <3>2 DEF Agent
    <3> HIDE DEF g
    <3>4. ProcessOK(g)
      BY <1>0, <3>2, <3>3 DEF ProcessOK
    <3> QED
      BY <2>1, <3>1, <3>3, <3>4 DEF ProcessFollows, Process
  <2> QED
    BY <1>2, <2>2, <2>3 DEF ReconcileNext
<1>3. CASE BeginControls(a)
  <2> DEFINE asked == {e \in Experiments : request[e] = "pending"}
             g == [agent[a] EXCEPT !.pc = "controls", !.ready = TRUE, !.todo = asked]
  <2>1. asked \in SUBSET Experiments /\ asked \subseteq Present
    BY <1>0 DEF PresentInv
  <2>2. Process(a, g)
    BY <1>0, <1>3 DEF BeginControls, Process
  <2> HIDE DEF asked
  <2>3. /\ g \in Agent /\ g.pc = "controls" /\ g.job = agent[a].job /\ g.todo = asked
        /\ g.claimed = agent[a].claimed
    BY <1>0, <2>1 DEF Agent, Labels
  <2>4. ~agent[a].claimed
    BY <1>0, <1>3 DEF BeginControls, At, ProcessOK, UnclaimedLabels, JoblessLabels
  <2> HIDE DEF g
  <2>5. ProcessOK(g)
    BY <1>0, <2>1, <2>3, <2>4 DEF ProcessOK, JoblessLabels
  <2> QED
    BY <2>2, <2>3, <2>4, <2>5 DEF ProcessFollows, Process
<1>4. ASSUME NEW e \in Experiments, TakeRequest(a, e) \/ SelectCandidate(a, e)
      PROVE  ProcessFollows(a)
  <2>1. e \in Present
    <3>1. CASE TakeRequest(a, e)
      BY <1>0, <3>1 DEF TakeRequest, ProcessOK
    <3>2. CASE SelectCandidate(a, e)
      BY <1>0, <3>2, ViewTyped
         DEF SelectCandidate, Candidates, ClaimableStates, PresentInv, Present
    <3> QED
      BY <1>4, <3>1, <3>2
  <2>2. ~agent[a].claimed
    BY <1>0, <1>4 DEF TakeRequest, SelectCandidate, At, ProcessOK, UnclaimedLabels, JoblessLabels
  <2>3. PICK label \in {"cancel", "claiming"} :
             agent' = [agent EXCEPT ![a].pc = label, ![a].job = e]
    BY <1>4 DEF TakeRequest, SelectCandidate
  <2> DEFINE g == [agent[a] EXCEPT !.pc = label, !.job = e]
  <2>4. Process(a, g)
    BY <1>0, <2>3 DEF Process
  <2>5. /\ g \in Agent /\ g.pc = label /\ g.job = e /\ g.todo = agent[a].todo
        /\ g.claimed = agent[a].claimed
    BY <1>0 DEF Agent, Labels
  <2> HIDE DEF g
  <2>6. ProcessOK(g)
    BY <1>0, <2>1, <2>2, <2>5 DEF ProcessOK
  <2> QED
    BY <2>2, <2>4, <2>5, <2>6 DEF ProcessFollows, Process
<1>5. CASE CompleteRequest(a)
  <2> DEFINE todo == agent[a].todo \ {Job(a)}
             g == [agent[a] EXCEPT !.pc = "controls", !.job = None, !.todo = todo]
  <2>1. todo \in SUBSET Experiments /\ todo \subseteq agent[a].todo
    BY <1>0 DEF Agent
  <2>2. Process(a, g)
    BY <1>0, <1>5 DEF CompleteRequest, Process
  <2> HIDE DEF todo
  <2>3. /\ g \in Agent /\ g.pc = "controls" /\ g.job = None /\ g.todo = todo
        /\ g.claimed = agent[a].claimed
    BY <1>0, <2>1 DEF Agent, Labels
  <2>4. ~agent[a].claimed
    BY <1>0, <1>5 DEF CompleteRequest, At, ProcessOK, UnclaimedLabels
  <2> HIDE DEF g
  <2>5. ProcessOK(g)
    BY <1>0, <2>1, <2>3, <2>4 DEF ProcessOK, JoblessLabels
  <2> QED
    BY <2>2, <2>3, <2>4, <2>5 DEF ProcessFollows, Process
<1>6. CASE ClaimWon(a)
  <2> DEFINE g == [agent[a] EXCEPT !.pc = "run", !.claimed = TRUE]
  <2>1. Process(a, g)
    BY <1>0, <1>6 DEF ClaimWon, Process
  <2>2. /\ g \in Agent /\ g.pc = "run" /\ g.job = agent[a].job /\ g.todo = agent[a].todo
    BY <1>0 DEF Agent, Labels
  <2>3. agent[a].pc = "claiming"
    BY <1>6 DEF ClaimWon, At
  <2> HIDE DEF g
  <2>4. ProcessOK(g)
    BY <1>0, <2>2, <2>3 DEF ProcessOK, JoblessLabels, UnclaimedLabels
  <2> QED
    BY <1>6, <2>1, <2>2, <2>4 DEF ProcessFollows, Process, Job
<1>7. CASE Interrupt(a) \/ ApplyCancel(a)
  <2>1. agent[a].pc \in {"interrupt", "cancel"} /\ (Goto(a, "run") \/ Goto(a, "complete"))
    BY <1>7 DEF Interrupt, ApplyCancel, At
  <2>2. agent[a].pc \notin JoblessLabels /\ ~agent[a].claimed
    BY <1>0, <2>1 DEF JoblessLabels, UnclaimedLabels, ProcessOK
  <2> QED
    BY <2>1, <2>2, GotoFollows DEF Labels
<1>8. CASE ControlsDone(a)
  <2>1. ~agent[a].claimed /\ Goto(a, "claim")
    BY <1>0, <1>8 DEF ControlsDone, At, JoblessLabels, UnclaimedLabels, ProcessOK
  <2> QED
    BY <2>1, GotoFollows DEF Labels, JoblessLabels
<1>9. CASE NoCandidate(a) \/ ClaimLost(a) \/ StaleClaimRaises(a) \/ Release(a)
  BY <1>9, TickOverFollows DEF NoCandidate, ClaimLost, StaleClaimRaises, Release
<1> QED
  BY <1>1, <1>2, <1>3, <1>4, <1>5, <1>6, <1>7, <1>8, <1>9 DEF TickStep

\* Where run_once goes on to, with what it read.
Dispatches(a, label) ==
    /\ label \in {"prepare", "checks", "inject", "expire", "observe_during", "enter_cleanup",
                  "cleanup"}
    /\ label = "prepare" => Copy(a).state = "planned"
    /\ label = "inject" => Copy(a).state = "injecting"
    /\ label = "checks" => Copy(a).state = "preflight"

LEMMA DispatchGoes ==
  ASSUME NEW a \in Agents, Dispatch(a)
  PROVE  agent' = Returned(a) \/ \E label : Goto(a, label) /\ Dispatches(a, label)
<1> DEFINE state == Copy(a).state
<1>1. CASE state = "planned"
  <2>1. Goto(a, "prepare")
    BY <1>1 DEF Dispatch, Goto, CleanupEntries
  <2> QED
    BY <1>1, <2>1 DEF Dispatches
<1>2. CASE state = "preflight"
  <2>1. Goto(a, "checks")
    BY <1>2 DEF Dispatch, Goto, CleanupEntries
  <2> QED
    BY <1>2, <2>1 DEF Dispatches
<1>3. CASE state = "injecting"
  <2>1. Goto(a, "inject")
    BY <1>3 DEF Dispatch, Goto, CleanupEntries
  <2> QED
    BY <1>3, <2>1 DEF Dispatches
<1>4. CASE state = "active"
  <2>1. Goto(a, "expire") \/ Goto(a, "observe_during")
    BY <1>4 DEF Dispatch, Goto, CleanupEntries
  <2> QED
    BY <2>1 DEF Dispatches
<1>5. CASE state \in CleanupEntries
  <2>1. Goto(a, "enter_cleanup")
    BY <1>5 DEF Dispatch, Goto, CleanupEntries
  <2> QED
    BY <2>1 DEF Dispatches
<1>6. CASE state = "cleaning_up"
  <2>1. Goto(a, "cleanup")
    BY <1>6 DEF Dispatch, Goto, CleanupEntries
  <2> QED
    BY <2>1 DEF Dispatches
<1>7. CASE state \notin {"planned", "preflight", "injecting", "active", "cleaning_up"}
                         \cup CleanupEntries
  BY <1>7 DEF Dispatch
<1> QED
  BY <1>1, <1>2, <1>3, <1>4, <1>5, <1>6, <1>7

\* Labels at which the coordinator works.
WorkLabels == Labels \ (UnclaimedLabels \cup {"release"})

LEMMA CoordinatorProcessStep ==
  ASSUME FleetIInv, NEW a \in Agents, CoordinatorStep(a) PROVE ProcessFollows(a)
<1>0. /\ agent \in [Agents -> Agent] /\ agent[a] \in Agent /\ ProcessOK(agent[a])
      /\ FleetTypeOK /\ PresentInv
  BY ProcessAt DEF FleetIInv
<1>1. agent[a].pc \in WorkLabels
  BY DEF CoordinatorStep, Dispatch, Prepare, Checks, Refuse, StartInjecting, Inject,
         SaveContext, VerifyActive, Activate, InterruptedInjection, InjectionOvertaken,
         Expire, ObserveDuring, EnterCleanup, BeginCleanup, MarkCancelled, Restore,
         RecordAttempt, CleanupSucceeded, CleanupFailed, Verify, Verdict, MoveTo,
         MoveAndReturn, At, WorkLabels, Labels, UnclaimedLabels, JoblessLabels
<1>2. agent[a].pc \notin JoblessLabels
  BY <1>1 DEF WorkLabels, UnclaimedLabels
<1>3. ASSUME NEW label \in WorkLabels, Goto(a, label) PROVE ProcessFollows(a)
  BY <1>2, <1>3, GotoFollows DEF WorkLabels
<1>4. CASE EnterCleanup(a)
  <2> DEFINE cancelled == Copy(a).state = "cancellation_requested"
             g == [agent[a] EXCEPT !.pc = "cleanup", !.cancelled = cancelled]
  <2>1. Process(a, g)
    BY <1>0, <1>4 DEF EnterCleanup, Process
  <2>2. cancelled \in BOOLEAN
    OBVIOUS
  <2> HIDE DEF cancelled
  <2>3. /\ g \in Agent /\ g.pc = "cleanup" /\ g.job = agent[a].job
        /\ g.todo = agent[a].todo /\ g.claimed = agent[a].claimed
    BY <1>0, <2>2 DEF Agent, Labels
  <2> HIDE DEF g
  <2> QED
    BY <1>2, <2>1, <2>3, WorkFollows DEF UnclaimedLabels, JoblessLabels
<1>5. CASE BeginCleanup(a)
  <2> DEFINE marked == agent[a].cancelled \/ Copy(a).outcome = "cancelled_pending"
             label == IF marked THEN "mark_cancelled" ELSE "restore"
             owned == Copy(a).context
             g == [agent[a] EXCEPT !.pc = label, !.cancelled = marked, !.owned = owned]
  <2>1. Process(a, g)
    BY <1>0, <1>5 DEF BeginCleanup, Process
  <2>2. marked \in BOOLEAN /\ label \in {"mark_cancelled", "restore"}
    OBVIOUS
  <2>3. owned \in BOOLEAN
    <3>1. Copy(a) \in CopyOf
      BY <1>0, <1>2, <1>5, AtWork DEF BeginCleanup, Loaded, Copy, FleetTypeOK
    <3> QED
      BY <3>1 DEF CopyOf
  <2> HIDE DEF marked, label, owned
  <2>4. /\ g \in Agent /\ g.pc = label /\ g.job = agent[a].job
        /\ g.todo = agent[a].todo /\ g.claimed = agent[a].claimed
    BY <1>0, <2>2, <2>3 DEF Agent, Labels
  <2> HIDE DEF g
  <2> QED
    BY <1>2, <2>1, <2>2, <2>4, WorkFollows DEF UnclaimedLabels, JoblessLabels
<1>6. CASE Restore(a)
  <2>1. PICK success \in BOOLEAN : Restored(a, success)
    BY <1>6 DEF Restore
  <2> DEFINE attempt == NextAttempt(a)
             g == [agent[a] EXCEPT !.pc = "record_attempt", !.ok = success, !.attempt = attempt]
  <2>2. Process(a, g)
    BY <1>0, <2>1 DEF Restored, Process
  <2>3. attempt \in 0..AttemptCap
    <3>1. View(a)[Job(a)].attempts \in 0..AttemptCap
      BY <1>2, RowAtHand DEF Row
    <3> QED
      BY <3>1 DEF NextAttempt
  <2> HIDE DEF attempt
  <2>4. /\ g \in Agent /\ g.pc = "record_attempt" /\ g.job = agent[a].job
        /\ g.todo = agent[a].todo /\ g.claimed = agent[a].claimed
    BY <1>0, <2>3 DEF Agent, Labels
  <2> HIDE DEF g
  <2> QED
    BY <1>2, <2>2, <2>4, WorkFollows DEF UnclaimedLabels, JoblessLabels
<1>7. CASE Verify(a)
  <2>1. PICK success \in BOOLEAN : agent' = [agent EXCEPT ![a].pc = "verdict", ![a].ok = success]
    BY <1>7 DEF Verify
  <2> DEFINE g == [agent[a] EXCEPT !.pc = "verdict", !.ok = success]
  <2>2. Process(a, g)
    BY <1>0, <2>1 DEF Process
  <2>3. /\ g \in Agent /\ g.pc = "verdict" /\ g.job = agent[a].job
        /\ g.todo = agent[a].todo /\ g.claimed = agent[a].claimed
    BY <1>0 DEF Agent, Labels
  <2> HIDE DEF g
  <2> QED
    BY <1>2, <2>2, <2>3, WorkFollows DEF UnclaimedLabels, JoblessLabels
<1>8. CASE Checks(a)
  BY <1>2, <1>3, <1>8, RaisedFollows
     DEF Checks, WorkLabels, Labels, UnclaimedLabels, JoblessLabels
<1>9. CASE Refuse(a) \/ ObserveDuring(a) \/ CleanupFailed(a) \/ Verdict(a)
  BY <1>2, <1>9, ReturnedFollows DEF Refuse, ObserveDuring, CleanupFailed, Verdict, MoveAndReturn
<1>10. CASE Dispatch(a)
  BY <1>2, <1>3, <1>10, DispatchGoes, ReturnedFollows
     DEF Dispatches, WorkLabels, Labels, UnclaimedLabels, JoblessLabels
<1>11. CASE \/ Prepare(a) \/ StartInjecting(a) \/ Inject(a) \/ SaveContext(a)
            \/ VerifyActive(a) \/ Activate(a) \/ InterruptedInjection(a)
            \/ InjectionOvertaken(a) \/ Expire(a) \/ MarkCancelled(a) \/ RecordAttempt(a)
            \/ CleanupSucceeded(a)
  <2>1. \E label \in {"checks", "inject", "save_context", "injection_failed",
                      "verify_active", "activate", "run", "restore", "conclude", "verify"} :
              Goto(a, label)
    BY <1>11 DEF Prepare, StartInjecting, Inject, SaveContext, VerifyActive, Activate,
                 InterruptedInjection, InjectionOvertaken, Expire, MarkCancelled,
                 RecordAttempt, CleanupSucceeded, MoveTo
  <2> QED
    BY <1>3, <2>1 DEF WorkLabels, Labels, UnclaimedLabels, JoblessLabels
<1> QED
  BY <1>4, <1>5, <1>6, <1>7, <1>8, <1>9, <1>10, <1>11 DEF CoordinatorStep

LEMMA AgentProcessStep ==
  ASSUME FleetIInv, NEW a \in Agents, AgentStep(a) PROVE ProcessFollows(a)
<1>1. CASE Load(a)
  BY <1>1, SameFollows DEF Load
<1>2. CASE MoveRefused(a) \/ MoveConflicts(a)
  <2>1. agent[a].pc \notin JoblessLabels
    BY <1>2 DEF MoveRefused, MoveConflicts, Transits, MoveLabels, JoblessLabels
  <2> QED
    BY <1>2, <2>1, RaisedFollows DEF MoveRefused, MoveConflicts
<1>3. CASE LockedOut(a)
  <2>1. agent[a].pc \notin JoblessLabels
    BY <1>3 DEF LockedOut, Transits, MoveLabels, FlushLabels, JoblessLabels
  <2> QED
    BY <1>3, <2>1, RaisedFollows, BootedFollows DEF LockedOut, Process
<1>4. CASE Die(a) \/ Boot(a)
  BY <1>4, BootedFollows DEF Die, Boot, Process
<1> QED
  BY <1>1, <1>2, <1>3, <1>4, TickProcessStep, CoordinatorProcessStep DEF AgentStep

-----------------------------------------------------------------------------
(* What a step of a process makes of its copies and of the rest *)

CopiesOK(copies) ==
    /\ copies \in [Experiments -> CopyOf \cup {Expired}]
    /\ \A e \in Experiments : copies[e] # Expired => copies[e].state # "absent"

LEMMA CopiesAt ==
  ASSUME FleetIInv
  PROVE  /\ seen \in [Agents -> [Experiments -> CopyOf \cup {Expired}]]
         /\ \A a \in Agents : CopiesOK(seen[a])
  BY DEF FleetIInv, FleetTypeOK, PresentInv, CopiesOK

CopiesFollow(a) ==
    \E copies : CopiesOK(copies) /\ seen' = [seen EXCEPT ![a] = copies]

LEMMA NoCopiesOK == CopiesOK(NoCopies)
  BY DEF CopiesOK, NoCopies

LEMMA SameCopies ==
  ASSUME FleetIInv, NEW a \in Agents, seen' = seen PROVE CopiesFollow(a)
<1>1. seen' = [seen EXCEPT ![a] = seen[a]]
  BY CopiesAt
<1> QED
  BY <1>1, CopiesAt DEF CopiesFollow

LEMMA OneCopy ==
  ASSUME FleetIInv, NEW a \in Agents, NEW e \in Experiments, NEW copy,
         copy = Expired \/ (copy \in CopyOf /\ copy.state # "absent"),
         seen' = [seen EXCEPT ![a][e] = copy]
  PROVE  CopiesFollow(a)
<1> DEFINE copies == [seen[a] EXCEPT ![e] = copy]
<1>1. seen' = [seen EXCEPT ![a] = copies]
  BY CopiesAt
<1>2. CopiesOK(copies)
  BY CopiesAt DEF CopiesOK
<1> HIDE DEF copies
<1> QED
  BY <1>1, <1>2 DEF CopiesFollow

LEMMA CopiesAfterFollow ==
  ASSUME FleetIInv, NEW a \in Agents, NEW copies, CopiesOK(copies),
         seen' = CopiesAfter(a, copies)
  PROVE  CopiesFollow(a)
  BY NoCopiesOK DEF CopiesAfter, CopiesFollow

LEMMA RowCopies ==
  ASSUME NEW r \in Row, r.state # "absent"
  PROVE  /\ LeasedCopy(r) \in CopyOf /\ LeasedCopy(r).state # "absent"
         /\ PlainCopy(r) \in CopyOf /\ PlainCopy(r).state # "absent"
<1> DEFINE c == LeasedCopy(r)
<1>1. c \in CopyOf /\ c.state # "absent"
  BY DEF LeasedCopy, Row, CopyOf
<1> HIDE DEF c
<1>2. [c EXCEPT !.owner = None, !.lapsed = FALSE] \in CopyOf
  BY <1>1 DEF CopyOf
<1>3. [c EXCEPT !.owner = None, !.lapsed = FALSE].state = c.state
  BY <1>1 DEF CopyOf
<1> QED
  BY <1>1, <1>2, <1>3 DEF PlainCopy, c

\* Rows that are there, in whatever view.
LEMMA PresentRows ==
  ASSUME FleetIInv, NEW a \in Agents, NEW e \in Present
  PROVE  e \in Experiments /\ View(a)[e] \in Row /\ View(a)[e].state # "absent"
  BY ViewTyped DEF FleetIInv, FleetTypeOK, PresentInv, Present

LEMMA MovedCopyIs ==
  ASSUME FleetIInv, NEW a \in Agents, Job(a) \in Experiments, Loaded(a),
         ValidTransition(Copy(a).state, Goal(a))
  PROVE  MovedCopy(a) \in CopyOf /\ MovedCopy(a).state # "absent"
<1> DEFINE c == Copy(a)
<1>1. c \in CopyOf /\ c.state # "absent"
  BY CopiesAt DEF CopiesOK, Copy, Loaded
<1>2. c.state \in ExperimentState /\ c.revision + 1 \in Nat
  BY <1>1 DEF CopyOf
<1>3. Goal(a) \in ExperimentState
  <2>1. AllowedTransitions[c.state] \subseteq ExperimentState
    BY <1>2 DEF AllowedTransitions, ExperimentState
  <2> QED
    BY <2>1 DEF ValidTransition
<1> HIDE DEF c
<1>4. ASSUME NEW state \in ExperimentState, NEW revision \in Nat
      PROVE  /\ [c EXCEPT !.state = state, !.revision = revision] \in CopyOf
             /\ [c EXCEPT !.state = state, !.revision = revision].state = state
  BY <1>1 DEF CopyOf
<1>5. Goal(a) # "absent"
  BY <1>3 DEF ExperimentState
<1> DEFINE state == Goal(a)
           revision == c.revision + 1
<1>6. MovedCopy(a) = [c EXCEPT !.state = state, !.revision = revision]
  BY DEF MovedCopy, c
<1>7. state \in ExperimentState /\ revision \in Nat /\ state # "absent"
  BY <1>2, <1>3, <1>5
<1> HIDE DEF state, revision
<1>8. /\ [c EXCEPT !.state = state, !.revision = revision] \in CopyOf
      /\ [c EXCEPT !.state = state, !.revision = revision].state = state
  BY <1>4, <1>7
<1> QED
  BY <1>6, <1>7, <1>8

LEMMA TickCopiesStep ==
  ASSUME FleetIInv, NEW a \in Agents, TickStep(a) PROVE CopiesFollow(a)
<1>1. CASE BeginReconcile(a)
  <2> DEFINE active == {e \in Experiments : View(a)[e].state \in Unfinished}
             copies == [e \in Experiments |->
                          IF e \in active THEN PlainCopy(View(a)[e]) ELSE Expired]
  <2>1. seen' = [seen EXCEPT ![a] = copies]
    BY <1>1 DEF BeginReconcile
  <2>2. \A e \in active : View(a)[e] \in Row /\ View(a)[e].state # "absent"
    BY ViewTyped DEF FleetIInv, Unfinished, ExperimentState
  <2>3. \A e \in active :
           PlainCopy(View(a)[e]) \in CopyOf /\ PlainCopy(View(a)[e]).state # "absent"
    BY <2>2, RowCopies
  <2>4. CopiesOK(copies)
    <3> HIDE DEF active
    <3> QED
      BY <2>3 DEF CopiesOK
  <2> HIDE DEF copies
  <2> QED
    BY <2>1, <2>4 DEF CopiesFollow
<1>2. ASSUME NEW e \in Experiments, ReconcileNext(a, e) PROVE CopiesFollow(a)
  <2>1. e \in Present
    BY <1>2, ProcessAt DEF ReconcileNext, ProcessOK
  <2> DEFINE row == IF seen[a][e] = Expired THEN PlainCopy(View(a)[e]) ELSE seen[a][e]
  <2>2. seen' = [seen EXCEPT ![a][e] = row]
    BY <1>2 DEF ReconcileNext
  <2>3. row \in CopyOf /\ row.state # "absent"
    BY <2>1, PresentRows, RowCopies, CopiesAt DEF CopiesOK
  <2> HIDE DEF row
  <2> QED
    BY <2>2, <2>3, OneCopy
<1>3. ASSUME NEW e \in Experiments, SelectCandidate(a, e) PROVE CopiesFollow(a)
  <2>1. e \in Present
    BY <1>3, ViewTyped
       DEF SelectCandidate, Candidates, ClaimableStates, FleetIInv, PresentInv, Present
  <2>2. seen' = [seen EXCEPT ![a][e] = LeasedCopy(View(a)[e])]
    BY <1>3 DEF SelectCandidate
  <2> QED
    BY <2>1, <2>2, PresentRows, RowCopies, OneCopy
<1>4. CASE StaleClaimRaises(a)
  <2>1. Job(a) \in Experiments /\ seen' = [seen EXCEPT ![a][Job(a)] = Expired]
    BY <1>4, AtWork DEF StaleClaimRaises, Flush, At, JoblessLabels
  <2> QED
    BY <2>1, OneCopy
<1>5. CASE \/ Interrupt(a) \/ BeginControls(a) \/ ApplyCancel(a) \/ CompleteRequest(a)
           \/ ControlsDone(a) \/ NoCandidate(a) \/ ClaimWon(a) \/ ClaimLost(a) \/ Release(a)
           \/ \E e \in Experiments : TakeRequest(a, e)
  <2>1. seen' = seen \/ seen' = [seen EXCEPT ![a] = NoCopies]
    BY <1>5 DEF Interrupt, BeginControls, ApplyCancel, CompleteRequest, ControlsDone,
                NoCandidate, ClaimWon, ClaimLost, Release, TakeRequest, Commit, Rollback
  <2> QED
    BY <2>1, NoCopiesOK, SameCopies DEF CopiesFollow
<1> QED
  BY <1>1, <1>2, <1>3, <1>4, <1>5 DEF TickStep

LEMMA CoordinatorCopiesStep ==
  ASSUME FleetIInv, NEW a \in Agents, CoordinatorStep(a) PROVE CopiesFollow(a)
<1>1. CASE Prepare(a) \/ CleanupSucceeded(a)
  <2>1. /\ seen' = [seen EXCEPT ![a][Job(a)] = MovedCopy(a)] /\ Moves(a)
        /\ agent[a].pc \notin JoblessLabels
    BY <1>1 DEF Prepare, CleanupSucceeded, Flush, At, JoblessLabels
  <2> QED
    BY <2>1, AtWork, MovedCopyIs, OneCopy DEF Moves
<1>2. CASE ~(Prepare(a) \/ CleanupSucceeded(a))
  <2>1. seen' = seen \/ seen' = [seen EXCEPT ![a] = NoCopies]
    BY <1>2 DEF CoordinatorStep, Dispatch, Checks, Refuse, StartInjecting, Inject,
         SaveContext, VerifyActive, Activate, InterruptedInjection, InjectionOvertaken,
         Expire, ObserveDuring, EnterCleanup, BeginCleanup, MarkCancelled, Restore,
         RecordAttempt, CleanupFailed, Verify, Verdict, MoveTo, MoveAndReturn, Commit,
         Rollback
  <2> QED
    BY <2>1, NoCopiesOK, SameCopies DEF CopiesFollow
<1> QED
  BY <1>1, <1>2

LEMMA AgentCopiesStep ==
  ASSUME FleetIInv, NEW a \in Agents, AgentStep(a) PROVE CopiesFollow(a)
<1>1. CASE Load(a)
  <2>1. Job(a) \in Present
    BY <1>1, AtWork DEF Load, LoadLabels, JoblessLabels
  <2>2. seen' = [seen EXCEPT ![a][Job(a)] = PlainCopy(View(a)[Job(a)])]
    BY <1>1 DEF Load
  <2> QED
    BY <2>1, <2>2, PresentRows, RowCopies, OneCopy
<1>2. CASE MoveRefused(a) \/ LockedOut(a)
  <2>1. \/ seen' = [seen EXCEPT ![a] = NoCopies]
        \/ seen' = CopiesAfter(a, seen[a])
    BY <1>2 DEF MoveRefused, LockedOut
  <2> QED
    BY <2>1, NoCopiesOK, CopiesAt, CopiesAfterFollow DEF CopiesFollow
<1>3. CASE MoveConflicts(a)
  <2> DEFINE copies == [seen[a] EXCEPT ![Job(a)] = MovedCopy(a)]
  <2>1. Job(a) \in Experiments
    BY <1>3, AtWork DEF MoveConflicts, Transits, MoveLabels, JoblessLabels
  <2>2. MovedCopy(a) \in CopyOf /\ MovedCopy(a).state # "absent"
    BY <1>3, <2>1, MovedCopyIs DEF MoveConflicts, Transits
  <2>3. CopiesOK(copies)
    BY <2>1, <2>2, CopiesAt DEF CopiesOK
  <2>4. seen' = CopiesAfter(a, copies)
    BY <1>3 DEF MoveConflicts
  <2> HIDE DEF copies
  <2> QED
    BY <2>3, <2>4, CopiesAfterFollow
<1>4. CASE Die(a) \/ Boot(a)
  <2>1. seen' = seen \/ seen' = [seen EXCEPT ![a] = NoCopies]
    BY <1>4 DEF Die, Boot
  <2> QED
    BY <2>1, NoCopiesOK, SameCopies DEF CopiesFollow
<1> QED
  BY <1>1, <1>2, <1>3, <1>4, TickCopiesStep, CoordinatorCopiesStep DEF AgentStep

RestOK ==
    /\ request' \in [Experiments -> {"none", "pending", "processed"}]
    /\ \A e \in Experiments : request'[e] # "none" => e \in Present'
    /\ overdue' \subseteq Experiments
    /\ outage' \in Experiments \cup {None}
    /\ stopCalls' \in [Experiments -> 0..2]
    /\ boots' \in 0..MaxBoots

LEMMA RestStays ==
  ASSUME NEW a \in Agents, AgentStep(a),
         ~(CompleteRequest(a) \/ Inject(a) \/ Restore(a) \/ Boot(a))
  PROVE  UNCHANGED <<request, targetVars, othersVars>>
<1>1. CASE TickStep(a)
  BY <1>1 DEF TickStep, BeginReconcile, Interrupt, BeginControls, ApplyCancel,
     ControlsDone, NoCandidate, ClaimWon, ClaimLost, StaleClaimRaises, Release,
     ReconcileNext, TakeRequest, SelectCandidate
<1>2. CASE CoordinatorStep(a)
  BY <1>2 DEF CoordinatorStep, Dispatch, Prepare, Checks, Refuse, StartInjecting,
     SaveContext, VerifyActive, Activate, InterruptedInjection, InjectionOvertaken,
     Expire, ObserveDuring, EnterCleanup, BeginCleanup, MarkCancelled,
     RecordAttempt, CleanupSucceeded, CleanupFailed, Verify, Verdict, MoveTo,
     MoveAndReturn
<1>3. CASE Load(a) \/ MoveRefused(a) \/ MoveConflicts(a) \/ LockedOut(a) \/ Die(a)
  BY <1>3 DEF Load, MoveRefused, MoveConflicts, LockedOut, Die
<1> QED
  BY <1>1, <1>2, <1>3 DEF AgentStep

LEMMA AgentRestStep ==
  ASSUME FleetIInv, NEW a \in Agents, AgentStep(a), Present \subseteq Present' PROVE RestOK
<1>0. FleetTypeOK /\ PresentInv
  BY DEF FleetIInv
<1>1. CASE CompleteRequest(a)
  <2>1. Job(a) \in Present
    BY <1>1, AtWork DEF CompleteRequest, At, JoblessLabels
  <2> QED
    BY <1>0, <1>1, <2>1
       DEF CompleteRequest, RestOK, FleetTypeOK, PresentInv, targetVars, othersVars
<1>2. CASE Inject(a)
  <2>1. Job(a) \in Experiments
    BY <1>2, AtWork DEF Inject, At, JoblessLabels
  <2>2. outage' \in {outage, Job(a)}
    BY <1>2 DEF Inject
  <2>3. stopCalls' \in [Experiments -> 0..2]
    BY <1>0, <1>2, <2>1 DEF Inject, FleetTypeOK
  <2> QED
    BY <1>0, <1>2, <2>1, <2>2, <2>3 DEF Inject, RestOK, FleetTypeOK, PresentInv, othersVars
<1>3. CASE Restore(a)
  <2>1. outage' \in {outage, None}
    BY <1>3 DEF Restore
  <2> QED
    BY <1>0, <1>3, <2>1 DEF Restore, RestOK, FleetTypeOK, PresentInv, othersVars
<1>4. CASE Boot(a)
  BY <1>0, <1>4 DEF Boot, RestOK, FleetTypeOK, PresentInv, targetVars
<1>5. CASE ~(CompleteRequest(a) \/ Inject(a) \/ Restore(a) \/ Boot(a))
  <2>1. UNCHANGED <<request, targetVars, othersVars>>
    BY <1>5, RestStays
  <2> QED
    BY <1>0, <2>1 DEF RestOK, FleetTypeOK, PresentInv, targetVars, othersVars
<1> QED
  BY <1>1, <1>2, <1>3, <1>4, <1>5

-----------------------------------------------------------------------------
(* The invariant of every step *)

LEMMA FollowedRow ==
  ASSUME NEW a \in Agents, NEW e \in Experiments, NEW r \in Row, NEW s,
         Follows(a, e, r, s)
  PROVE  /\ s \in Row
         /\ s.state = "absent" <=> r.state = "absent"
         /\ Gapless(r) => Gapless(s)
<1>1. s \in Row /\ "absent" \notin ExperimentState
  BY DEF Follows, ExperimentState
<1>2. CASE Kept(r, s)
  BY <1>1, <1>2 DEF Kept, Gapless, Sequences
<1>3. CASE MovedOn(a, e, r, s)
  <2> DEFINE new == [sequence |-> r.revision + 2, to |-> s.state]
  <2>1. /\ r.state # "absent" /\ s.state # "absent" /\ s.revision = r.revision + 1
        /\ s.audit = r.audit \cup {new} /\ r.revision \in Nat
    BY <1>1, <1>3 DEF MovedOn, Row
  <2>2. new.sequence = r.revision + 2 /\ new.to = s.state
    OBVIOUS
  <2> HIDE DEF new
  <2>3. ASSUME Gapless(r) PROVE Gapless(s)
    <3>1. /\ Sequences(r) = 1..(r.revision + 1)
          /\ \A entry \in r.audit, other \in r.audit :
                other.sequence = entry.sequence => other = entry
      BY <2>1, <2>3 DEF Gapless
    <3>2. \A entry \in r.audit : entry.sequence \in 1..(r.revision + 1)
      BY <3>1 DEF Sequences
    <3>3. Sequences(s) = Sequences(r) \cup {r.revision + 2}
      BY <2>1, <2>2 DEF Sequences
    <3>4. Sequences(s) = 1..(s.revision + 1)
      BY <2>1, <3>1, <3>3
    <3>5. \A entry \in s.audit : entry.sequence = s.revision + 1 => entry = new
      BY <2>1, <3>2
    <3>6. \A entry \in s.audit, other \in s.audit :
             other.sequence = entry.sequence => other = entry
      BY <2>1, <2>2, <3>1, <3>2
    <3> QED
      BY <2>2, <3>4, <3>5, <3>6 DEF Gapless
  <2> QED
    BY <1>1, <2>1, <2>3
<1> QED
  BY <1>2, <1>3 DEF Follows

LEMMA FollowedStore ==
  ASSUME FleetIInv, NEW a \in Agents, StoreFollows(a)
  PROVE  /\ saved' \in [Experiments -> Row] /\ rows' \in [Experiments -> Row]
         /\ writer' \in Agents \cup {None}
         /\ \A e \in Experiments : saved'[e].state = "absent" <=> saved[e].state = "absent"
         /\ \A e \in Experiments : saved'[e].state = "absent" <=> rows'[e].state = "absent"
         /\ TrailInv'
<1>1. ASSUME NEW e \in Experiments
      PROVE  /\ saved'[e].state = "absent" <=> saved[e].state = "absent"
             /\ rows'[e].state = "absent" <=> saved[e].state = "absent"
             /\ Gapless(saved'[e]) /\ Gapless(rows'[e])
  <2>1. saved[e] \in Row /\ rows[e] \in Row /\ Gapless(saved[e]) /\ Gapless(rows[e])
    BY DEF FleetIInv, FleetTypeOK, TrailInv
  <2>2. saved[e].state = "absent" <=> rows[e].state = "absent"
    BY DEF FleetIInv, PresentInv
  <2>3. \A s : Follows(a, e, saved[e], s) \/ Follows(a, e, rows[e], s) =>
                 /\ s.state = "absent" <=> saved[e].state = "absent"
                 /\ Gapless(s)
    BY <2>1, <2>2, FollowedRow
  <2> QED
    BY <2>3 DEF StoreFollows
<1> QED
  BY <1>1 DEF StoreFollows, TrailInv, Gapless

LEMMA AgentInvStep ==
  ASSUME FleetIInv, NEW a \in Agents, AgentStep(a) PROVE FleetIInv'
<1>1. /\ saved' \in [Experiments -> Row] /\ rows' \in [Experiments -> Row]
      /\ writer' \in Agents \cup {None}
      /\ \A e \in Experiments : saved'[e].state = "absent" <=> saved[e].state = "absent"
      /\ \A e \in Experiments : saved'[e].state = "absent" <=> rows'[e].state = "absent"
      /\ TrailInv'
  BY AgentStoreStep, FollowedStore
<1>2. Present' = Present
  BY <1>1 DEF Present
<1>3. RestOK
  BY <1>2, AgentRestStep
<1>4. /\ agent' \in [Agents -> Agent]
      /\ \A b \in Agents : ProcessOK(agent[b])'
  <2>1. PICK process \in Agent : agent' = [agent EXCEPT ![a] = process] /\ ProcessOK(process)
    BY AgentProcessStep DEF ProcessFollows
  <2>2. /\ agent' \in [Agents -> Agent]
        /\ \A b \in Agents : agent'[b] \in {process, agent[b]}
    BY <2>1, ProcessAt
  <2>3. \A b \in Agents : ProcessOK(agent'[b])
    BY <2>1, <2>2, ProcessAt
  <2> QED
    BY <1>2, <2>2, <2>3 DEF ProcessOK
<1>5. /\ seen' \in [Agents -> [Experiments -> CopyOf \cup {Expired}]]
      /\ \A b \in Agents, e \in Experiments :
            seen'[b][e] # Expired => seen'[b][e].state # "absent"
  <2>1. PICK copies : CopiesOK(copies) /\ seen' = [seen EXCEPT ![a] = copies]
    BY AgentCopiesStep DEF CopiesFollow
  <2>2. \A b \in Agents : seen'[b] \in {copies, seen[b]}
    BY <2>1, CopiesAt
  <2>3. \A b \in Agents : CopiesOK(seen'[b])
    BY <2>1, <2>2, CopiesAt
  <2>4. seen' \in [Agents -> [Experiments -> CopyOf \cup {Expired}]]
    BY <2>1, CopiesAt DEF CopiesOK
  <2> QED
    BY <2>3, <2>4 DEF CopiesOK
<1>6. PresentInv'
  BY <1>1, <1>3, <1>4, <1>5 DEF PresentInv, RestOK, Expired
<1>7. FleetTypeOK'
  BY <1>1, <1>3, <1>4, <1>5 DEF FleetTypeOK, RestOK, Expired
<1> QED
  BY <1>1, <1>6, <1>7 DEF FleetIInv

LEMMA ProcessStays ==
  ASSUME FleetIInv, Present \subseteq Present', UNCHANGED <<seen, agent>>
  PROVE  /\ agent' \in [Agents -> Agent]
         /\ seen' \in [Agents -> [Experiments -> CopyOf \cup {Expired}]]
         /\ \A b \in Agents : ProcessOK(agent[b])'
         /\ \A b \in Agents, e \in Experiments :
               seen'[b][e] # Expired => seen'[b][e].state # "absent"
<1>1. \A b \in Agents : ProcessOK(agent[b])'
  BY ProcessAt DEF ProcessOK
<1> QED
  BY <1>1 DEF FleetIInv, FleetTypeOK, PresentInv

PlannedRow == [NoRow EXCEPT !.state = "planned",
                            !.audit = {[sequence |-> 1, to |-> "planned"]}]

LEMMA NewRows ==
  /\ NoRow \in Row /\ NoRow.state = "absent"
  /\ PlannedRow \in Row /\ PlannedRow.state = "planned" /\ Gapless(PlannedRow)
<1>1. NoRow \in Row /\ NoRow.state = "absent"
  <2>1. 0 \in 0..AttemptCap
    OBVIOUS
  <2> QED
    BY <2>1 DEF NoRow, Row, Outcomes
<1>2. PlannedRow.state = "planned" /\ PlannedRow.revision = 0
      /\ PlannedRow.audit = {[sequence |-> 1, to |-> "planned"]}
  BY DEF PlannedRow, NoRow
<1>3. PlannedRow \in Row
  <2> DEFINE audit == {[sequence |-> 1, to |-> "planned"]}
  <2>1. audit \in SUBSET AuditEntry
    BY DEF AuditEntry, ExperimentState
  <2>2. "planned" \in ExperimentState
    BY DEF ExperimentState
  <2> HIDE DEF audit
  <2>3. ASSUME NEW r \in Row PROVE [r EXCEPT !.state = "planned", !.audit = audit] \in Row
    BY <2>1, <2>2 DEF Row
  <2>4. PlannedRow = [NoRow EXCEPT !.state = "planned", !.audit = audit]
    BY DEF PlannedRow, audit
  <2> QED
    BY <1>1, <2>3, <2>4
<1>4. Sequences(PlannedRow) = 1..(PlannedRow.revision + 1)
  BY <1>2 DEF Sequences
<1> QED
  BY <1>1, <1>2, <1>3, <1>4 DEF Gapless

LEMMA OthersInvStep ==
  ASSUME FleetIInv, NEW e \in Experiments, OthersStep(e) PROVE FleetIInv'
<1>0. FleetTypeOK /\ PresentInv /\ TrailInv
  BY DEF FleetIInv
<1>1. CASE Schedule(e)
  <2>1. saved' = [saved EXCEPT ![e] = PlannedRow] /\ rows' = saved'
    BY <1>1 DEF Schedule, PlannedRow
  <2>2. /\ saved' \in [Experiments -> Row]
        /\ \A f \in Experiments : saved'[f] \in {saved[f], PlannedRow}
    BY <1>0, <2>1, NewRows DEF FleetTypeOK
  <2>3. Present \subseteq Present'
    BY <2>2, NewRows DEF Present
  <2>4. TrailInv'
    <3>1. \A f \in Experiments : Gapless(saved'[f])
      BY <1>0, <2>2, NewRows DEF TrailInv
    <3> QED
      BY <2>1, <3>1 DEF TrailInv, Gapless
  <2>5. UNCHANGED <<writer, seen, agent, request, targetVars, othersVars>>
    BY <1>1 DEF Schedule
  <2>6. FleetTypeOK'
    BY <1>0, <2>1, <2>2, <2>3, <2>5, ProcessStays
       DEF FleetTypeOK, targetVars, othersVars, Expired
  <2>7. PresentInv'
    BY <1>0, <2>1, <2>2, <2>3, <2>5, ProcessStays DEF PresentInv, Expired
  <2> QED
    BY <2>4, <2>6, <2>7 DEF FleetIInv
<1>2. CASE RequestCancel(e) \/ Elapse(e)
  <2>1. UNCHANGED <<saved, rows, writer, seen, agent, outage, stopCalls, boots>>
    BY <1>2 DEF RequestCancel, Elapse, storeVars, targetVars, othersVars
  <2>2. Present' = Present /\ TrailInv'
    BY <1>0, <2>1 DEF Present, TrailInv, Gapless
  <2>3. \/ request' = request
        \/ e \in Present /\ request' = [request EXCEPT ![e] = "pending"]
    BY <1>2 DEF RequestCancel, Elapse, Present, Unfinished, ExperimentState
  <2>4. overdue' \subseteq Experiments
    BY <1>0, <1>2 DEF RequestCancel, Elapse, othersVars, FleetTypeOK
  <2>5. /\ request' \in [Experiments -> {"none", "pending", "processed"}]
        /\ \A f \in Experiments : request'[f] # "none" => f \in Present'
    BY <1>0, <2>2, <2>3 DEF FleetTypeOK, PresentInv
  <2>6. FleetTypeOK'
    BY <1>0, <2>1, <2>2, <2>4, <2>5, ProcessStays DEF FleetTypeOK, Expired
  <2>7. PresentInv'
    BY <1>0, <2>1, <2>2, <2>5, ProcessStays DEF PresentInv, Expired
  <2> QED
    BY <2>2, <2>6, <2>7 DEF FleetIInv
<1>3. CASE Lapse(e)
  <2>1. /\ saved' = [saved EXCEPT ![e].lapsed = TRUE]
        /\ rows' = [rows EXCEPT ![e].lapsed = TRUE]
        /\ UNCHANGED <<writer, seen, agent, request, targetVars, othersVars>>
    BY <1>3 DEF Lapse
  <2> DEFINE RanOut(r) == [r EXCEPT !.lapsed = TRUE]
  <2>2. \A r \in Row : /\ RanOut(r) \in Row /\ RanOut(r).state = r.state
                       /\ Gapless(r) => Gapless(RanOut(r))
    <3> TAKE r \in Row
    <3> DEFINE s == [r EXCEPT !.lapsed = TRUE]
    <3>1. s \in Row /\ s.state = r.state /\ s.revision = r.revision /\ s.audit = r.audit
      BY DEF Row
    <3> HIDE DEF s
    <3>2. Gapless(r) => Gapless(s)
      BY <3>1 DEF Gapless, Sequences
    <3> QED
      BY <3>1, <3>2 DEF s
  <2>3. /\ saved' = [saved EXCEPT ![e] = RanOut(saved[e])]
        /\ rows' = [rows EXCEPT ![e] = RanOut(rows[e])]
    BY <2>1
  <2> HIDE DEF RanOut
  <2>4. /\ saved' \in [Experiments -> Row] /\ rows' \in [Experiments -> Row]
        /\ \A f \in Experiments : saved'[f].state = saved[f].state
                                  /\ rows'[f].state = rows[f].state
        /\ \A f \in Experiments : Gapless(saved'[f]) /\ Gapless(rows'[f])
    BY <1>0, <2>2, <2>3 DEF FleetTypeOK, TrailInv
  <2>5. Present' = Present
    BY <2>4 DEF Present
  <2>6. TrailInv'
    BY <2>4 DEF TrailInv, Gapless
  <2>7. FleetTypeOK'
    BY <1>0, <2>1, <2>4, <2>5, ProcessStays
       DEF FleetTypeOK, targetVars, othersVars, Expired
  <2>8. PresentInv'
    BY <1>0, <2>1, <2>4, <2>5, ProcessStays DEF PresentInv, Expired
  <2> QED
    BY <2>6, <2>7, <2>8 DEF FleetIInv
<1> QED
  BY <1>1, <1>2, <1>3 DEF OthersStep

LEMMA FleetInvInit == Init => FleetIInv
<1> SUFFICES ASSUME Init PROVE FleetIInv
  OBVIOUS
<1>1. \A e \in Experiments : saved[e] = NoRow /\ rows[e] = NoRow
  BY DEF Init
<1>2. TrailInv
  BY <1>1, NewRows DEF TrailInv, Gapless
<1>3. PresentInv
  <2>1. \A a \in Agents : ProcessOK(agent[a])
    BY BootedIs DEF Init
  <2> QED
    BY <1>1, <2>1 DEF Init, PresentInv, NoCopies
<1>4. FleetTypeOK
  <2>1. Booted("down") \in Agent /\ NoRow \in Row
    BY BootedIs, NewRows
  <2> QED
    BY <2>1, NoCopiesOK DEF Init, FleetTypeOK, CopiesOK
<1> QED
  BY <1>2, <1>3, <1>4 DEF FleetIInv

LEMMA FleetInvStep == FleetIInv /\ [Next]_vars => FleetIInv'
<1> SUFFICES ASSUME FleetIInv, [Next]_vars PROVE FleetIInv'
  OBVIOUS
<1>1. CASE UNCHANGED vars
  BY <1>1 DEF vars, FleetIInv, FleetTypeOK, PresentInv, TrailInv, ProcessOK, Present,
              Gapless
<1> QED
  BY <1>1, AgentInvStep, OthersInvStep DEF Next

LEMMA FleetInvHolds == Spec => []FleetIInv
  BY FleetInvInit, FleetInvStep, PTL DEF Spec

-----------------------------------------------------------------------------
(* What a reader should know of *)

\* The types, for any number of processes and experiments.
THEOREM FleetTypeCorrect == Spec => []FleetTypeOK
  BY FleetInvHolds, PTL DEF FleetIInv

\* However many sessions work from stale copies, the audit trail of every row
\* is numbered without gaps or doubles and ends at the row's state.
THEOREM TrailsAreGapless == Spec => []AuditIsGapless
<1>1. FleetIInv => AuditIsGapless
  BY DEF FleetIInv, TrailInv, Gapless, AuditIsGapless
<1> QED
  BY <1>1, FleetInvHolds, PTL

-----------------------------------------------------------------------------
(* The exclusive claim *)

\* Who lets a row go has no claim afterwards and no copies, not even when it
\* could not.
LEMMA ReleaseEnds ==
  ASSUME FleetIInv, NEW a \in Agents, At(a, "release"), AgentStep(a)
  PROVE  ~agent'[a].claimed /\ seen'[a] = NoCopies
<1>1. agent \in [Agents -> Agent] /\ seen \in [Agents -> [Experiments -> CopyOf \cup {Expired}]]
  BY ProcessAt, CopiesAt
<1>2. CASE Release(a)
  BY <1>1, <1>2, TickOverFollows DEF Release, Commit
<1>3. CASE LockedOut(a)
  <2>1. agent' = TickOver(a) /\ seen' = CopiesAfter(a, seen[a])
    BY <1>3 DEF LockedOut, FlushLabels, Raised, At
  <2>2. agent'[a].pc = "idle"
    BY <1>1, <2>1, TickIsOver
  <2> QED
    BY <1>1, <2>1, <2>2, TickOverFollows DEF CopiesAfter
<1>4. CASE Die(a)
  BY <1>1, <1>4, BootedIs DEF Die
<1>5. CASE ~(Release(a) \/ LockedOut(a) \/ Die(a))
  <2>1. ~CoordinatorStep(a)
    BY DEF CoordinatorStep, Dispatch, Prepare, Checks, Refuse, StartInjecting, Inject,
         SaveContext, VerifyActive, Activate, InterruptedInjection, InjectionOvertaken,
         Expire, ObserveDuring, EnterCleanup, BeginCleanup, MarkCancelled, Restore,
         RecordAttempt, CleanupSucceeded, CleanupFailed, Verify, Verdict, MoveTo,
         MoveAndReturn, At
  <2>2. ~TickStep(a)
    BY <1>5 DEF TickStep, BeginReconcile, Interrupt, BeginControls, ApplyCancel,
         CompleteRequest, ControlsDone, NoCandidate, ClaimWon, ClaimLost, StaleClaimRaises,
         ReconcileNext, TakeRequest, SelectCandidate, At
  <2>3. ~(Load(a) \/ MoveRefused(a) \/ MoveConflicts(a) \/ Boot(a))
    BY DEF Load, LoadLabels, MoveRefused, MoveConflicts, Transits, MoveLabels, Boot, At
  <2> QED
    BY <1>5, <2>1, <2>2, <2>3 DEF AgentStep
<1> QED
  BY <1>2, <1>3, <1>4, <1>5

LEMMA ClaimedHasJob ==
  ASSUME FleetIInv, NEW a \in Agents, agent[a].claimed
  PROVE  Job(a) \in Present /\ Job(a) \in Experiments
<1>1. agent[a].pc \notin JoblessLabels
  BY ProcessAt DEF ProcessOK, UnclaimedLabels
<1> QED
  BY <1>1, AtWork

\* A claim is won on a row without an owner, and leaves it with one.
LEMMA WonWasFree ==
  ASSUME FleetIInv, NEW a \in Agents, ClaimWon(a)
  PROVE  /\ saved[Job(a)].owner = None \/ rows[Job(a)].owner = None
         /\ saved'[Job(a)].owner # None /\ rows'[Job(a)].owner # None
<1>1. Job(a) \in Experiments /\ View(a)[Job(a)] \in Row
  BY AtWork, RowAtHand DEF ClaimWon, At, JoblessLabels
<1>2. View(a) \in [Experiments -> Row] /\ (View(a) = saved \/ View(a) = rows)
  BY ViewTyped DEF FleetIInv
<1>3. View(a)[Job(a)].owner = None
  BY DEF ClaimWon, ClaimRaises, StillFree
<1>4. /\ saved' = [View(a) EXCEPT ![Job(a)] = [View(a)[Job(a)] EXCEPT !.owner = a,
                                                                      !.lapsed = FALSE]]
      /\ rows' = saved'
  BY DEF ClaimWon, Leased, Commit, Update
<1>5. saved'[Job(a)].owner = a
  BY <1>1, <1>2, <1>4 DEF Row
<1> QED
  BY <1>2, <1>3, <1>4, <1>5

LEMMA AgentOwnedStep ==
  ASSUME FleetIInv, OwnedInv, NEW a \in Agents, AgentStep(a)
  PROVE  OwnedInv'
<1>1. PICK process \in Agent :
           /\ agent' = [agent EXCEPT ![a] = process]
           /\ process.claimed => process.job = Job(a) /\ (agent[a].claimed \/ ClaimWon(a))
  BY AgentProcessStep DEF ProcessFollows
<1>2. agent'[a] = process /\ \A b \in Agents \ {a} : agent'[b] = agent[b]
  BY <1>1, ProcessAt
<1>3. \A b \in Agents : agent'[b].claimed =>
         agent'[b].job = agent[b].job /\ (agent[b].claimed \/ (b = a /\ ClaimWon(a)))
  BY <1>1, <1>2 DEF Job
<1>4. StoreFollows(a)
  BY AgentStoreStep
<1>5. ASSUME NEW b \in Agents, agent[b].claimed, agent'[b].claimed
      PROVE  saved'[Job(b)].owner # None /\ rows'[Job(b)].owner # None
  <2>1. Job(b) \in Experiments
    BY <1>5, ClaimedHasJob
  <2>2. saved[Job(b)].owner # None /\ rows[Job(b)].owner # None
    BY <1>5 DEF OwnedInv
  <2>3. ~Lets(a, Job(b))
    <3> SUFFICES ASSUME At(a, "release"), Job(b) = Job(a) PROVE FALSE
      BY DEF Lets
    <3>1. agent[a].claimed
      BY ProcessAt DEF ProcessOK, At
    <3>2. a = b
      BY <1>5, <3>1 DEF OwnedInv, ClaimIsExclusive
    <3> QED
      BY <1>5, <3>2, ReleaseEnds
  <2> QED
    BY <1>4, <2>1, <2>2, <2>3 DEF StoreFollows, Follows
<1>6. ASSUME NEW b \in Agents, agent'[b].claimed
      PROVE  saved'[agent'[b].job].owner # None /\ rows'[agent'[b].job].owner # None
  <2>1. CASE agent[b].claimed
    BY <1>3, <1>5, <1>6, <2>1 DEF Job
  <2>2. CASE b = a /\ ClaimWon(a)
    BY <1>3, <1>6, <2>2, WonWasFree DEF Job
  <2> QED
    BY <1>3, <1>6, <2>1, <2>2
<1>7. ASSUME NEW b \in Agents, NEW c \in Agents, agent'[b].claimed, agent'[c].claimed,
             agent'[b].job = agent'[c].job
      PROVE  b = c
  <2>1. agent[b].job = agent[c].job
    BY <1>3, <1>7
  <2>2. CASE agent[b].claimed /\ agent[c].claimed
    BY <2>1, <2>2 DEF OwnedInv, ClaimIsExclusive, Job
  <2>3. CASE ClaimWon(a) /\ ((b = a /\ agent[c].claimed) \/ (c = a /\ agent[b].claimed))
    <3>1. PICK d \in Agents : agent[d].claimed /\ Job(d) = Job(a)
      BY <2>1, <2>3 DEF Job
    <3>2. saved[Job(a)].owner # None /\ rows[Job(a)].owner # None
      BY <3>1 DEF OwnedInv
    <3> QED
      BY <2>3, <3>2, WonWasFree
  <2> QED
    BY <1>3, <1>7, <2>2, <2>3
<1> QED
  BY <1>6, <1>7 DEF OwnedInv, ClaimIsExclusive, Job

LEMMA OthersOwnedStep ==
  ASSUME FleetIInv, OwnedInv, NEW e \in Experiments, OthersStep(e) PROVE OwnedInv'
<1>1. agent' = agent
  BY DEF OthersStep, Schedule, RequestCancel, Elapse, Lapse
<1>2. ASSUME NEW a \in Agents, agent[a].claimed
      PROVE  saved'[Job(a)].owner # None /\ rows'[Job(a)].owner # None
  <2>1. Job(a) \in Experiments /\ Job(a) \in Present
    BY <1>2, ClaimedHasJob
  <2>2. saved[Job(a)].owner # None /\ rows[Job(a)].owner # None
    BY <1>2 DEF OwnedInv
  <2>3. saved \in [Experiments -> Row] /\ rows \in [Experiments -> Row]
    BY DEF FleetIInv, FleetTypeOK
  <2>4. CASE Schedule(e)
    <3>1. e # Job(a)
      BY <2>1, <2>4 DEF Schedule, Present
    <3> QED
      BY <2>1, <2>2, <2>3, <2>4, <3>1 DEF Schedule
  <2>5. CASE RequestCancel(e) \/ Elapse(e)
    BY <2>2, <2>5 DEF RequestCancel, Elapse, storeVars
  <2>6. CASE Lapse(e)
    <3>1. \A r \in Row : [r EXCEPT !.lapsed = TRUE].owner = r.owner
      BY DEF Row
    <3>2. /\ saved' = [saved EXCEPT ![e] = [saved[e] EXCEPT !.lapsed = TRUE]]
          /\ rows' = [rows EXCEPT ![e] = [rows[e] EXCEPT !.lapsed = TRUE]]
      BY <2>6 DEF Lapse
    <3> QED
      BY <2>1, <2>2, <2>3, <3>1, <3>2
  <2> QED
    BY <2>4, <2>5, <2>6 DEF OthersStep
<1> QED
  BY <1>1, <1>2 DEF OwnedInv, ClaimIsExclusive, Job

LEMMA OwnedInvariant == Spec => []OwnedInv
<1>1. Init => OwnedInv
  <2> SUFFICES ASSUME Init PROVE OwnedInv
    OBVIOUS
  <2>1. \A a \in Agents : ~agent[a].claimed
    BY BootedIs DEF Init
  <2> QED
    BY <2>1 DEF OwnedInv, ClaimIsExclusive
<1>2. FleetIInv /\ OwnedInv /\ [Next]_vars => OwnedInv'
  <2> SUFFICES ASSUME FleetIInv, OwnedInv, [Next]_vars PROVE OwnedInv'
    OBVIOUS
  <2>1. CASE UNCHANGED vars
    BY <2>1 DEF vars, OwnedInv, ClaimIsExclusive, Job
  <2> QED
    BY <2>1, AgentOwnedStep, OthersOwnedStep DEF Next
<1> QED
  BY <1>1, <1>2, FleetInvHolds, PTL DEF Spec

\* No two processes ever work on an experiment under a claim: not while a lease
\* runs out under its process, not after a crash, and not for any number of
\* processes.  It rests on the claim of a run-out lease raising: no lease is
\* ever taken over.
THEOREM ClaimsExclude == Spec => []ClaimIsExclusive
<1>1. OwnedInv => ClaimIsExclusive
  BY DEF OwnedInv
<1> QED
  BY <1>1, OwnedInvariant, PTL

-----------------------------------------------------------------------------
(* Rows and what they were *)

LEMMA StatesSplit ==
  /\ "absent" \notin ExperimentState /\ TerminalStates \subseteq PastStates
  /\ PastStates \subseteq BegunStates /\ BegunStates \subseteq ExperimentState
  /\ ClosedStates \subseteq PastStates /\ BegunStates \ PastStates = {"injecting"}
  BY DEF ExperimentState, TerminalStates, PastStates, BegunStates, ClosedStates

\* A trail ends at the row's state.
LEMMA LastEntry ==
  ASSUME NEW r \in Row, Gapless(r), r.state # "absent"
  PROVE  /\ [sequence |-> r.revision + 1, to |-> r.state] \in r.audit
         /\ \A entry \in r.audit :
               /\ entry \in AuditEntry
               /\ entry.sequence <= r.revision \/ entry.sequence = r.revision + 1
               /\ entry.sequence = r.revision + 1 => entry.to = r.state
<1>1. r.revision \in Nat /\ r.audit \subseteq AuditEntry
  BY DEF Row
<1>2. r.revision + 1 \in Sequences(r)
  BY <1>1 DEF Gapless
<1>3. PICK entry \in r.audit : entry.sequence = r.revision + 1
  BY <1>2 DEF Sequences
<1>4. entry.to = r.state
  BY <1>3 DEF Gapless
<1>5. entry = [sequence |-> r.revision + 1, to |-> r.state]
  BY <1>1, <1>3, <1>4 DEF AuditEntry
<1>6. ASSUME NEW other \in r.audit
      PROVE  other.sequence <= r.revision \/ other.sequence = r.revision + 1
  <2>1. other.sequence \in Sequences(r)
    BY DEF Sequences
  <2>2. other.sequence \in 1..(r.revision + 1)
    BY <2>1 DEF Gapless
  <2> QED
    BY <1>1, <2>2
<1> QED
  BY <1>1, <1>3, <1>5, <1>6 DEF Gapless

\* What a point in a row's trail says about the row.
LEMMA PointInTrail ==
  ASSUME NEW r \in Row, Gapless(r), Sound(r), NEW revision \in Nat, NEW state,
         [sequence |-> revision + 1, to |-> state] \in r.audit
  PROVE  /\ r.state # "absent" /\ revision <= r.revision
         /\ state \in BegunStates => r.state \in BegunStates
         /\ state \in PastStates => r.state \in PastStates
         /\ revision = r.revision => state = r.state
         /\ state \in TerminalStates => revision = r.revision /\ state = r.state
         /\ revision # r.revision /\ state \in BegunStates => r.state \in PastStates
<1> DEFINE entry == [sequence |-> revision + 1, to |-> state]
<1>1. entry \in r.audit /\ entry.sequence = revision + 1 /\ entry.to = state
  OBVIOUS
<1>2. r.state # "absent"
  BY DEF Sound
<1>3. r.revision \in Nat
  BY DEF Row
<1> HIDE DEF entry
<1>4. \/ entry.sequence <= r.revision
      \/ entry.sequence = r.revision + 1 /\ entry.to = r.state
  BY <1>1, <1>2, LastEntry
<1>5. CASE revision # r.revision
  <2>1. entry.sequence <= r.revision
    BY <1>1, <1>3, <1>4, <1>5
  <2>2. state \notin TerminalStates /\ (state \in BegunStates => r.state \in PastStates)
    BY <1>1, <2>1 DEF Sound
  <2> QED
    BY <1>1, <1>2, <1>3, <1>5, <2>1, <2>2, StatesSplit
<1>6. CASE revision = r.revision
  BY <1>1, <1>2, <1>3, <1>4, <1>6
<1> QED
  BY <1>5, <1>6

\* A longer trail is a later row.
Later(r, s) ==
    /\ r.audit \subseteq s.audit
    /\ r.state \in BegunStates => s.state \in BegunStates
    /\ r.state \in PastStates => s.state \in PastStates
    /\ r.state \in TerminalStates => Kept(r, s)

LEMMA LongerIsLater ==
  ASSUME NEW r \in Row, NEW s \in Row, Gapless(r), Gapless(s), Sound(r), Sound(s),
         r.audit \subseteq s.audit
  PROVE  Later(r, s)
<1>1. CASE r.state = "absent"
  BY <1>1, StatesSplit DEF Later
<1>2. CASE r.state # "absent"
  <2>1. [sequence |-> r.revision + 1, to |-> r.state] \in s.audit /\ r.revision \in Nat
    BY <1>2, LastEntry DEF Row
  <2>2. /\ r.state \in BegunStates => s.state \in BegunStates
        /\ r.state \in PastStates => s.state \in PastStates
        /\ r.state \in TerminalStates => r.revision = s.revision /\ r.state = s.state
        /\ s.state # "absent"
    BY <2>1, PointInTrail
  <2>3. ASSUME r.revision = s.revision PROVE s.audit = r.audit
    <3> SUFFICES ASSUME NEW x \in s.audit PROVE x \in r.audit
      OBVIOUS
    <3>1. x.sequence \in Sequences(s)
      BY DEF Sequences
    <3>2. x.sequence \in Sequences(r)
      BY <1>2, <2>2, <2>3, <3>1 DEF Gapless
    <3>3. PICK y \in r.audit : y.sequence = x.sequence
      BY <3>2 DEF Sequences
    <3> QED
      BY <2>2, <3>3 DEF Gapless
  <2> QED
    BY <2>2, <2>3 DEF Later, Kept
<1> QED
  BY <1>1, <1>2

\* A valid transition keeps the history sound; so does the one a process with
\* a phantom copy makes.
LEMMA MovedIsSound ==
  ASSUME NEW r \in Row, NEW s \in Row, Gapless(r), Sound(r), r.state # "absent",
         s.state \in ExperimentState, s.revision = r.revision + 1,
         s.audit = r.audit \cup {[sequence |-> r.revision + 2, to |-> s.state]},
         \/ ValidTransition(r.state, s.state)
         \/ s.state = "expired" /\ r.revision = 3
  PROVE  Sound(s)
<1>1. r.revision \in Nat /\ r.state \in ExperimentState
  BY DEF Row
<1> DEFINE last == [sequence |-> r.revision + 1, to |-> r.state]
           new == [sequence |-> r.revision + 2, to |-> s.state]
<1>2. last \in r.audit /\ last.sequence = r.revision + 1 /\ last.to = r.state
  BY LastEntry
<1>3. new.sequence = r.revision + 2 /\ new.to = s.state /\ s.audit = r.audit \cup {new}
  OBVIOUS
<1> HIDE DEF last, new
<1>4. Timely(last)
  BY <1>2 DEF Sound
<1>5. /\ r.state \notin TerminalStates
      /\ r.state \in BegunStates => s.state \in PastStates
      /\ Timely(new)
  <2>1. CASE ValidTransition(r.state, s.state)
    <3>1. s.state \in AllowedTransitions[r.state]
      BY <2>1 DEF ValidTransition
    <3>2. CASE r.state \in {"planned", "preflight", "injecting"}
      BY <1>1, <1>2, <1>3, <1>4, <3>1, <3>2
         DEF AllowedTransitions, ExperimentState, Timely, TerminalStates, PastStates, BegunStates
    <3>3. CASE r.state \in {"active", "cancellation_requested", "expired", "cleaning_up"}
      BY <1>1, <1>2, <1>3, <1>4, <3>1, <3>3
         DEF AllowedTransitions, ExperimentState, Timely, TerminalStates, PastStates, BegunStates
    <3>4. CASE r.state \in {"verifying", "cleanup_failed"}
      BY <1>1, <1>2, <1>3, <1>4, <3>1, <3>4
         DEF AllowedTransitions, ExperimentState, Timely, TerminalStates, PastStates, BegunStates
    <3>5. CASE r.state \in TerminalStates
      BY <3>1, <3>5 DEF AllowedTransitions, ExperimentState, TerminalStates
    <3> QED
      BY <1>1, <3>2, <3>3, <3>4, <3>5 DEF ExperimentState, TerminalStates
  <2>2. CASE s.state = "expired" /\ r.revision = 3
    BY <1>2, <1>3, <1>4, <2>2 DEF Timely, TerminalStates, PastStates, ExperimentState
  <2> QED
    BY <2>1, <2>2
<1>6. ASSUME NEW entry \in s.audit
      PROVE  /\ Timely(entry)
             /\ entry.sequence <= s.revision =>
                  /\ entry.to \notin TerminalStates
                  /\ entry.to \in BegunStates => s.state \in PastStates
  <2>1. CASE entry = new
    BY <1>1, <1>3, <1>5, <2>1
  <2>2. CASE entry \in r.audit
    <3>1. \/ entry.sequence <= r.revision
          \/ entry.sequence = r.revision + 1 /\ entry.to = r.state
      BY <2>2, LastEntry
    <3>2. Timely(entry)
      BY <2>2 DEF Sound
    <3>3. CASE entry.sequence <= r.revision
      BY <1>5, <2>2, <3>2, <3>3, StatesSplit DEF Sound
    <3>4. CASE entry.to = r.state
      BY <1>5, <3>2, <3>4
    <3> QED
      BY <3>1, <3>3, <3>4
  <2> QED
    BY <1>3, <2>1, <2>2
<1>7. s.state # "absent"
  BY StatesSplit
<1> QED
  BY <1>6, <1>7 DEF Sound

-----------------------------------------------------------------------------
(* Histories are sound, and the copies show them *)

LEMMA RowsAreSound ==
  ASSUME FleetIInv, SoundInv, NEW e \in Experiments
  PROVE  /\ saved[e] \in Row /\ Gapless(saved[e]) /\ Sound(saved[e])
         /\ rows[e] \in Row /\ Gapless(rows[e]) /\ Sound(rows[e])
         /\ \A a \in Agents : View(a)[e] \in Row /\ Gapless(View(a)[e]) /\ Sound(View(a)[e])
  BY DEF FleetIInv, FleetTypeOK, TrailInv, SoundInv, View

LEMMA CopyRevision ==
  ASSUME FleetIInv, NEW a \in Agents, NEW e \in Experiments, seen[a][e] # Expired
  PROVE  seen[a][e] \in CopyOf /\ seen[a][e].revision \in Nat
<1>1. seen[a][e] \in CopyOf
  BY DEF FleetIInv, FleetTypeOK
<1> QED
  BY <1>1 DEF CopyOf

\* A transition is valid for the row and not only for the copy, but for the
\* one a process makes that lost its row while it was injecting.
LEMMA MoveIsValid ==
  ASSUME FleetIInv, SoundInv, CopyInv, NEW a \in Agents, Transits(a), Moves(a)
  PROVE  LET r == View(a)[Job(a)] IN
         \/ Copy(a).state = r.state /\ ValidTransition(r.state, Goal(a))
         \/ /\ At(a, "expire") /\ Goal(a) = "expired" /\ r.revision = 3
            /\ Phantom(a, Job(a))
<1>1. agent[a].pc \notin JoblessLabels /\ ~At(a, "release")
  BY DEF Transits, MoveLabels, JoblessLabels, At
<1>2. Job(a) \in Experiments /\ seen[a][Job(a)] # Expired
  BY <1>1, AtWork DEF Transits, Loaded, Copy
<1>3. View(a)[Job(a)].revision = Copy(a).revision /\ ValidTransition(Copy(a).state, Goal(a))
  BY DEF Moves
<1>4. CASE Shows(Copy(a), View(a)[Job(a)])
  <2>1. Copy(a).revision \in Nat
    BY <1>2, CopyRevision DEF Copy
  <2>2. Copy(a).state = View(a)[Job(a)].state
    BY <1>2, <1>3, <1>4, <2>1, RowsAreSound, PointInTrail DEF Shows
  <2> QED
    BY <1>3, <2>2
<1>5. CASE Phantom(a, Job(a))
  <2>1. At(a, "expire")
    BY <1>5 DEF Phantom, Transits, MoveLabels, Copy, At
  <2>2. Goal(a) = "expired"
    BY <2>1 DEF Goal, At
  <2> QED
    BY <1>3, <1>5, <2>1, <2>2 DEF Phantom, Copy
<1> QED
  BY <1>1, <1>2, <1>4, <1>5 DEF CopyInv, Copy

LEMMA AgentSoundStep ==
  ASSUME FleetIInv, SoundInv, CopyInv, NEW a \in Agents, AgentStep(a) PROVE SoundInv'
<1>1. ASSUME NEW e \in Experiments, NEW r, r \in {saved[e], rows[e]}, NEW s, Follows(a, e, r, s)
      PROVE  Sound(s)
  <2>1. r \in Row /\ Gapless(r) /\ Sound(r) /\ s \in Row
    BY <1>1, RowsAreSound DEF Follows
  <2>2. CASE Kept(r, s)
    BY <2>1, <2>2 DEF Kept, Sound
  <2>3. CASE MovedOn(a, e, r, s)
    BY <2>1, <2>3, MoveIsValid, MovedIsSound DEF MovedOn
  <2> QED
    BY <1>1, <2>2, <2>3 DEF Follows
<1>2. ASSUME NEW e \in Experiments PROVE Sound(saved'[e]) /\ Sound(rows'[e])
  <2>1. /\ Follows(a, e, saved[e], saved'[e]) \/ Follows(a, e, rows[e], saved'[e])
        /\ Follows(a, e, saved[e], rows'[e]) \/ Follows(a, e, rows[e], rows'[e])
    BY AgentStoreStep DEF StoreFollows
  <2> QED
    BY <1>1, <2>1
<1> QED
  BY <1>2 DEF SoundInv, Sound, Timely

LEMMA MoveFollowsPolicy ==
  ASSUME NEW r \in Row, NEW s, Gapless(r), r.state # "absent", FollowsPolicy(r),
         s.audit = r.audit \cup {[sequence |-> r.revision + 2, to |-> s.state]},
         \/ ValidTransition(r.state, s.state)
         \/ s.state = "expired" /\ r.revision = 3
  PROVE  FollowsPolicy(s)
<1> DEFINE new == [sequence |-> r.revision + 2, to |-> s.state]
<1>1. /\ new.sequence = r.revision + 2 /\ new.to = s.state /\ s.audit = r.audit \cup {new}
      /\ r.revision \in Nat
  BY DEF Row
<1> HIDE DEF new
<1>2. ASSUME NEW entry \in r.audit
      PROVE  /\ entry.sequence \in Nat
             /\ entry.sequence <= r.revision \/ entry.sequence = r.revision + 1
             /\ entry.sequence = r.revision + 1 => entry.to = r.state
  BY LastEntry DEF AuditEntry
<1> SUFFICES ASSUME NEW earlier \in s.audit, NEW later \in s.audit,
                    later.sequence = earlier.sequence + 1
             PROVE  \/ ValidTransition(earlier.to, later.to)
                    \/ later.to = "expired" /\ later.sequence = 5
  BY DEF FollowsPolicy
<1>3. CASE earlier \in r.audit /\ later \in r.audit
  BY <1>3 DEF FollowsPolicy
<1>4. CASE earlier \in r.audit /\ later = new
  <2>1. earlier.sequence = r.revision + 1
    BY <1>1, <1>2, <1>4
  <2> QED
    BY <1>1, <1>2, <1>4, <2>1
<1>5. ~(earlier = new /\ later \in r.audit) /\ ~(earlier = new /\ later = new)
  BY <1>1, <1>2
<1> QED
  BY <1>1, <1>3, <1>4, <1>5

LEMMA AgentPolicyStep ==
  ASSUME FleetIInv, SoundInv, CopyInv, PolicyInv, NEW a \in Agents, AgentStep(a) PROVE PolicyInv'
<1>1. ASSUME NEW e \in Experiments, NEW r, r \in {saved[e], rows[e]}, NEW s, Follows(a, e, r, s)
      PROVE  FollowsPolicy(s)
  <2>1. r \in Row /\ Gapless(r) /\ FollowsPolicy(r)
    BY <1>1, RowsAreSound DEF PolicyInv
  <2>2. CASE Kept(r, s)
    BY <2>1, <2>2 DEF Kept, FollowsPolicy
  <2>3. CASE MovedOn(a, e, r, s)
    BY <2>1, <2>3, MoveIsValid, MoveFollowsPolicy DEF MovedOn
  <2> QED
    BY <1>1, <2>2, <2>3 DEF Follows
<1>2. ASSUME NEW e \in Experiments PROVE FollowsPolicy(saved'[e]) /\ FollowsPolicy(rows'[e])
  <2>1. /\ Follows(a, e, saved[e], saved'[e]) \/ Follows(a, e, rows[e], saved'[e])
        /\ Follows(a, e, saved[e], rows'[e]) \/ Follows(a, e, rows[e], rows'[e])
    BY AgentStoreStep DEF StoreFollows
  <2> QED
    BY <1>1, <2>1
<1> QED
  BY <1>2 DEF PolicyInv, FollowsPolicy

LEMMA FollowingGrows ==
  ASSUME NEW a \in Agents, NEW e \in Experiments, NEW r, NEW s, Follows(a, e, r, s)
  PROVE  r.audit \subseteq s.audit
  BY DEF Follows, Kept, MovedOn

\* Trails only grow: the committed ones, and the ones a session sees as long
\* as it keeps its copies.
ViewsGrow(a) ==
    \A e \in Experiments :
        /\ saved[e].audit \subseteq saved'[e].audit
        /\ \A b \in Agents :
              \/ View(b)[e].audit \subseteq View(b)'[e].audit
              \/ b = a /\ seen'[a] = NoCopies

LEMMA AgentLockStep ==
  ASSUME FleetIInv, LockInv, NEW a \in Agents, AgentStep(a) PROVE LockInv' /\ ViewsGrow(a)
<1>0. None \notin Agents /\ FleetTypeOK
      /\ seen \in [Agents -> [Experiments -> CopyOf \cup {Expired}]]
  BY DEF FleetIInv, FleetTypeOK
<1>1. ASSUME NEW e \in Experiments
      PROVE  /\ saved[e].audit \subseteq View(a)[e].audit
             /\ saved[e].audit \subseteq rows[e].audit
  BY DEF LockInv, View
<1>2. CASE UNCHANGED storeVars
  BY <1>2 DEF storeVars, LockInv, ViewsGrow, View
<1>3. CASE Rollback(a)
  BY <1>0, <1>3 DEF Rollback, LockInv, ViewsGrow, View
<1>4. ASSUME NEW newRows, RowsFollow(a, newRows), Commit(a, newRows) \/ Writes(a, newRows)
      PROVE  LockInv' /\ ViewsGrow(a)
  <2>1. ASSUME NEW e \in Experiments
        PROVE  /\ View(a)[e].audit \subseteq newRows[e].audit
               /\ saved[e].audit \subseteq newRows[e].audit
    <3>1. View(a)[e].audit \subseteq newRows[e].audit
      BY <1>4, FollowingGrows DEF RowsFollow
    <3> QED
      BY <1>1, <3>1
  <2>2. CASE Commit(a, newRows)
    <3>1. saved' = newRows /\ rows' = newRows /\ writer' = None /\ writer \in {a, None}
      BY <2>2 DEF Commit, CanWrite
    <3>2. LockInv'
      BY <3>1 DEF LockInv
    <3>3. \A b \in Agents : View(b)' = newRows /\ (b = a \/ View(b) = saved)
      BY <1>0, <3>1 DEF View
    <3> QED
      BY <2>1, <3>1, <3>2, <3>3 DEF ViewsGrow
  <2>3. CASE Writes(a, newRows)
    <3>1. saved' = saved /\ rows' = newRows /\ writer' = a /\ writer \in {a, None}
      BY <2>3 DEF Writes, CanWrite
    <3>2. LockInv'
      BY <1>0, <2>1, <3>1 DEF LockInv
    <3>3. \A b \in Agents : IF b = a THEN View(b)' = newRows ELSE View(b)' = saved /\ View(b) = saved
      BY <1>0, <3>1 DEF View
    <3> QED
      BY <2>1, <3>1, <3>2, <3>3 DEF ViewsGrow
  <2> QED
    BY <1>4, <2>2, <2>3
<1>5. CASE Die(a)
  <2>1. ASSUME NEW e \in Experiments
        PROVE  /\ Orphaned(a, saved)[e].audit = saved[e].audit
               /\ Orphaned(a, rows)[e].audit = rows[e].audit
    BY <1>0, OrphanedFollows DEF FleetTypeOK, Kept
  <2>2. CASE writer = a
    <3>1. /\ saved' = Orphaned(a, saved) /\ rows' = saved' /\ writer' = None
          /\ seen' = [seen EXCEPT ![a] = NoCopies]
      BY <1>5, <2>2 DEF Die
    <3>2. seen'[a] = NoCopies
      BY <1>0, <3>1
    <3>3. \A b \in Agents \ {a} : View(b)' = saved' /\ View(b) = saved
      BY <1>0, <2>2, <3>1 DEF View
    <3> QED
      BY <2>1, <3>1, <3>2, <3>3 DEF LockInv, ViewsGrow
  <2>3. CASE writer # a
    <3>1. /\ saved' = Orphaned(a, saved) /\ rows' = Orphaned(a, rows) /\ writer' = writer
      BY <1>5, <2>3 DEF Die
    <3>2. LockInv'
      BY <1>1, <2>1, <3>1 DEF LockInv
    <3> QED
      BY <2>1, <3>1, <3>2 DEF ViewsGrow, View
  <2> QED
    BY <2>2, <2>3
<1> QED
  BY <1>2, <1>3, <1>4, <1>5, AgentMovesStore DEF StoreMoves

\* Where a copy comes from.
ReadsNow(a, e) ==
    /\ UNCHANGED storeVars
    /\ View(a)[e].state # "absent"
    /\ seen'[a][e] \in {PlainCopy(View(a)[e]), LeasedCopy(View(a)[e])}

MovesCopy(a, e) ==
    /\ e = Job(a) /\ Transits(a) /\ ValidTransition(Copy(a).state, Goal(a))
    /\ seen'[a][e] = MovedCopy(a)
    /\ (Moves(a) /\ Writes(a, MovedRows(a))) \/ MoveConflicts(a)

CopiesShow(a) ==
    \A e \in Experiments :
        seen'[a][e] \in {Expired, seen[a][e]} \/ ReadsNow(a, e) \/ MovesCopy(a, e)

LEMMA CopiesUnchanged ==
  ASSUME FleetIInv, NEW a \in Agents,
         seen' = seen \/ seen' = [seen EXCEPT ![a] = NoCopies] \/ seen' = CopiesAfter(a, seen[a])
  PROVE  CopiesShow(a)
<1>1. seen'[a] = seen[a] \/ seen'[a] = NoCopies
  BY CopiesAt DEF CopiesAfter
<1> QED
  BY <1>1 DEF CopiesShow, NoCopies

LEMMA OneCopyShows ==
  ASSUME FleetIInv, NEW a \in Agents, NEW e \in Experiments, NEW copy,
         seen' = [seen EXCEPT ![a][e] = copy],
         copy = Expired \/ ReadsNow(a, e) \/ MovesCopy(a, e)
  PROVE  CopiesShow(a)
<1>1. seen'[a][e] = copy /\ \A f \in Experiments \ {e} : seen'[a][f] = seen[a][f]
  BY CopiesAt
<1> QED
  BY <1>1 DEF CopiesShow

LEMMA TickCopiesShow ==
  ASSUME FleetIInv, NEW a \in Agents, TickStep(a) PROVE CopiesShow(a)
<1>0. seen \in [Agents -> [Experiments -> CopyOf \cup {Expired}]]
  BY CopiesAt
<1>1. CASE BeginReconcile(a)
  <2>1. UNCHANGED storeVars
    BY <1>1 DEF BeginReconcile
  <2>2. ASSUME NEW e \in Experiments PROVE seen'[a][e] = Expired \/ ReadsNow(a, e)
    <3>1. seen'[a][e] = IF View(a)[e].state \in Unfinished THEN PlainCopy(View(a)[e]) ELSE Expired
      BY <1>0, <1>1 DEF BeginReconcile
    <3> QED
      BY <2>1, <3>1 DEF ReadsNow, Unfinished, ExperimentState
  <2> QED
    BY <2>2 DEF CopiesShow
<1>2. ASSUME NEW e \in Experiments, ReconcileNext(a, e) PROVE CopiesShow(a)
  <2>1. e \in Present /\ UNCHANGED storeVars
    BY <1>2, ProcessAt DEF ReconcileNext, ProcessOK
  <2>2. View(a)[e].state # "absent"
    BY <2>1, PresentRows
  <2> DEFINE row == IF seen[a][e] = Expired THEN PlainCopy(View(a)[e]) ELSE seen[a][e]
  <2>3. seen' = [seen EXCEPT ![a][e] = row]
    BY <1>2 DEF ReconcileNext
  <2>4. \A f \in Experiments : seen'[a][f] = IF f = e THEN row ELSE seen[a][f]
    BY <1>0, <2>3
  <2> QED
    BY <2>1, <2>2, <2>4 DEF CopiesShow, ReadsNow
<1>3. ASSUME NEW e \in Experiments, SelectCandidate(a, e) PROVE CopiesShow(a)
  <2>1. /\ seen' = [seen EXCEPT ![a][e] = LeasedCopy(View(a)[e])] /\ UNCHANGED storeVars
        /\ View(a)[e].state # "absent"
    BY <1>3 DEF SelectCandidate, Candidates, ClaimableStates
  <2>2. ReadsNow(a, e)
    BY <1>0, <2>1 DEF ReadsNow
  <2> QED
    BY <2>1, <2>2, OneCopyShows
<1>4. CASE StaleClaimRaises(a)
  <2>1. Job(a) \in Experiments /\ seen' = [seen EXCEPT ![a][Job(a)] = Expired]
    BY <1>4, AtWork DEF StaleClaimRaises, Flush, At, JoblessLabels
  <2> QED
    BY <2>1, OneCopyShows
<1>5. CASE \/ Interrupt(a) \/ BeginControls(a) \/ ApplyCancel(a) \/ CompleteRequest(a)
           \/ ControlsDone(a) \/ NoCandidate(a) \/ ClaimWon(a) \/ ClaimLost(a) \/ Release(a)
           \/ \E e \in Experiments : TakeRequest(a, e)
  <2>1. seen' = seen \/ seen' = [seen EXCEPT ![a] = NoCopies]
    BY <1>5 DEF Interrupt, BeginControls, ApplyCancel, CompleteRequest, ControlsDone,
                NoCandidate, ClaimWon, ClaimLost, Release, TakeRequest, Commit, Rollback
  <2> QED
    BY <2>1, CopiesUnchanged
<1> QED
  BY <1>1, <1>2, <1>3, <1>4, <1>5 DEF TickStep

LEMMA AgentCopiesShow ==
  ASSUME FleetIInv, NEW a \in Agents, AgentStep(a) PROVE CopiesShow(a)
<1>0. seen \in [Agents -> [Experiments -> CopyOf \cup {Expired}]]
  BY CopiesAt
<1>1. CASE Prepare(a) \/ CleanupSucceeded(a)
  <2>1. /\ seen' = [seen EXCEPT ![a][Job(a)] = MovedCopy(a)] /\ Moves(a)
        /\ Writes(a, MovedRows(a)) /\ Transits(a)
    BY <1>1, MovesTransit DEF Prepare, CleanupSucceeded, Flush, Writes, At, MoveLabels
  <2>2. Job(a) \in Experiments
    BY <2>1, AtWork DEF Transits, MoveLabels, JoblessLabels
  <2>3. MovesCopy(a, Job(a))
    BY <1>0, <2>1, <2>2 DEF MovesCopy, Moves
  <2> QED
    BY <2>1, <2>2, <2>3, OneCopyShows
<1>2. CASE CoordinatorStep(a) /\ ~(Prepare(a) \/ CleanupSucceeded(a))
  <2>1. seen' = seen \/ seen' = [seen EXCEPT ![a] = NoCopies]
    BY <1>2 DEF CoordinatorStep, Dispatch, Checks, Refuse, StartInjecting, Inject,
         SaveContext, VerifyActive, Activate, InterruptedInjection, InjectionOvertaken,
         Expire, ObserveDuring, EnterCleanup, BeginCleanup, MarkCancelled, Restore,
         RecordAttempt, CleanupFailed, Verify, Verdict, MoveTo, MoveAndReturn, Commit,
         Rollback
  <2> QED
    BY <2>1, CopiesUnchanged
<1>3. CASE Load(a)
  <2>1. Job(a) \in Present /\ UNCHANGED storeVars
    BY <1>3, AtWork DEF Load, LoadLabels, JoblessLabels
  <2>2. seen' = [seen EXCEPT ![a][Job(a)] = PlainCopy(View(a)[Job(a)])]
    BY <1>3 DEF Load
  <2>3. ReadsNow(a, Job(a)) /\ Job(a) \in Experiments
    BY <1>0, <2>1, <2>2, PresentRows DEF ReadsNow
  <2> QED
    BY <2>2, <2>3, OneCopyShows
<1>4. CASE MoveConflicts(a)
  <2>1. Job(a) \in Experiments
    BY <1>4, AtWork DEF MoveConflicts, Transits, MoveLabels, JoblessLabels
  <2>2. \/ seen' = [seen EXCEPT ![a] = NoCopies]
        \/ seen' = [seen EXCEPT ![a] = [seen[a] EXCEPT ![Job(a)] = MovedCopy(a)]]
    BY <1>4 DEF MoveConflicts, CopiesAfter
  <2>3. seen' = [seen EXCEPT ![a] = [seen[a] EXCEPT ![Job(a)] = MovedCopy(a)]] =>
          /\ seen'[a][Job(a)] = MovedCopy(a)
          /\ \A f \in Experiments \ {Job(a)} : seen'[a][f] = seen[a][f]
    BY <1>0, <2>1
  <2>4. ValidTransition(Copy(a).state, Goal(a)) /\ Transits(a)
    BY <1>4 DEF MoveConflicts
  <2> QED
    BY <1>4, <2>2, <2>3, <2>4, CopiesUnchanged DEF CopiesShow, MovesCopy
<1>5. CASE MoveRefused(a) \/ LockedOut(a) \/ Die(a) \/ Boot(a)
  <2>1. seen' = seen \/ seen' = [seen EXCEPT ![a] = NoCopies] \/ seen' = CopiesAfter(a, seen[a])
    BY <1>5 DEF MoveRefused, LockedOut, Die, Boot
  <2> QED
    BY <2>1, CopiesUnchanged
<1> QED
  BY <1>1, <1>2, <1>3, <1>4, <1>5, TickCopiesShow DEF AgentStep

LEMMA MovedCopyFields ==
  ASSUME FleetIInv, NEW a \in Agents, Job(a) \in Experiments, Loaded(a),
         ValidTransition(Copy(a).state, Goal(a))
  PROVE  /\ MovedCopy(a).state = Goal(a) /\ MovedCopy(a).revision = Copy(a).revision + 1
         /\ MovedCopy(a).context = Copy(a).context
  BY CopyRevision DEF MovedCopy, Copy, Loaded, CopyOf

\* A process that goes on with a phantom copy soon returns.
LEMMA PhantomStep ==
  ASSUME FleetIInv, NEW a \in Agents, NEW e \in Experiments, AgentStep(a), Phantom(a, e),
         seen[a][e] # Expired
  PROVE  \/ seen'[a] = NoCopies
         \/ agent'[a].pc = "release"
         \/ /\ agent'[a].pc \in {"injection_failed", "run", "expire", "observe_during"}
            /\ agent'[a].claimed /\ agent'[a].job = agent[a].job
<1>0. /\ seen \in [Agents -> [Experiments -> CopyOf \cup {Expired}]]
      /\ agent \in [Agents -> Agent] /\ agent[a] \in Agent
  BY CopiesAt, ProcessAt
<1>1. Copy(a).state = "active" /\ agent[a].claimed /\ Loaded(a)
  <2>1. Copy(a).state = "active" /\ agent[a].claimed
    BY DEF Phantom, Copy
  <2>2. agent[a].pc \notin JoblessLabels
    BY DEF Phantom, JoblessLabels
  <2> QED
    BY <2>1, <2>2, <1>0 DEF Loaded, Phantom, Copy
<1>2. CASE Load(a)
  BY <1>1, <1>2 DEF Load
<1>3. CASE Die(a)
  BY <1>0, <1>3 DEF Die
<1>4. ASSUME At(a, "injection_failed"), ~Die(a), ~Load(a)
      PROVE  Goto(a, "run")
  <2>1. InjectionOvertaken(a) \/ ~CoordinatorStep(a)
    BY <1>1, <1>4 DEF CoordinatorStep, Dispatch, Prepare, Checks, Refuse, StartInjecting, Inject,
         SaveContext, VerifyActive, Activate, InterruptedInjection, InjectionOvertaken,
         Expire, ObserveDuring, EnterCleanup, BeginCleanup, MarkCancelled, Restore,
         RecordAttempt, CleanupSucceeded, CleanupFailed, Verify, Verdict, MoveTo,
         MoveAndReturn, Transits, At
  <2>2. ~TickStep(a)
    BY <1>4 DEF TickStep, BeginReconcile, Interrupt, BeginControls, ApplyCancel,
         CompleteRequest, ControlsDone, NoCandidate, ClaimWon, ClaimLost, StaleClaimRaises,
         Release, ReconcileNext, TakeRequest, SelectCandidate, At
  <2>3. ~(MoveRefused(a) \/ MoveConflicts(a) \/ LockedOut(a) \/ Boot(a))
    BY <1>1, <1>4 DEF MoveRefused, MoveConflicts, LockedOut, FlushLabels, Transits, Boot, At
  <2> QED
    BY <1>4, <2>1, <2>2, <2>3 DEF AgentStep, InjectionOvertaken
<1>5. ASSUME At(a, "run"), ~Die(a), ~Load(a)
      PROVE  Goto(a, "expire") \/ Goto(a, "observe_during")
  <2>1. Dispatch(a) \/ ~CoordinatorStep(a)
    BY <1>5 DEF CoordinatorStep, Prepare, Checks, Refuse, StartInjecting, Inject,
         SaveContext, VerifyActive, Activate, InterruptedInjection, InjectionOvertaken,
         Expire, ObserveDuring, EnterCleanup, BeginCleanup, MarkCancelled, Restore,
         RecordAttempt, CleanupSucceeded, CleanupFailed, Verify, Verdict, MoveTo,
         MoveAndReturn, At
  <2>2. ~TickStep(a)
    BY <1>5 DEF TickStep, BeginReconcile, Interrupt, BeginControls, ApplyCancel,
         CompleteRequest, ControlsDone, NoCandidate, ClaimWon, ClaimLost, StaleClaimRaises,
         Release, ReconcileNext, TakeRequest, SelectCandidate, At
  <2>3. ~(MoveRefused(a) \/ MoveConflicts(a) \/ LockedOut(a) \/ Boot(a))
    BY <1>5 DEF MoveRefused, MoveConflicts, LockedOut, FlushLabels, MoveLabels, Transits, Boot, At
  <2>4. Dispatch(a)
    BY <1>5, <2>1, <2>2, <2>3 DEF AgentStep
  <2> QED
    BY <1>1, <2>4 DEF Dispatch, Goto, CleanupEntries
<1>6. ASSUME At(a, "expire"), ~Die(a), ~Load(a)
      PROVE  seen'[a] = NoCopies \/ agent' = [agent EXCEPT ![a].pc = "release"]
  <2>1. Expire(a) \/ ~CoordinatorStep(a)
    BY <1>6 DEF CoordinatorStep, Dispatch, Prepare, Checks, Refuse, StartInjecting, Inject,
         SaveContext, VerifyActive, Activate, InterruptedInjection, InjectionOvertaken,
         ObserveDuring, EnterCleanup, BeginCleanup, MarkCancelled, Restore,
         RecordAttempt, CleanupSucceeded, CleanupFailed, Verify, Verdict, MoveTo,
         MoveAndReturn, At
  <2>2. ~TickStep(a)
    BY <1>6 DEF TickStep, BeginReconcile, Interrupt, BeginControls, ApplyCancel,
         CompleteRequest, ControlsDone, NoCandidate, ClaimWon, ClaimLost, StaleClaimRaises,
         Release, ReconcileNext, TakeRequest, SelectCandidate, At
  <2>3. CASE Expire(a)
    BY <1>0, <2>3 DEF Expire, MoveTo, Commit
  <2>4. CASE MoveRefused(a) \/ MoveConflicts(a) \/ LockedOut(a)
    <3>1. agent' = Raised(a)
      BY <1>6, <2>4 DEF MoveRefused, MoveConflicts, LockedOut, FlushLabels, At
    <3> QED
      BY <1>1, <1>6, <3>1 DEF Raised, At
  <2>5. ~Boot(a)
    BY <1>6 DEF Boot, At
  <2> QED
    BY <1>6, <2>1, <2>2, <2>3, <2>4, <2>5 DEF AgentStep
<1>7. ASSUME At(a, "observe_during"), ~Die(a), ~Load(a)
      PROVE  seen'[a] = NoCopies
  <2>1. ObserveDuring(a) \/ ~CoordinatorStep(a)
    BY <1>7 DEF CoordinatorStep, Dispatch, Prepare, Checks, Refuse, StartInjecting, Inject,
         SaveContext, VerifyActive, Activate, InterruptedInjection, InjectionOvertaken,
         Expire, EnterCleanup, BeginCleanup, MarkCancelled, Restore,
         RecordAttempt, CleanupSucceeded, CleanupFailed, Verify, Verdict, MoveTo,
         MoveAndReturn, At
  <2>2. ~TickStep(a)
    BY <1>7 DEF TickStep, BeginReconcile, Interrupt, BeginControls, ApplyCancel,
         CompleteRequest, ControlsDone, NoCandidate, ClaimWon, ClaimLost, StaleClaimRaises,
         Release, ReconcileNext, TakeRequest, SelectCandidate, At
  <2>3. ~(MoveRefused(a) \/ MoveConflicts(a) \/ Boot(a))
    BY <1>7 DEF MoveRefused, MoveConflicts, Transits, MoveLabels, Boot, At
  <2>4. ObserveDuring(a) \/ LockedOut(a)
    BY <1>7, <2>1, <2>2, <2>3 DEF AgentStep
  <2> QED
    BY <1>0, <1>7, <2>4 DEF ObserveDuring, Commit, LockedOut, FlushLabels, At
<1>8. \A label \in Labels : agent' = [agent EXCEPT ![a].pc = label] =>
         agent'[a].pc = label /\ agent'[a].job = agent[a].job /\ agent'[a].claimed
  BY <1>0, <1>1 DEF Agent
<1>9. {"run", "expire", "observe_during", "release"} \subseteq Labels
  BY DEF Labels
<1> QED
  BY <1>2, <1>3, <1>4, <1>5, <1>6, <1>7, <1>8, <1>9 DEF Phantom, At, Goto

LEMMA CopyFields ==
  ASSUME NEW r \in Row
  PROVE  /\ PlainCopy(r).state = r.state /\ PlainCopy(r).revision = r.revision
         /\ PlainCopy(r).context = r.context
         /\ LeasedCopy(r).state = r.state /\ LeasedCopy(r).revision = r.revision
         /\ LeasedCopy(r).context = r.context
  BY DEF PlainCopy, LeasedCopy

LEMMA AgentCopyStep ==
  ASSUME FleetIInv, SoundInv, LockInv, CopyInv, ClaimInv, NEW a \in Agents, AgentStep(a)
  PROVE  CopyInv'
<1>0. /\ seen \in [Agents -> [Experiments -> CopyOf \cup {Expired}]]
      /\ agent \in [Agents -> Agent]
  BY CopiesAt, ProcessAt
<1>1. ViewsGrow(a)
  BY AgentLockStep
<1>2. ASSUME NEW b \in Agents \ {a}, NEW e \in Experiments,
             seen'[b][e] # Expired, agent'[b].pc # "release"
      PROVE  Shows(seen'[b][e], View(b)'[e]) \/ Phantom(b, e)'
  <2>1. seen'[b] = seen[b] /\ agent'[b] = agent[b]
    BY <1>0, AgentCopiesStep, AgentProcessStep DEF CopiesFollow, ProcessFollows
  <2>2. Shows(seen[b][e], View(b)[e]) \/ Phantom(b, e)
    BY <1>2, <2>1 DEF CopyInv, At
  <2>3. View(b)[e].audit \subseteq View(b)'[e].audit
    BY <1>1 DEF ViewsGrow
  <2> QED
    BY <2>1, <2>2, <2>3 DEF Shows, Phantom, Job
<1>3. ASSUME NEW e \in Experiments, seen'[a][e] # Expired, agent'[a].pc # "release"
      PROVE  Shows(seen'[a][e], View(a)'[e]) \/ Phantom(a, e)'
  <2>0. seen'[a] # NoCopies
    BY <1>3 DEF NoCopies
  <2>1. CASE seen'[a][e] = seen[a][e]
    <3>1. ~At(a, "release")
      BY <2>0, ReleaseEnds
    <3>2. Shows(seen[a][e], View(a)[e]) \/ Phantom(a, e)
      BY <1>3, <2>1, <3>1 DEF CopyInv
    <3>3. CASE Shows(seen[a][e], View(a)[e])
      BY <1>1, <2>0, <2>1, <3>3 DEF ViewsGrow, Shows
    <3>4. CASE Phantom(a, e)
      BY <1>3, <2>0, <2>1, <3>4, PhantomStep DEF Phantom, Job
    <3> QED
      BY <3>2, <3>3, <3>4
  <2>2. CASE ReadsNow(a, e)
    <3>1. View(a)' = View(a)
      BY <2>2 DEF ReadsNow, storeVars, View
    <3>2. /\ View(a)[e] \in Row /\ Gapless(View(a)[e]) /\ View(a)[e].state # "absent"
          /\ seen'[a][e].state = View(a)[e].state /\ seen'[a][e].revision = View(a)[e].revision
      BY <2>2, RowsAreSound, CopyFields DEF ReadsNow
    <3> QED
      BY <3>1, <3>2, LastEntry DEF Shows
  <2>3. CASE MovesCopy(a, e)
    <3>1. /\ Loaded(a) /\ e = Job(a) /\ Copy(a) = seen[a][e] /\ ~At(a, "release")
          /\ agent[a].pc \notin JoblessLabels
      BY <2>3 DEF MovesCopy, Transits, Copy, MoveLabels, At, JoblessLabels
    <3>2. /\ seen'[a][e].state = Goal(a) /\ seen'[a][e].revision = Copy(a).revision + 1
          /\ Copy(a).revision \in Nat
      BY <2>3, <3>1, MovedCopyFields, CopyRevision DEF MovesCopy, Loaded
    <3>3. CASE Moves(a) /\ Writes(a, MovedRows(a))
      <4>1. View(a)' = MovedRows(a)
        BY <3>3 DEF Writes, View
      <4>2. MovedRows(a)[e] = Moved(View(a)[e], Copy(a).revision, Goal(a))
        BY <3>1, ViewTyped DEF MovedRows, Update, FleetIInv
      <4>3. View(a)[e] \in Row
        BY RowsAreSound
      <4>4. [sequence |-> Copy(a).revision + 2, to |-> Goal(a)] \in MovedRows(a)[e].audit
        BY <4>2, <4>3 DEF Moved, Row
      <4>5. Copy(a).revision + 2 = seen'[a][e].revision + 1
        BY <3>2
      <4> QED
        BY <3>2, <4>1, <4>4, <4>5 DEF Shows
    <3>4. CASE MoveConflicts(a)
      <4>1. agent' = Raised(a) /\ ValidTransition(Copy(a).state, Goal(a))
        BY <3>4 DEF MoveConflicts
      <4>2. CASE At(a, "activate")
        <5>1. agent[a].claimed /\ Goal(a) = "active"
          BY <4>2 DEF ClaimInv, Claims, ClaimedLabels, At, Goal
        <5>2. agent'[a].pc = "injection_failed" /\ agent'[a].claimed /\ agent'[a].job = Job(a)
          BY <1>0, <4>1, <4>2, <5>1 DEF Raised, Agent, Job
        <5>3. Copy(a).state = "injecting"
          <6>1. Copy(a) \in CopyOf /\ Copy(a).state # "absent"
            BY <1>0, <3>1, CopiesAt DEF Loaded, CopiesOK
          <6>2. Copy(a).state \in ExperimentState
            BY <6>1 DEF CopyOf
          <6> QED
            BY <4>1, <5>1, <6>2 DEF ValidTransition, AllowedTransitions, ExperimentState
        <5>4. Shows(Copy(a), View(a)[e])
          BY <3>1, <4>2 DEF CopyInv, Phantom, At, Loaded
        <5>5. Timely([sequence |-> Copy(a).revision + 1, to |-> "injecting"])
          BY <5>3, <5>4, RowsAreSound DEF Shows, Sound
        <5>6. Copy(a).revision = 2
          BY <3>2, <5>5 DEF Timely
        <5> QED
          BY <3>1, <3>2, <5>1, <5>2, <5>6 DEF Phantom, Job
      <4>3. CASE ~At(a, "activate") /\ agent[a].claimed
        <5>1. agent'[a].pc = "release"
          BY <1>0, <3>1, <4>1, <4>3 DEF Raised
        <5> QED
          BY <1>3, <5>1
      <4>4. CASE ~At(a, "activate") /\ ~agent[a].claimed
        <5>1. agent' = TickOver(a)
          BY <4>1, <4>4 DEF Raised
        <5>2. seen'[a] = NoCopies
          BY <1>0, <3>4, <5>1, TickIsOver DEF MoveConflicts, CopiesAfter
        <5> QED
          BY <2>0, <5>2
      <4> QED
        BY <4>2, <4>3, <4>4
    <3> QED
      BY <2>3, <3>3, <3>4 DEF MovesCopy
  <2> QED
    BY <1>3, <2>1, <2>2, <2>3, AgentCopiesShow DEF CopiesShow
<1>4. ASSUME NEW b \in Agents, NEW e \in Experiments,
             seen'[b][e] # Expired, agent'[b].pc # "release"
      PROVE  Shows(seen'[b][e], View(b)'[e]) \/ Phantom(b, e)'
  BY <1>2, <1>3, <1>4
<1> QED
  BY <1>4 DEF CopyInv, At, Expired, Shows

-----------------------------------------------------------------------------
(* Where a process goes *)

RestLabels == {"down", "broken", "idle", "reconcile", "interrupt", "controls", "complete",
               "cancel", "claim", "release"}

\* The process goes on with what it has at hand.
SameWork(a) ==
    /\ agent'[a].job = agent[a].job /\ agent'[a].claimed = agent[a].claimed
    /\ agent'[a].owned = agent[a].owned /\ agent'[a].ok = agent[a].ok

CoordinatorGoes(a) ==
    LET to == agent'[a].pc IN
    \/ Dispatch(a) /\ Dispatches(a, to) /\ SameWork(a)
    \/ Prepare(a) /\ to = "checks" /\ SameWork(a)
    \/ Checks(a) /\ to \in {"start_injecting", "refuse"} /\ SameWork(a)
    \/ StartInjecting(a) /\ to = "inject" /\ SameWork(a)
    \/ Inject(a) /\ to \in {"save_context", "injection_failed"} /\ SameWork(a)
    \/ At(a, "save_context") /\ to = "verify_active" /\ SameWork(a)
    \/ At(a, "verify_active") /\ to \in {"activate", "injection_failed"} /\ SameWork(a)
    \/ At(a, "activate") /\ to = "injection_failed" /\ SameWork(a)
    \/ /\ Activate(a) \/ InterruptedInjection(a) \/ InjectionOvertaken(a) \/ Expire(a)
       /\ to = "run" /\ SameWork(a)
    \/ At(a, "enter_cleanup") /\ to = "cleanup"
    \/ /\ BeginCleanup(a) /\ to \in {"mark_cancelled", "restore"}
       /\ agent'[a].job = agent[a].job /\ agent'[a].owned = Copy(a).context
    \/ At(a, "mark_cancelled") /\ to = "restore" /\ SameWork(a)
    \/ Restore(a) /\ to = "record_attempt" /\ agent'[a].job = agent[a].job
    \/ At(a, "record_attempt") /\ to = "conclude" /\ SameWork(a)
    \/ At(a, "conclude") /\ to = "verify"
    \/ At(a, "verify") /\ to = "verdict"

Goes(a) ==
    LET to == agent'[a].pc IN
    \/ to \in RestLabels
    \/ Load(a) /\ agent'[a] = agent[a]
    \/ to = "claiming" /\ \E e \in Experiments : SelectCandidate(a, e) /\ agent'[a].job = e
    \/ to = "run" /\ Interrupt(a) /\ SameWork(a)
    \/ to = "run" /\ ClaimWon(a) /\ agent'[a].claimed /\ agent'[a].job = agent[a].job
    \/ /\ to = "run" /\ ~agent'[a].claimed
       /\ \E e \in Experiments : ReconcileNext(a, e) /\ agent'[a].job = e
                                 /\ seen'[a][e].state \in CleanupEntries \cup {"cleaning_up"}
    \/ CoordinatorGoes(a)

LEMMA GotoGoes ==
  ASSUME FleetIInv, NEW a \in Agents, NEW label \in Labels, Goto(a, label)
  PROVE  agent'[a].pc = label /\ SameWork(a)
  BY ProcessAt DEF Goto, Agent, SameWork

LEMMA ReturnedGoes ==
  ASSUME FleetIInv, NEW a \in Agents, agent' = Returned(a) PROVE agent'[a].pc \in RestLabels
  BY ProcessAt DEF Returned, Agent, RestLabels

LEMMA RaisedGoes ==
  ASSUME FleetIInv, NEW a \in Agents, agent' = Raised(a)
  PROVE  \/ agent'[a].pc \in RestLabels
         \/ At(a, "activate") /\ agent'[a].pc = "injection_failed" /\ SameWork(a)
<1>1. CASE At(a, "activate")
  <2>1. Goto(a, "injection_failed")
    BY <1>1 DEF Raised, Goto
  <2> QED
    BY <1>1, <2>1, GotoGoes DEF Labels
<1>2. CASE agent[a].claimed /\ ~At(a, "activate") /\ ~At(a, "release")
  <2>1. agent' = [agent EXCEPT ![a].pc = "release"]
    BY <1>2 DEF Raised
  <2> QED
    BY <2>1, ProcessAt DEF Agent, RestLabels
<1>3. CASE ~At(a, "activate") /\ (~agent[a].claimed \/ At(a, "release"))
  <2>1. agent' = TickOver(a)
    BY <1>3 DEF Raised
  <2> QED
    BY <2>1, TickIsOver DEF RestLabels
<1> QED
  BY <1>1, <1>2, <1>3

LEMMA TickGoes ==
  ASSUME FleetIInv, NEW a \in Agents, TickStep(a) PROVE Goes(a)
<1>0. /\ agent \in [Agents -> Agent] /\ agent[a] \in Agent /\ ProcessOK(agent[a])
      /\ seen \in [Agents -> [Experiments -> CopyOf \cup {Expired}]]
  BY ProcessAt, CopiesAt
<1>1. CASE BeginReconcile(a) \/ BeginControls(a) \/ CompleteRequest(a)
  BY <1>0, <1>1 DEF BeginReconcile, BeginControls, CompleteRequest, Goes, RestLabels, Agent
<1>2. ASSUME NEW e \in Experiments, ReconcileNext(a, e) PROVE Goes(a)
  <2> DEFINE row == IF seen[a][e] = Expired THEN PlainCopy(View(a)[e]) ELSE seen[a][e]
  <2>1. /\ At(a, "reconcile") /\ seen' = [seen EXCEPT ![a][e] = row]
        /\ \/ agent' = [agent EXCEPT ![a].pc = "interrupt", ![a].job = e]
           \/ agent' = [agent EXCEPT ![a].todo = @ \ {e}]
           \/ /\ row.state \in CleanupEntries \cup {"cleaning_up"}
              /\ agent' = [agent EXCEPT ![a].pc = "run", ![a].job = e]
    BY <1>2 DEF ReconcileNext
  <2>2. ~agent[a].claimed
    BY <1>0, <2>1 DEF ProcessOK, UnclaimedLabels, JoblessLabels, At
  <2>3. seen'[a][e] = row
    BY <1>0, <2>1
  <2> HIDE DEF row
  <2>4. CASE agent' = [agent EXCEPT ![a].pc = "interrupt", ![a].job = e]
    BY <1>0, <2>4 DEF Goes, RestLabels, Agent
  <2>5. CASE agent' = [agent EXCEPT ![a].todo = @ \ {e}]
    BY <1>0, <2>1, <2>5 DEF Goes, RestLabels, Agent, At
  <2>6. CASE /\ row.state \in CleanupEntries \cup {"cleaning_up"}
             /\ agent' = [agent EXCEPT ![a].pc = "run", ![a].job = e]
    <3>1. agent'[a].pc = "run" /\ ~agent'[a].claimed /\ agent'[a].job = e
      BY <1>0, <2>2, <2>6 DEF Agent
    <3> QED
      BY <1>2, <2>3, <2>6, <3>1 DEF Goes
  <2> QED
    BY <2>1, <2>4, <2>5, <2>6
<1>3. ASSUME NEW e \in Experiments, TakeRequest(a, e) \/ SelectCandidate(a, e) PROVE Goes(a)
  <2>1. CASE TakeRequest(a, e)
    BY <1>0, <2>1 DEF TakeRequest, Goes, RestLabels, Agent
  <2>2. CASE SelectCandidate(a, e)
    <3>1. agent'[a].pc = "claiming" /\ agent'[a].job = e
      BY <1>0, <2>2 DEF SelectCandidate, Agent
    <3> QED
      BY <2>2, <3>1 DEF Goes
  <2> QED
    BY <1>3, <2>1, <2>2
<1>4. CASE Interrupt(a)
  BY <1>4, GotoGoes DEF Interrupt, Goes, Labels
<1>5. CASE ApplyCancel(a) \/ ControlsDone(a)
  BY <1>5, GotoGoes DEF ApplyCancel, ControlsDone, Goes, Labels, RestLabels
<1>6. CASE ClaimWon(a)
  <2>1. agent'[a].pc = "run" /\ agent'[a].claimed /\ agent'[a].job = agent[a].job
    BY <1>0, <1>6 DEF ClaimWon, Agent
  <2> QED
    BY <1>6, <2>1 DEF Goes
<1>7. CASE NoCandidate(a) \/ ClaimLost(a) \/ StaleClaimRaises(a) \/ Release(a)
  BY <1>7, TickIsOver DEF NoCandidate, ClaimLost, StaleClaimRaises, Release, Goes, RestLabels
<1> QED
  BY <1>1, <1>2, <1>3, <1>4, <1>5, <1>6, <1>7 DEF TickStep

LEMMA CoordinatorStepGoes ==
  ASSUME FleetIInv, NEW a \in Agents, CoordinatorStep(a) PROVE Goes(a)
<1>0. agent \in [Agents -> Agent] /\ agent[a] \in Agent
  BY ProcessAt
<1>1. CASE Dispatch(a)
  <2>1. agent' = Returned(a) \/ \E label \in Labels : Goto(a, label) /\ Dispatches(a, label)
    BY <1>1, DispatchGoes DEF Dispatches, Labels
  <2> QED
    BY <1>1, <2>1, ReturnedGoes, GotoGoes DEF Goes, CoordinatorGoes
<1>2. CASE Prepare(a) \/ StartInjecting(a) \/ SaveContext(a) \/ VerifyActive(a)
  BY <1>2, GotoGoes DEF Prepare, StartInjecting, MoveTo, SaveContext, VerifyActive, Goes,
     CoordinatorGoes, Labels
<1>3. CASE Checks(a)
  BY <1>3, GotoGoes, RaisedGoes DEF Checks, Goes, CoordinatorGoes, Labels, At
<1>4. CASE Inject(a)
  BY <1>4, GotoGoes DEF Inject, Goes, CoordinatorGoes, Labels
<1>5. CASE Activate(a) \/ InterruptedInjection(a) \/ InjectionOvertaken(a) \/ Expire(a)
  BY <1>5, GotoGoes DEF Activate, InterruptedInjection, InjectionOvertaken, Expire, MoveTo,
     Goes, CoordinatorGoes, Labels
<1>6. CASE Refuse(a) \/ ObserveDuring(a) \/ CleanupFailed(a) \/ Verdict(a)
  BY <1>6, ReturnedGoes DEF Refuse, ObserveDuring, CleanupFailed, Verdict, MoveAndReturn, Goes
<1>7. CASE EnterCleanup(a)
  BY <1>0, <1>7 DEF EnterCleanup, Goes, CoordinatorGoes, Agent
<1>8. CASE BeginCleanup(a)
  <2> DEFINE marked == agent[a].cancelled \/ Copy(a).outcome = "cancelled_pending"
             label == IF marked THEN "mark_cancelled" ELSE "restore"
  <2>1. agent' = [agent EXCEPT ![a].pc = label, ![a].cancelled = marked,
                               ![a].owned = Copy(a).context]
    BY <1>8 DEF BeginCleanup
  <2>2. label \in {"mark_cancelled", "restore"}
    OBVIOUS
  <2> HIDE DEF marked, label
  <2>3. agent'[a].pc = label /\ agent'[a].job = agent[a].job /\ agent'[a].owned = Copy(a).context
    BY <1>0, <2>1 DEF Agent
  <2> QED
    BY <1>8, <2>2, <2>3 DEF Goes, CoordinatorGoes
<1>9. CASE MarkCancelled(a) \/ RecordAttempt(a) \/ CleanupSucceeded(a)
  BY <1>9, GotoGoes DEF MarkCancelled, RecordAttempt, CleanupSucceeded, Goes,
     CoordinatorGoes, Labels
<1>10. CASE Restore(a)
  <2>1. PICK success \in BOOLEAN : Restored(a, success)
    BY <1>10 DEF Restore
  <2>2. agent'[a].pc = "record_attempt" /\ agent'[a].job = agent[a].job
    BY <1>0, <2>1 DEF Restored, Agent
  <2> QED
    BY <1>10, <2>2 DEF Goes, CoordinatorGoes
<1>11. CASE Verify(a)
  BY <1>0, <1>11 DEF Verify, Goes, CoordinatorGoes, Agent
<1> QED
  BY <1>1, <1>2, <1>3, <1>4, <1>5, <1>6, <1>7, <1>8, <1>9, <1>10, <1>11 DEF CoordinatorStep

LEMMA AgentGoes ==
  ASSUME FleetIInv, NEW a \in Agents, AgentStep(a) PROVE Goes(a)
<1>1. CASE Load(a)
  BY <1>1 DEF Load, Goes
<1>2. CASE MoveRefused(a) \/ MoveConflicts(a) \/ LockedOut(a)
  <2>1. agent' = Raised(a) \/ agent' = [agent EXCEPT ![a] = Booted("broken")]
    BY <1>2 DEF MoveRefused, MoveConflicts, LockedOut
  <2>2. CASE agent' = [agent EXCEPT ![a] = Booted("broken")]
    BY <2>2, ProcessAt DEF Booted, Goes, RestLabels
  <2> QED
    BY <2>1, <2>2, RaisedGoes DEF Goes, CoordinatorGoes
<1>3. CASE Die(a) \/ Boot(a)
  BY <1>3, ProcessAt DEF Die, Boot, Booted, Goes, RestLabels
<1> QED
  BY <1>1, <1>2, <1>3, TickGoes, CoordinatorStepGoes DEF AgentStep

-----------------------------------------------------------------------------
(* Who injects, and when *)

LEMMA AgentViewsLater ==
  ASSUME FleetIInv, SoundInv, LockInv, CopyInv, NEW a \in Agents, AgentStep(a),
         NEW e \in Experiments
  PROVE  /\ Later(saved[e], saved'[e])
         /\ \A b \in Agents : Later(View(b)[e], View(b)'[e]) \/ (b = a /\ seen'[a] = NoCopies)
<1>1. FleetIInv' /\ SoundInv'
  BY AgentInvStep, AgentSoundStep
<1>2. /\ saved'[e] \in Row /\ Gapless(saved'[e]) /\ Sound(saved'[e])
      /\ rows'[e] \in Row /\ Gapless(rows'[e]) /\ Sound(rows'[e])
  BY <1>1 DEF FleetIInv, FleetTypeOK, TrailInv, SoundInv, Gapless, Sequences, Sound, Timely
<1>3. \A b \in Agents :
         View(b)'[e] \in Row /\ Gapless(View(b)'[e]) /\ Sound(View(b)'[e])
  BY <1>2 DEF View
<1>4. ViewsGrow(a)
  BY AgentLockStep
<1> QED
  BY <1>2, <1>3, <1>4, RowsAreSound, LongerIsLater DEF ViewsGrow

LEMMA StatesStep ==
  ASSUME FleetIInv, NEW a \in Agents, AgentStep(a), NEW e \in Experiments,
         NEW state \in {saved'[e].state, rows'[e].state}
  PROVE  state \in States(e) \/ (e = Job(a) /\ Transits(a) /\ Moves(a) /\ state = Goal(a))
<1>1. PICK s \in {saved'[e], rows'[e]} : state = s.state
  OBVIOUS
<1>2. \E r \in {saved[e], rows[e]} : Follows(a, e, r, s)
  BY <1>1, AgentStoreStep DEF StoreFollows
<1> QED
  BY <1>1, <1>2 DEF Follows, Kept, MovedOn, States

LEMMA InjectingMove ==
  ASSUME NEW a \in Agents, Transits(a), Goal(a) = "injecting"
  PROVE  At(a, "start_injecting")
  BY DEF Transits, MoveLabels, Goal, CancelTarget, FinalState, At

LEMMA OneInjects ==
  ASSUME FleetIInv, OwnedInv, ClaimInv, NEW a \in Agents, agent[a].pc \in ClaimedLabels,
         NEW b \in Agents, agent[b].claimed, Job(b) = Job(a)
  PROVE  b = a
  BY DEF OwnedInv, ClaimIsExclusive, ClaimInv, Claims

LEMMA MoveCommitted ==
  ASSUME FleetIInv, NEW a \in Agents, Job(a) \in Experiments, Commit(a, MovedRows(a))
  PROVE  /\ saved'[Job(a)].state = Goal(a) /\ rows'[Job(a)].state = Goal(a)
         /\ View(a)'[Job(a)].state = Goal(a) /\ seen'[a] = NoCopies
<1>1. View(a) \in [Experiments -> Row] /\ None \notin Agents
  BY ViewTyped DEF FleetIInv
<1>2. MovedRows(a)[Job(a)] = Moved(View(a)[Job(a)], Copy(a).revision, Goal(a))
  BY <1>1 DEF MovedRows, Update
<1>3. MovedRows(a)[Job(a)].state = Goal(a)
  BY <1>1, <1>2 DEF Moved, Row
<1> QED
  BY <1>1, <1>3, CopiesAt DEF Commit, View

LEMMA CopyIsShown ==
  ASSUME FleetIInv, SoundInv, CopyInv, NEW a \in Agents, NEW e \in Experiments,
         seen[a][e] # Expired, ~At(a, "release"), ~Phantom(a, e)
  PROVE  /\ seen[a][e].state \in PastStates => View(a)[e].state \in PastStates
         /\ seen[a][e].revision = View(a)[e].revision => seen[a][e].state = View(a)[e].state
<1>1. Shows(seen[a][e], View(a)[e]) /\ seen[a][e].revision \in Nat
  BY CopyRevision DEF CopyInv
<1> QED
  BY <1>1, RowsAreSound, PointInTrail DEF Shows

\* What the steps of a leave of the claims of the others.
LEMMA OthersClaims ==
  ASSUME FleetIInv, SoundInv, LockInv, CopyInv, ClaimInv,
         NEW a \in Agents, AgentStep(a), NEW b \in Agents \ {a}
  PROVE  Claims(b)'
<1>1. seen'[b] = seen[b] /\ agent'[b] = agent[b]
  BY CopiesAt, ProcessAt, AgentCopiesStep, AgentProcessStep DEF CopiesFollow, ProcessFollows
<1>2. Claims(b)
  BY DEF ClaimInv
<1>3. ASSUME At(b, "run"), View(b)[Job(b)].state \in PastStates
      PROVE  View(b)'[Job(b)].state \in PastStates
  <2>1. Job(b) \in Experiments
    BY <1>3, AtWork DEF At, JoblessLabels
  <2> QED
    BY <1>3, <2>1, AgentViewsLater DEF Later
<1>4. ASSUME At(b, "claiming"), Shows(Copy(b), View(b)[Job(b)])
      PROVE  Shows(Copy(b), View(b)'[Job(b)])
  <2>1. Job(b) \in Experiments
    BY <1>4, AtWork DEF At, JoblessLabels
  <2> QED
    BY <1>4, <2>1, AgentViewsLater DEF Later, Shows
<1> QED
  BY <1>1, <1>2, <1>3, <1>4 DEF Claims, At, Loaded, Copy, Job, Expired, Shows

LEMMA ClaimedGoOn ==
  ASSUME FleetIInv, ClaimInv, NEW a \in Agents, AgentStep(a), agent'[a].pc \in ClaimedLabels
  PROVE  agent'[a].claimed
<1>1. CASE Dispatch(a) /\ Dispatches(a, agent'[a].pc) /\ SameWork(a)
  <2>1. At(a, "run") /\ Loaded(a)
    BY <1>1 DEF Dispatch
  <2>2. CASE agent[a].claimed
    BY <1>1, <2>2 DEF SameWork
  <2>3. CASE ~agent[a].claimed
    <3>1. Copy(a).state \in PastStates
      BY <2>1, <2>3 DEF ClaimInv, Claims
    <3> QED
      BY <1>1, <3>1 DEF Dispatches, ClaimedLabels, PastStates
  <2> QED
    BY <2>2, <2>3
<1>2. CASE Load(a) /\ agent'[a] = agent[a]
  BY <1>2 DEF ClaimInv, Claims
<1>3. CASE CoordinatorGoes(a) /\ ~Dispatch(a)
  <2>1. agent[a].pc \in ClaimedLabels /\ SameWork(a)
    BY <1>3 DEF CoordinatorGoes, ClaimedLabels, At, Prepare, Checks, StartInjecting, MoveTo,
       Inject
  <2> QED
    BY <2>1 DEF ClaimInv, Claims, SameWork
<1>4. CASE CoordinatorGoes(a) /\ Dispatch(a)
  <2>1. At(a, "run")
    BY <1>4 DEF Dispatch
  <2>2. Dispatches(a, agent'[a].pc) /\ SameWork(a)
    BY <1>4, <2>1 DEF CoordinatorGoes, ClaimedLabels, At, StartInjecting, MoveTo, Inject,
       Prepare, Checks, BeginCleanup, Restore
  <2> QED
    BY <1>1, <1>4, <2>2
<1> QED
  BY <1>2, <1>3, <1>4, AgentGoes DEF Goes, RestLabels, ClaimedLabels

\* A process comes to run_once with a row that is not being injected, and
\* without a claim with one that is past it.
RunsWith(a) ==
    LET e == agent'[a].job IN
    /\ agent'[a].claimed /\ NoResume(a) =>
          IF seen'[a][e] # Expired THEN seen'[a][e].state # "injecting"
                                   ELSE "injecting" \notin {saved'[e].state, rows'[e].state}
    /\ ~agent'[a].claimed =>
          /\ View(a)'[e].state \in PastStates
          /\ seen'[a][e] # Expired => seen'[a][e].state \in PastStates

LEMMA MovedOnRuns ==
  ASSUME FleetIInv, NEW a \in Agents, Job(a) \in Experiments, Commit(a, MovedRows(a)),
         Goal(a) \in PastStates, agent'[a].job = Job(a)
  PROVE  RunsWith(a)
<1>1. /\ {saved'[Job(a)].state, rows'[Job(a)].state} = {Goal(a)}
      /\ View(a)'[Job(a)].state = Goal(a) /\ seen'[a][Job(a)] = Expired
  BY MoveCommitted DEF NoCopies
<1> QED
  BY <1>1 DEF RunsWith, PastStates, Job

LEMMA ArrivesToRun ==
  ASSUME FleetIInv, SoundInv, LockInv, CopyInv, ClaimInv,
         NEW a \in Agents, AgentStep(a), agent'[a].pc = "run"
  PROVE  RunsWith(a)
<1>0. /\ agent \in [Agents -> Agent] /\ agent[a] \in Agent
      /\ seen \in [Agents -> [Experiments -> CopyOf \cup {Expired}]]
  BY ProcessAt, CopiesAt
<1>1. CASE Load(a) /\ agent'[a] = agent[a]
  <2>1. At(a, "run") /\ UNCHANGED storeVars /\ ~Loaded(a) /\ Job(a) \in Experiments
    BY <1>1, AtWork DEF Load, At, JoblessLabels
  <2>2. /\ seen'[a][Job(a)] = PlainCopy(View(a)[Job(a)])
        /\ seen'[a][Job(a)].state = View(a)[Job(a)].state
    BY <1>0, <1>1, <2>1, RowsAreSound, CopyFields DEF Load
  <2>3. View(a)' = View(a) /\ View(a)[Job(a)].state \in States(Job(a))
        /\ {saved'[Job(a)].state, rows'[Job(a)].state} = States(Job(a))
    BY <2>1 DEF storeVars, View, States
  <2>4. Claims(a)
    BY DEF ClaimInv
  <2>5. seen'[a][Job(a)].state # "injecting" \/ ~agent[a].claimed \/ ~NoResume(a)
    BY <2>1, <2>2, <2>3 DEF NoResume
  <2>6. agent[a].claimed \/ View(a)[Job(a)].state \in PastStates
    BY <2>1, <2>4 DEF Claims
  <2>7. agent[a].claimed /\ NoResume(a) =>
           \/ seen'[a][Job(a)] # Expired
           \/ "injecting" \notin {saved'[Job(a)].state, rows'[Job(a)].state}
    BY <2>1, <2>3 DEF NoResume
  <2> QED
    BY <1>1, <2>2, <2>3, <2>5, <2>6, <2>7 DEF RunsWith, Job
<1>2. CASE Interrupt(a) /\ SameWork(a)
  <2>1. Job(a) \in Experiments /\ Goal(a) = "cleaning_up" /\ Commit(a, MovedRows(a))
    BY <1>2, AtWork DEF Interrupt, At, JoblessLabels, Goal
  <2> QED
    BY <1>2, <2>1, MovedOnRuns DEF SameWork, Job, PastStates, ExperimentState
<1>3. CASE ClaimWon(a) /\ agent'[a].claimed /\ agent'[a].job = agent[a].job
  <2>1. /\ At(a, "claiming") /\ Job(a) \in Experiments /\ Commit(a, Leased(a))
        /\ View(a)[Job(a)].revision = Copy(a).revision
    BY <1>3, AtWork DEF ClaimWon, At, JoblessLabels, StillFree
  <2>2. Shows(Copy(a), View(a)[Job(a)]) /\ Copy(a).state \in ClaimableStates
    BY <2>1 DEF ClaimInv, Claims
  <2>3. View(a)[Job(a)].state # "injecting"
    <3>1. Copy(a).revision \in Nat
      BY <2>1, RowsAreSound DEF Row
    <3> QED
      BY <2>1, <2>2, <3>1, RowsAreSound, PointInTrail DEF Shows, ClaimableStates
  <2>4. Leased(a)[Job(a)].state = View(a)[Job(a)].state
    BY <2>1, ViewTyped DEF Leased, Update, FleetIInv, Row
  <2>5. saved' = Leased(a) /\ rows' = Leased(a)
    BY <2>1 DEF Commit
  <2>6. seen'[a][Job(a)] = Expired
    BY <1>0, <2>1 DEF Commit, NoCopies
  <2> QED
    BY <1>3, <2>3, <2>4, <2>5, <2>6 DEF RunsWith, States, Job
<1>4. ASSUME NEW e \in Experiments, ReconcileNext(a, e), agent'[a].job = e, ~agent'[a].claimed,
             seen'[a][e].state \in CleanupEntries \cup {"cleaning_up"}
      PROVE  RunsWith(a)
  <2>1. View(a)' = View(a) /\ At(a, "reconcile")
    BY <1>4 DEF ReconcileNext, storeVars, View
  <2>2. seen'[a][e].state \in PastStates
    BY <1>4 DEF CleanupEntries, PastStates, ExperimentState
  <2>3. \/ seen'[a][e] = PlainCopy(View(a)[e])
        \/ seen'[a][e] = seen[a][e] /\ seen[a][e] # Expired
    BY <1>0, <1>4 DEF ReconcileNext
  <2>4. View(a)[e].state \in PastStates
    <3>1. CASE seen'[a][e] = PlainCopy(View(a)[e])
      BY <2>2, <3>1, RowsAreSound, CopyFields
    <3>2. CASE seen'[a][e] = seen[a][e] /\ seen[a][e] # Expired
      BY <2>1, <2>2, <3>2, CopyIsShown DEF At, Phantom
    <3> QED
      BY <2>3, <3>1, <3>2
  <2> QED
    BY <1>4, <2>1, <2>2, <2>4 DEF RunsWith
<1>5. CASE (Activate(a) \/ InterruptedInjection(a) \/ Expire(a)) /\ SameWork(a)
  <2>1. /\ Job(a) \in Experiments /\ Commit(a, MovedRows(a))
        /\ Goal(a) \in {"active", "cleaning_up", "expired"}
    BY <1>5, AtWork DEF Activate, InterruptedInjection, Expire, MoveTo, At, JoblessLabels, Goal
  <2> QED
    BY <1>5, <2>1, MovedOnRuns DEF SameWork, Job, PastStates, ExperimentState
<1>6. CASE InjectionOvertaken(a) /\ SameWork(a)
  <2>1. agent[a].claimed /\ Loaded(a) /\ Copy(a).state # "injecting" /\ seen' = seen
    BY <1>6 DEF InjectionOvertaken, ClaimInv, Claims, At, ClaimedLabels
  <2> QED
    BY <1>6, <2>1 DEF RunsWith, SameWork, Loaded, Copy, Job
<1>7. CASE CoordinatorGoes(a)
  <2>1. \/ Activate(a) \/ InterruptedInjection(a) \/ InjectionOvertaken(a) \/ Expire(a)
    BY <1>7 DEF CoordinatorGoes, Dispatches
  <2>2. SameWork(a)
    <3>1. agent[a].pc \in {"activate", "injection_failed", "expire"}
      BY <2>1 DEF Activate, InterruptedInjection, InjectionOvertaken, Expire, MoveTo, At
    <3> QED
      BY <1>7 DEF CoordinatorGoes
  <2> QED
    BY <2>1, <2>2, <1>5, <1>6
<1> QED
  BY <1>1, <1>2, <1>3, <1>4, <1>7, AgentGoes DEF Goes, RestLabels

LEMMA AgentClaimStep ==
  ASSUME FleetIInv, SoundInv, LockInv, CopyInv, ClaimInv, NEW a \in Agents, AgentStep(a)
  PROVE  ClaimInv'
<1>1. agent'[a].pc \in ClaimedLabels => agent'[a].claimed
  BY ClaimedGoOn
<1>2. ASSUME agent'[a].pc = "claiming"
      PROVE  LET copy == seen'[a][agent'[a].job] IN
             copy.state \in ClaimableStates /\ Shows(copy, View(a)'[agent'[a].job])
  <2>1. ~(Load(a) /\ agent'[a] = agent[a])
    BY <1>2 DEF Load, LoadLabels
  <2>2. ~CoordinatorGoes(a)
    BY <1>2 DEF CoordinatorGoes, Dispatches
  <2>3. PICK e \in Experiments : SelectCandidate(a, e) /\ agent'[a].job = e
    BY <1>2, <2>1, <2>2, AgentGoes DEF Goes, RestLabels
  <2>4. /\ seen'[a][e] = LeasedCopy(View(a)[e]) /\ View(a)[e].state \in ClaimableStates
        /\ View(a)' = View(a)
    BY <2>3, CopiesAt DEF SelectCandidate, Candidates, storeVars, View
  <2>5. seen'[a][e].state = View(a)[e].state /\ Shows(seen'[a][e], View(a)[e])
    BY <2>4, RowsAreSound, CopyFields, LastEntry DEF Shows, ClaimableStates
  <2> QED
    BY <2>3, <2>4, <2>5
<1>3. agent'[a].pc = "run" => RunsWith(a)
  BY ArrivesToRun
<1>4. Claims(a)'
  BY <1>1, <1>2, <1>3 DEF Claims, RunsWith, Shows, At, Loaded, Copy, Job, Expired
<1> QED
  BY <1>4, OthersClaims DEF ClaimInv

-----------------------------------------------------------------------------
(* What is written and not committed *)

FlushedLabels == {"checks", "refuse", "release", "verify"}

\* Elsewhere a process sees the transitions as they are committed.
LEMMA SeesCommitted ==
  ASSUME FlushInv, NEW a \in Agents, agent[a].pc \notin FlushedLabels, NEW e \in Experiments
  PROVE  Kept(saved[e], View(a)[e])
  BY DEF FlushInv, Flushed, FlushedLabels, At, View, Kept

\* How a step leaves the store: as it was, with nothing uncommitted, or with
\* what these four write.
LEMMA WritesLittle ==
  ASSUME FleetIInv, NEW a \in Agents, AgentStep(a)
  PROVE  \/ UNCHANGED storeVars \/ Rollback(a) \/ Die(a)
         \/ \E newRows : Commit(a, newRows)
         \/ Prepare(a) \/ CleanupSucceeded(a) \/ StaleClaimRaises(a) \/ MoveConflicts(a)
<1>1. CASE TickStep(a)
  BY <1>1 DEF TickStep, BeginReconcile, Interrupt, BeginControls, ApplyCancel,
     CompleteRequest, ControlsDone, NoCandidate, ClaimWon, ClaimLost, Release,
     ReconcileNext, TakeRequest, SelectCandidate
<1>2. CASE CoordinatorStep(a)
  BY <1>2 DEF CoordinatorStep, Dispatch, Checks, Refuse, StartInjecting, Inject,
     SaveContext, VerifyActive, Activate, InterruptedInjection, InjectionOvertaken, Expire,
     ObserveDuring, EnterCleanup, BeginCleanup, MarkCancelled, Restore, RecordAttempt,
     CleanupFailed, Verify, Verdict, MoveTo, MoveAndReturn
<1>3. CASE Load(a) \/ MoveRefused(a) \/ LockedOut(a) \/ Boot(a)
  BY <1>3 DEF Load, MoveRefused, LockedOut, Boot
<1> QED
  BY <1>1, <1>2, <1>3 DEF AgentStep

\* Who has written a transition commits it or dies, if need be by way of the
\* release.
LEMMA FlushedGoesOn ==
  ASSUME FleetIInv, ClaimInv, NEW a \in Agents, AgentStep(a), NEW e \in Experiments, Flushed(a, e)
  PROVE  \/ Die(a) \/ \E newRows : Commit(a, newRows)
         \/ /\ agent[a].pc \in {"checks", "refuse"} /\ agent'[a].pc \in {"refuse", "release"}
            /\ agent'[a].job = agent[a].job /\ UNCHANGED storeVars
<1>0. /\ agent \in [Agents -> Agent] /\ agent[a] \in Agent /\ writer = a /\ CanWrite(a)
      /\ agent[a].pc \in FlushedLabels /\ {"refuse", "release"} \subseteq Labels
  BY ProcessAt DEF Flushed, CanWrite, FlushedLabels, At, Labels
<1>1. ~Load(a) /\ ~LockedOut(a) /\ ~Boot(a)
  BY <1>0 DEF Load, LoadLabels, LockedOut, Boot, FlushedLabels, At
<1>2. CASE TickStep(a)
  BY <1>0, <1>2 DEF FlushedLabels, TickStep, BeginReconcile, Interrupt, BeginControls,
     ApplyCancel, CompleteRequest, ControlsDone, NoCandidate, ClaimWon, ClaimLost,
     StaleClaimRaises, Release, ReconcileNext, TakeRequest, SelectCandidate, At
<1>3. CASE At(a, "checks") /\ CoordinatorStep(a)
  <2>1. Checks(a) /\ agent[a].claimed
    BY <1>3 DEF CoordinatorStep, Dispatch, Prepare, Refuse, StartInjecting, Inject,
       SaveContext, VerifyActive, Activate, InterruptedInjection, InjectionOvertaken, Expire,
       ObserveDuring, EnterCleanup, BeginCleanup, MarkCancelled, Restore, RecordAttempt,
       CleanupSucceeded, CleanupFailed, Verify, Verdict, MoveTo, MoveAndReturn, At,
       ClaimInv, Claims, ClaimedLabels
  <2>2. CASE Goto(a, "refuse") /\ UNCHANGED storeVars
    BY <1>0, <1>3, <2>2, GotoGoes DEF At, SameWork
  <2>3. CASE agent' = Raised(a) /\ UNCHANGED storeVars
    <3>1. agent' = [agent EXCEPT ![a].pc = "release"]
      BY <1>3, <2>1, <2>3 DEF Raised, At
    <3> QED
      BY <1>0, <1>3, <2>3, <3>1 DEF At, Agent
  <2> QED
    BY <2>1, <2>2, <2>3 DEF Checks
<1>4. CASE CoordinatorStep(a) /\ At(a, "refuse")
  BY <1>4 DEF CoordinatorStep, Dispatch, Prepare, Checks, Refuse, StartInjecting, Inject,
     SaveContext, VerifyActive, Activate, InterruptedInjection, InjectionOvertaken, Expire,
     ObserveDuring, EnterCleanup, BeginCleanup, MarkCancelled, Restore, RecordAttempt,
     CleanupSucceeded, CleanupFailed, Verify, Verdict, MoveTo, MoveAndReturn, At
<1>5. CASE CoordinatorStep(a) /\ agent[a].pc \in {"release", "verify"}
  BY <1>5 DEF CoordinatorStep, Dispatch, Prepare, Checks, Refuse, StartInjecting, Inject,
     SaveContext, VerifyActive, Activate, InterruptedInjection, InjectionOvertaken, Expire,
     ObserveDuring, EnterCleanup, BeginCleanup, MarkCancelled, Restore, RecordAttempt,
     CleanupSucceeded, CleanupFailed, Verify, Verdict, MoveTo, MoveAndReturn, At
<1>6. CASE MoveRefused(a) \/ MoveConflicts(a)
  <2>1. At(a, "refuse") /\ agent' = Raised(a)
    BY <1>0, <1>6 DEF MoveRefused, MoveConflicts, Transits, MoveLabels, FlushedLabels, At
  <2>2. agent' = [agent EXCEPT ![a].pc = "release"]
    BY <2>1 DEF Raised, At, ClaimInv, Claims, ClaimedLabels
  <2>3. UNCHANGED storeVars
    BY <1>0, <1>6 DEF MoveRefused, MoveConflicts, View, storeVars
  <2> QED
    BY <1>0, <2>1, <2>2, <2>3 DEF At, Agent
<1> QED
  BY <1>0, <1>1, <1>2, <1>3, <1>4, <1>5, <1>6 DEF AgentStep, FlushedLabels, At

\* A transition is written at these two labels, by who has written nothing yet.
LEMMA WritesOne ==
  ASSUME FleetIInv, SoundInv, CopyInv, FlushInv, NEW a \in Agents,
         Prepare(a) \/ CleanupSucceeded(a), NEW e \in Experiments
  PROVE  Kept(saved'[e], rows'[e]) \/ Flushed(a, e)'
<1>0. agent[a].pc \notin FlushedLabels \cup JoblessLabels /\ agent[a].pc \in {"prepare", "conclude"}
  BY DEF Prepare, CleanupSucceeded, At, FlushedLabels, JoblessLabels
<1>1. /\ Transits(a) /\ Moves(a) /\ rows' = MovedRows(a) /\ writer' = a /\ saved' = saved
      /\ Job(a) \in Experiments
  BY <1>0, MovesTransit, AtWork DEF Prepare, CleanupSucceeded, Flush, At, MoveLabels
<1>2. Kept(saved[e], View(a)[e]) /\ View(a) \in [Experiments -> Row]
  BY <1>0, SeesCommitted, ViewTyped DEF FleetIInv
<1> DEFINE r == View(a)[Job(a)]
           s == Moved(r, Copy(a).revision, Goal(a))
<1>3. CASE e # Job(a)
  <2>1. rows'[e] = View(a)[e]
    BY <1>1, <1>2, <1>3 DEF MovedRows, Update
  <2> QED
    BY <1>1, <1>2, <2>1
<1>4. CASE e = Job(a)
  <2>1. rows'[e] = s
    BY <1>1, <1>2, <1>4 DEF MovedRows, Update
  <2>2. /\ s.state = Goal(a)
        /\ s.audit = r.audit \cup {[sequence |-> r.revision + 2, to |-> s.state]}
    BY <1>1, MovedFollows DEF MovedOn
  <2>3. ValidTransition(r.state, Goal(a)) /\ r.state \in ExperimentState
    <3>1. r \in Row /\ r.state # "absent"
      BY <1>1, MovedFollows DEF MovedOn
    <3> QED
      BY <1>0, <1>1, <3>1, MoveIsValid DEF At, Row
  <2>4. agent'[a].pc \in {"checks", "verify"} /\ agent'[a].job = Job(a)
        /\ (Prepare(a) => agent'[a].pc = "checks") /\ (CleanupSucceeded(a) => agent'[a].pc = "verify")
    BY GotoGoes DEF Prepare, CleanupSucceeded, Labels, SameWork, Job
  <2> HIDE DEF r, s
  <2>5. CASE Prepare(a)
    <3>1. Goal(a) = "preflight"
      BY <2>5 DEF Prepare, Goal, At
    <3>2. r.state = "planned"
      BY <2>3, <3>1 DEF ValidTransition, AllowedTransitions, ExperimentState
    <3> QED
      BY <1>1, <1>2, <1>4, <2>1, <2>2, <2>4, <2>5, <3>1, <3>2 DEF Flushed, Job, Kept, At, r
  <2>6. CASE CleanupSucceeded(a)
    <3>1. Goal(a) = "verifying"
      <4>1. agent[a].pc = "conclude" /\ agent[a].ok = TRUE
        BY <2>6, ProcessAt DEF CleanupSucceeded, At, Agent
      <4> QED
        BY <4>1 DEF Goal, At
    <3>2. r.state = "cleaning_up"
      BY <2>3, <3>1 DEF ValidTransition, AllowedTransitions, ExperimentState
    <3> QED
      BY <1>1, <1>2, <1>4, <2>1, <2>2, <2>4, <2>6, <3>1, <3>2 DEF Flushed, Job, Kept, At, r
  <2> QED
    BY <2>5, <2>6
<1> QED
  BY <1>3, <1>4

LEMMA AgentFlushStep ==
  ASSUME FleetIInv, SoundInv, LockInv, CopyInv, ClaimInv, FlushInv, NEW a \in Agents, AgentStep(a)
  PROVE  FlushInv'
<1> SUFFICES ASSUME NEW e \in Experiments
             PROVE  Kept(saved'[e], rows'[e]) \/ \E b \in Agents : Flushed(b, e)'
  BY DEF FlushInv, Kept
<1>0. /\ None \notin Agents /\ saved \in [Experiments -> Row] /\ rows \in [Experiments -> Row]
      /\ agent \in [Agents -> Agent]
  BY DEF FleetIInv, FleetTypeOK
<1>1. CASE \E newRows : Commit(a, newRows)
  BY <1>1 DEF Commit, Kept
<1>2. CASE Prepare(a) \/ CleanupSucceeded(a)
  BY <1>2, WritesOne
<1>3. CASE StaleClaimRaises(a)
  <2>1. agent[a].pc \notin FlushedLabels \cup JoblessLabels /\ At(a, "claiming")
    BY <1>3 DEF StaleClaimRaises, At, FlushedLabels, JoblessLabels
  <2>2. saved' = saved /\ rows' = Leased(a) /\ RowsFollow(a, Leased(a))
    BY <1>3, <2>1, LeaseFollows DEF StaleClaimRaises, Flush
  <2>3. Kept(View(a)[e], Leased(a)[e])
    BY <2>1, <2>2 DEF RowsFollow, Follows, MovedOn, Transits, MoveLabels, At
  <2> QED
    BY <2>1, <2>2, <2>3, SeesCommitted DEF Kept
<1>4. CASE MoveConflicts(a) /\ agent[a].pc \notin FlushedLabels
  BY <1>4, SeesCommitted DEF MoveConflicts
<1>5. ASSUME NEW b \in Agents, b # a, Flushed(b, e)
      PROVE  Kept(saved'[e], rows'[e]) \/ Flushed(b, e)'
  <2>1. agent'[b] = agent[b] /\ ~CanWrite(a)
    BY <1>0, <1>5, ProcessAt, AgentProcessStep DEF ProcessFollows, Flushed, CanWrite
  <2>2. CASE UNCHANGED storeVars \/ Rollback(a)
    BY <1>5, <2>1, <2>2 DEF storeVars, Rollback, Flushed, At, Job
  <2>3. CASE Die(a)
    <3>1. saved' = Orphaned(a, saved) /\ rows' = Orphaned(a, rows) /\ writer' = writer
      BY <1>5, <2>3 DEF Die, Flushed
    <3>2. Kept(saved[e], saved'[e]) /\ Kept(rows[e], rows'[e])
      BY <1>0, <3>1, OrphanedFollows
    <3> QED
      BY <1>5, <2>1, <3>1, <3>2 DEF Flushed, Kept, At, Job
  <2>4. /\ ~(MoveConflicts(a) \/ Prepare(a) \/ CleanupSucceeded(a) \/ StaleClaimRaises(a))
        /\ ~\E newRows : Commit(a, newRows)
    BY <2>1 DEF MoveConflicts, Prepare, CleanupSucceeded, StaleClaimRaises, Flush, Moves, Commit
  <2> QED
    BY <2>2, <2>3, <2>4, WritesLittle
<1>6. CASE Flushed(a, e)
  <2>1. CASE Die(a)
    <3>1. saved' = Orphaned(a, saved) /\ rows' = Orphaned(a, saved)
      BY <1>6, <2>1 DEF Die, Flushed
    <3> QED
      BY <3>1 DEF Kept
  <2>2. CASE /\ agent[a].pc \in {"checks", "refuse"} /\ agent'[a].pc \in {"refuse", "release"}
             /\ agent'[a].job = agent[a].job /\ UNCHANGED storeVars
    BY <1>6, <2>2 DEF Flushed, storeVars, At, Job
  <2> QED
    BY <1>1, <1>6, <2>1, <2>2, FlushedGoesOn
<1>7. CASE Kept(saved[e], rows[e])
  <2>1. CASE UNCHANGED storeVars \/ Rollback(a)
    BY <1>7, <2>1 DEF storeVars, Rollback, Kept
  <2>2. CASE Die(a)
    <3>1. saved' = Orphaned(a, saved) /\ rows' \in {Orphaned(a, saved), Orphaned(a, rows)}
      BY <2>2 DEF Die
    <3>2. /\ Kept(saved[e], Orphaned(a, saved)[e]) /\ Kept(rows[e], Orphaned(a, rows)[e])
      BY <1>0, OrphanedFollows
    <3> QED
      BY <1>7, <3>1, <3>2 DEF Kept
  <2>3. CASE MoveConflicts(a)
    BY <1>7, <2>3 DEF MoveConflicts, View, Kept
  <2> QED
    BY <1>1, <1>2, <1>3, <2>1, <2>2, <2>3, WritesLittle
<1> QED
  BY <1>5, <1>6, <1>7 DEF FlushInv

\* What a step commits: the transition at hand, where nothing else was
\* written; the refusal and the move to "preflight" before it; or what was
\* written earlier.
CommitsMove(a, e) ==
    /\ Transits(a) /\ Moves(a) /\ saved'[e].state = Goal(a)
    /\ saved'[e].audit = saved[e].audit \cup
                           {[sequence |-> saved[e].revision + 2, to |-> Goal(a)]}
    /\ Kept(saved[e], View(a)[e])

CommitsRefusal(a, e) ==
    /\ At(a, "refuse") /\ saved[e].state = "planned" /\ saved'[e].state = "failed"

CommitsFlushed(e) ==
    \/ saved[e].state = "planned" /\ saved'[e].state = "preflight"
    \/ saved[e].state = "cleaning_up" /\ saved'[e].state = "verifying"
       /\ rows[e].state = "verifying"

LEMMA AgentCommits ==
  ASSUME FleetIInv, FlushInv, NEW a \in Agents, AgentStep(a), NEW e \in Experiments
  PROVE  \/ Kept(saved[e], saved'[e])
         \/ e = Job(a) /\ (CommitsMove(a, e) \/ CommitsRefusal(a, e) \/ CommitsFlushed(e))
<1>0. None \notin Agents /\ saved \in [Experiments -> Row] /\ rows \in [Experiments -> Row]
  BY DEF FleetIInv, FleetTypeOK
<1>1. CASE UNCHANGED storeVars \/ Rollback(a)
  BY <1>1 DEF storeVars, Rollback, Kept
<1>2. CASE Die(a)
  BY <1>0, <1>2, OrphanedFollows DEF Die
<1>3. ASSUME NEW newRows, RowsFollow(a, newRows), Writes(a, newRows) PROVE Kept(saved[e], saved'[e])
  BY <1>3 DEF Writes, Kept
<1>4. ASSUME NEW newRows, RowsFollow(a, newRows), Commit(a, newRows), ~Kept(saved[e], saved'[e])
      PROVE  e = Job(a) /\ (CommitsMove(a, e) \/ CommitsRefusal(a, e) \/ CommitsFlushed(e))
  <2>1. saved'[e] = newRows[e] /\ (Kept(View(a)[e], newRows[e]) \/ MovedOn(a, e, View(a)[e], newRows[e]))
    BY <1>4 DEF Commit, RowsFollow, Follows
  <2>2. Kept(saved[e], View(a)[e]) \/ (Flushed(a, e) /\ View(a)[e] = rows[e])
    BY <1>0 DEF FlushInv, Flushed, View, Kept
  <2>3. CASE Kept(saved[e], View(a)[e])
    BY <1>4, <2>1, <2>3 DEF MovedOn, Kept, CommitsMove
  <2>4. CASE Flushed(a, e) /\ View(a)[e] = rows[e] /\ Kept(View(a)[e], newRows[e])
    BY <2>1, <2>4 DEF Flushed, Kept, CommitsFlushed
  <2>5. CASE Flushed(a, e) /\ MovedOn(a, e, View(a)[e], newRows[e])
    <3>1. At(a, "refuse")
      BY <2>5 DEF Flushed, MovedOn, Transits, MoveLabels, At
    <3>2. Goal(a) = "failed"
      BY <3>1 DEF Goal, At
    <3> QED
      BY <2>1, <2>5, <3>1, <3>2 DEF Flushed, MovedOn, CommitsRefusal, At
  <2> QED
    BY <2>1, <2>2, <2>3, <2>4, <2>5
<1> QED
  BY <1>1, <1>2, <1>3, <1>4, AgentMovesStore DEF StoreMoves

-----------------------------------------------------------------------------
(* What the stop leaves in the trails *)

LEMMA TargetStep ==
  ASSUME FleetIInv, NEW a \in Agents, AgentStep(a)
  PROVE  \/ UNCHANGED targetVars
         \/ /\ Inject(a) /\ Job(a) \in Experiments
            /\ stopCalls' = [stopCalls EXCEPT ![Job(a)] = IF @ = 0 THEN 1 ELSE 2]
            /\ outage' \in {outage, Job(a)} /\ UNCHANGED <<storeVars, seen>>
         \/ Restore(a) /\ stopCalls' = stopCalls /\ outage' \in {outage, None}
<1>1. CASE Inject(a)
  BY <1>1, AtWork DEF Inject, At, JoblessLabels
<1>2. CASE Restore(a)
  BY <1>2 DEF Restore
<1>3. CASE CompleteRequest(a) \/ Boot(a)
  BY <1>3 DEF CompleteRequest, Boot
<1> QED
  BY <1>1, <1>2, <1>3, RestStays

LEMMA StopCallsGrow ==
  ASSUME FleetIInv, NEW a \in Agents, AgentStep(a), NEW e \in Experiments
  PROVE  /\ stopCalls[e] # 0 => stopCalls'[e] # 0
         /\ stopCalls'[e] # stopCalls[e] => Inject(a) /\ e = Job(a)
  BY TargetStep DEF FleetIInv, FleetTypeOK, targetVars

\* What the lock's holder has written goes on from what is committed.
LEMMA RowsLater ==
  ASSUME FleetIInv, SoundInv, LockInv, NEW e \in Experiments
  PROVE  /\ Later(saved[e], rows[e])
         /\ \A a \in Agents : Later(saved[e], View(a)[e])
<1>1. Later(saved[e], rows[e]) /\ Later(saved[e], saved[e])
  BY RowsAreSound, LongerIsLater DEF LockInv
<1> QED
  BY <1>1 DEF View

LEMMA BegunRow ==
  ASSUME NEW r \in Row, Gapless(r), Sound(r)
  PROVE  Begun(r) => r.state \in BegunStates
<1> SUFFICES ASSUME NEW entry \in r.audit, entry.to = "injecting"
             PROVE  r.state \in BegunStates
  BY DEF Begun
<1>1. r.state # "absent"
  BY DEF Sound
<1>2. entry.sequence <= r.revision \/ entry.to = r.state
  BY <1>1, LastEntry
<1>3. entry.sequence <= r.revision => r.state \in PastStates
  BY DEF Sound, BegunStates
<1> QED
  BY <1>2, <1>3 DEF BegunStates

LEMMA UntouchedRow ==
  ASSUME NEW r \in Row, Gapless(r), Untouched(r)
  PROVE  r.state \notin EffectStates
<1>1. CASE r.state = "absent"
  BY <1>1 DEF EffectStates
<1>2. CASE r.state # "absent"
  BY <1>2, LastEntry DEF Untouched
<1> QED
  BY <1>1, <1>2

\* Until the stop, every row is untouched.
LEMMA UntouchedRows ==
  ASSUME FleetIInv, SoundInv, LockInv, EffectInv, NEW e \in Experiments, stopCalls[e] = 0
  PROVE  /\ Untouched(saved[e]) /\ Untouched(rows[e])
         /\ States(e) \cap EffectStates = {}
         /\ \A a \in Agents : Untouched(View(a)[e]) /\ View(a)[e].state \notin EffectStates
<1>1. Untouched(rows[e])
  BY DEF EffectInv
<1>2. Untouched(saved[e])
  <2>1. saved[e].audit \subseteq rows[e].audit
    BY DEF LockInv
  <2>2. saved[e].state \in TerminalStates => Kept(saved[e], rows[e])
    BY RowsLater DEF Later
  <2> QED
    BY <1>1, <2>1, <2>2 DEF Untouched, Begun, Kept, TerminalStates
<1>3. States(e) \cap EffectStates = {}
  BY <1>1, <1>2, RowsAreSound, UntouchedRow DEF States
<1> QED
  BY <1>1, <1>2, <1>3 DEF View, States

\* Whoever holds a copy of an effect comes after the stop.
LEMMA EffectCopies ==
  ASSUME FleetIInv, SoundInv, LockInv, CopyInv, KnowInv, EffectInv,
         NEW a \in Agents, NEW e \in Experiments, seen[a][e] # Expired, ~At(a, "release"),
         seen[a][e].state \in EffectStates
  PROVE  stopCalls[e] # 0
<1>1. CASE Phantom(a, e)
  BY <1>1 DEF KnowInv
<1>2. CASE Shows(seen[a][e], View(a)[e])
  <2> DEFINE entry == [sequence |-> seen[a][e].revision + 1, to |-> seen[a][e].state]
  <2>1. entry \in View(a)[e].audit /\ entry.to \in EffectStates
    BY <1>2 DEF Shows
  <2> HIDE DEF entry
  <2>2. ~Untouched(View(a)[e])
    BY <2>1 DEF Untouched
  <2> QED
    BY <2>2, UntouchedRows
<1> QED
  BY <1>1, <1>2 DEF CopyInv

\* A transition of an experiment that has not been stopped leaves its trail
\* untouched.
LEMMA MovedIsUntouched ==
  ASSUME FleetIInv, SoundInv, LockInv, CopyInv, KnowInv, EffectInv,
         NEW a \in Agents, NEW e \in Experiments, stopCalls[e] = 0,
         NEW r \in {saved[e], rows[e]}, NEW s, MovedOn(a, e, r, s)
  PROVE  Untouched(s)
<1>1. /\ e = Job(a) /\ Transits(a) /\ Moves(a) /\ r = View(a)[e] /\ s.state = Goal(a)
      /\ s.audit = r.audit \cup {[sequence |-> r.revision + 2, to |-> s.state]}
      /\ r.state # "absent"
  BY DEF MovedOn
<1>2. /\ Untouched(r) /\ r.state \notin EffectStates
      /\ r \in Row /\ Gapless(r) /\ Sound(r) /\ r.state \in ExperimentState
  BY <1>1, UntouchedRows, RowsAreSound DEF Row
<1>3. ValidTransition(r.state, Goal(a))
  BY <1>1, MoveIsValid DEF KnowInv, Moves, Loaded, Copy
<1>4. Goal(a) # "active"
  <2>1. Goal(a) = "active" => At(a, "activate")
    BY <1>1 DEF Transits, MoveLabels, Goal, CancelTarget, FinalState, At
  <2> QED
    BY <1>1, <2>1 DEF KnowInv, Knows, At
<1>5. Goal(a) # "verifying"
  <2>1. Goal(a) = "verifying" => At(a, "conclude") /\ agent[a].ok
    BY <1>1 DEF Goal, At, Transits, MoveLabels, CancelTarget, FinalState
  <2> QED
    BY <1>1, <2>1 DEF KnowInv, Knows, At
<1>6. s.state \notin EffectStates
  <2>1. CASE r.state \in {"planned", "preflight", "injecting"}
    BY <1>1, <1>3, <1>4, <2>1
       DEF ValidTransition, AllowedTransitions, ExperimentState, EffectStates
  <2>2. CASE r.state \in {"cleaning_up", "cleanup_failed"}
    BY <1>1, <1>3, <1>5, <2>2
       DEF ValidTransition, AllowedTransitions, ExperimentState, EffectStates
  <2>3. CASE r.state \in TerminalStates
    BY <1>3, <2>3 DEF ValidTransition, AllowedTransitions, ExperimentState, TerminalStates
  <2> QED
    BY <1>2, <2>1, <2>2, <2>3 DEF ExperimentState, EffectStates, TerminalStates
<1>7. s.state \in {"cancelled", "failed"} => ~Begun(s)
  <2>1. SUFFICES ASSUME s.state \in {"cancelled", "failed"} PROVE ~Begun(s)
    OBVIOUS
  <2>2. r.state \notin BegunStates
    <3>1. r.state \notin {"injecting", "cleaning_up", "cleanup_failed"} \cup TerminalStates
      BY <1>1, <1>3, <2>1
         DEF ValidTransition, AllowedTransitions, ExperimentState, TerminalStates
    <3> QED
      BY <1>2, <3>1 DEF BegunStates, PastStates, ExperimentState, EffectStates, TerminalStates
  <2>3. ~Begun(r)
    BY <1>2, <2>2, BegunRow
  <2> QED
    BY <1>1, <2>1, <2>3 DEF Begun
<1> QED
  BY <1>1, <1>2, <1>6, <1>7 DEF Untouched

LEMMA AgentEffectStep ==
  ASSUME FleetIInv, SoundInv, LockInv, CopyInv, ClaimInv, FlushInv, KnowInv, EffectInv,
         NEW a \in Agents, AgentStep(a)
  PROVE  EffectInv'
<1>0. ViewsGrow(a) /\ agent \in [Agents -> Agent]
  BY AgentLockStep, ProcessAt
<1>1. ASSUME NEW e \in Experiments, stopCalls'[e] = 0 PROVE Untouched(rows'[e])
  <2>1. stopCalls[e] = 0
    BY <1>1, StopCallsGrow
  <2>2. PICK r \in {saved[e], rows[e]} : Follows(a, e, r, rows'[e])
    BY AgentStoreStep DEF StoreFollows
  <2>3. Untouched(r)
    BY <2>1, UntouchedRows
  <2>4. CASE Kept(r, rows'[e])
    BY <2>3, <2>4 DEF Kept, Untouched, Begun
  <2>5. CASE MovedOn(a, e, r, rows'[e])
    BY <2>1, <2>5, MovedIsUntouched
  <2> QED
    BY <2>2, <2>4, <2>5 DEF Follows
<1>2. ASSUME NEW e \in Experiments, stopCalls'[e] # 0 PROVE Begun(saved'[e])
  <2>1. Begun(saved[e])
    <3>1. CASE stopCalls[e] = 0
      BY <1>2, <3>1, StopCallsGrow DEF Inject, EffectInv
    <3>2. CASE stopCalls[e] # 0
      BY <3>2 DEF EffectInv
    <3> QED
      BY <3>1, <3>2
  <2> QED
    BY <1>0, <2>1 DEF ViewsGrow, Begun
<1>3. ASSUME NEW b \in Agents, b # a, agent'[b].pc = "inject" PROVE Begun(saved'[agent'[b].job])
  <2>1. agent'[b] = agent[b]
    BY <1>3, ProcessAt, AgentProcessStep DEF ProcessFollows
  <2>2. Job(b) \in Experiments /\ Begun(saved[Job(b)])
    BY <1>3, <2>1, AtWork DEF At, JoblessLabels, EffectInv
  <2> QED
    BY <1>0, <2>1, <2>2 DEF ViewsGrow, Begun, Job
<1>4. ASSUME agent'[a].pc = "inject" PROVE Begun(saved'[agent'[a].job])
  <2>1. CASE Load(a) /\ agent'[a] = agent[a]
    BY <1>4, <2>1 DEF Load, storeVars, EffectInv, Begun, Job, At
  <2>2. CASE StartInjecting(a) /\ SameWork(a)
    <3>1. /\ Job(a) \in Experiments /\ Goal(a) = "injecting" /\ Commit(a, MovedRows(a))
          /\ Transits(a) /\ Moves(a)
      BY <2>2, AtWork DEF StartInjecting, MoveTo, At, JoblessLabels, Goal
    <3> DEFINE entry == [sequence |-> View(a)[Job(a)].revision + 2, to |-> "injecting"]
    <3>2. entry \in MovedRows(a)[Job(a)].audit
      <4>1. MovedRows(a)[Job(a)] = Moved(View(a)[Job(a)], Copy(a).revision, Goal(a))
        BY <3>1, ViewTyped DEF MovedRows, Update, FleetIInv
      <4> QED
        BY <3>1, <4>1, MovedFollows DEF MovedOn
    <3>3. saved'[Job(a)] = MovedRows(a)[Job(a)] /\ entry.to = "injecting"
      BY <3>1 DEF Commit
    <3> HIDE DEF entry
    <3> QED
      BY <2>2, <3>2, <3>3 DEF SameWork, Job, Begun
  <2>3. CASE CoordinatorGoes(a) /\ ~(StartInjecting(a) /\ SameWork(a))
    <3>1. Dispatch(a) /\ Copy(a).state = "injecting" /\ SameWork(a)
      BY <1>4, <2>3 DEF CoordinatorGoes, Dispatches
    <3>2. Job(a) \in Experiments /\ Loaded(a) /\ saved' = saved
          /\ agent[a].pc \notin FlushedLabels /\ ~At(a, "release")
      BY <3>1, AtWork
         DEF Dispatch, At, JoblessLabels, FlushedLabels, storeVars
    <3>3. Shows(Copy(a), View(a)[Job(a)])
      BY <3>1, <3>2 DEF CopyInv, Phantom, Copy, Loaded
    <3> DEFINE entry == [sequence |-> Copy(a).revision + 1, to |-> "injecting"]
    <3>4. entry \in saved[Job(a)].audit /\ entry.to = "injecting"
      BY <3>1, <3>2, <3>3, SeesCommitted DEF Shows, Kept
    <3> HIDE DEF entry
    <3> QED
      BY <3>1, <3>2, <3>4 DEF Begun, SameWork, Job
  <2> QED
    BY <1>4, <2>1, <2>2, <2>3, AgentGoes DEF Goes, RestLabels
<1>5. \A b \in Agents : agent'[b].pc = "inject" => Begun(saved'[agent'[b].job])
  BY <1>3, <1>4
<1> QED
  BY <1>1, <1>2, <1>5 DEF EffectInv, At, Job, Untouched, Begun

-----------------------------------------------------------------------------
(* Who knows of the stop *)

LEMMA ContextsStep ==
  ASSUME FleetIInv, KnowInv, NEW a \in Agents, AgentStep(a), NEW e \in Experiments
  PROVE  /\ saved'[e].context \/ rows'[e].context => stopCalls'[e] # 0
         /\ \A b \in Agents : seen'[b][e] # Expired /\ seen'[b][e].context => stopCalls'[e] # 0
<1>1. stopCalls[e] # 0 => stopCalls'[e] # 0
  BY StopCallsGrow
<1>2. ASSUME NEW s \in {saved'[e], rows'[e]}, s.context PROVE stopCalls[e] # 0
  <2>1. \E r \in {saved[e], rows[e]} : Follows(a, e, r, s)
    BY AgentStoreStep DEF StoreFollows
  <2> QED
    BY <1>2, <2>1 DEF Follows, Learns, KnowInv, Knows, At
<1>3. ASSUME NEW b \in Agents, seen'[b][e] # Expired, seen'[b][e].context
      PROVE  stopCalls[e] # 0
  <2>1. CASE b # a
    <3>1. seen'[b] = seen[b]
      BY <2>1, CopiesAt, AgentCopiesStep DEF CopiesFollow
    <3> QED
      BY <1>3, <3>1 DEF KnowInv
  <2>2. CASE b = a
    <3>1. CASE seen'[a][e] = seen[a][e]
      BY <1>3, <2>2, <3>1 DEF KnowInv
    <3>2. CASE ReadsNow(a, e)
      <4>1. View(a)[e] \in Row
        BY DEF View, FleetIInv, FleetTypeOK
      <4>2. View(a)[e].context
        BY <1>3, <2>2, <3>2, <4>1, CopyFields DEF ReadsNow
      <4> QED
        BY <4>2 DEF View, KnowInv
    <3>3. CASE MovesCopy(a, e)
      <4>1. Copy(a).context /\ Loaded(a) /\ e = Job(a)
        BY <1>3, <2>2, <3>3, MovedCopyFields DEF MovesCopy, Transits
      <4> QED
        BY <4>1 DEF Copy, Loaded, KnowInv
    <3> QED
      BY <1>3, <2>2, <3>1, <3>2, <3>3, AgentCopiesShow DEF CopiesShow
  <2> QED
    BY <2>1, <2>2
<1> QED
  BY <1>1, <1>2, <1>3

\* A process that ends up with a phantom has stopped, or learns of the stop
\* from what it reads.
LEMMA PhantomsKnow ==
  ASSUME FleetIInv, SoundInv, LockInv, CopyInv, KnowInv, EffectInv,
         NEW a \in Agents, AgentStep(a), NEW b \in Agents, NEW e \in Experiments,
         seen'[b][e] # Expired, Phantom(b, e)'
  PROVE  stopCalls'[e] # 0
<1>0. seen'[b][e].state = "active" /\ agent'[b].pc # "release" /\ "active" \in EffectStates
  BY DEF Phantom, EffectStates
<1>1. CASE b # a
  <2>1. seen'[b] = seen[b] /\ agent'[b] = agent[b]
    BY <1>1, CopiesAt, ProcessAt, AgentCopiesStep, AgentProcessStep
       DEF CopiesFollow, ProcessFollows
  <2>2. Phantom(b, e)
    BY <2>1 DEF Phantom, Job
  <2> QED
    BY <2>1, <2>2, StopCallsGrow DEF KnowInv
<1>2. CASE b = a
  <2>1. CASE seen'[a][e] = seen[a][e]
    <3>1. ~At(a, "release")
      BY <1>2, ReleaseEnds DEF NoCopies
    <3> QED
      BY <1>0, <1>2, <2>1, <3>1, EffectCopies, StopCallsGrow
  <2>2. CASE ReadsNow(a, e)
    <3>1. View(a)[e].state = "active"
      BY <1>0, <1>2, <2>2, RowsAreSound, CopyFields DEF ReadsNow
    <3> QED
      BY <1>0, <3>1, UntouchedRows, StopCallsGrow
  <2>3. CASE MovesCopy(a, e)
    <3>1. e = Job(a) /\ Transits(a) /\ Goal(a) = "active"
      BY <1>0, <1>2, <2>3, MovedCopyFields DEF MovesCopy, Transits
    <3>2. At(a, "activate")
      BY <3>1 DEF Transits, MoveLabels, Goal, CancelTarget, FinalState, At
    <3> QED
      BY <3>1, <3>2, StopCallsGrow DEF KnowInv, Knows, At
  <2> QED
    BY <1>2, <2>1, <2>2, <2>3, AgentCopiesShow DEF CopiesShow
<1> QED
  BY <1>1, <1>2

LEMMA OthersKnow ==
  ASSUME FleetIInv, KnowInv, NEW a \in Agents, AgentStep(a), NEW b \in Agents \ {a}
  PROVE  Knows(b)'
<1>1. agent'[b] = agent[b]
  BY ProcessAt, AgentProcessStep DEF ProcessFollows
<1>2. Knows(b)
  BY DEF KnowInv
<1>3. ASSUME agent[b].pc \notin JoblessLabels, stopCalls[Job(b)] # 0
      PROVE  stopCalls'[Job(b)] # 0
  BY <1>3, AtWork, StopCallsGrow
<1> QED
  BY <1>1, <1>2, <1>3 DEF Knows, Job, JoblessLabels

LEMMA RestoredIs ==
  ASSUME FleetIInv, NEW a \in Agents, NEW success \in BOOLEAN, Restored(a, success)
  PROVE  agent'[a].ok = success
  BY ProcessAt DEF Restored, Agent

LEMMA AgentKnowStep ==
  ASSUME FleetIInv, SoundInv, LockInv, CopyInv, KnowInv, EffectInv,
         NEW a \in Agents, AgentStep(a)
  PROVE  KnowInv'
<1>0. agent \in [Agents -> Agent] /\ agent[a] \in Agent /\ Knows(a)
  BY ProcessAt DEF KnowInv
<1> DEFINE to == agent'[a].pc
           e == agent'[a].job
<1>1. ASSUME Load(a) PROVE Knows(a)'
  BY <1>0, <1>1 DEF Load, targetVars, Knows, Job
<1>2. ASSUME to = "save_context", ~Load(a) PROVE stopCalls'[e] # 0
  <2>1. Inject(a) /\ SameWork(a)
    BY <1>2, AgentGoes DEF Goes, RestLabels, CoordinatorGoes, Dispatches
  <2>2. Job(a) \in Experiments
    BY <2>1, AtWork DEF Inject, At, JoblessLabels
  <2> QED
    BY <2>1, <2>2 DEF Inject, SameWork, Job, FleetIInv, FleetTypeOK
<1>3. ASSUME to \in {"verify_active", "activate"}, ~Load(a) PROVE stopCalls'[e] # 0
  <2>1. agent[a].pc \in {"save_context", "verify_active"} /\ SameWork(a)
    BY <1>3, AgentGoes DEF Goes, RestLabels, CoordinatorGoes, Dispatches, At
  <2>2. Job(a) \in Experiments
    BY <2>1, AtWork DEF JoblessLabels
  <2> QED
    BY <1>0, <2>1, <2>2, StopCallsGrow DEF Knows, SameWork, Job
<1>4. ASSUME to \in {"mark_cancelled", "restore"}, agent'[a].owned, ~Load(a)
      PROVE  stopCalls'[e] # 0
  <2>1. \/ BeginCleanup(a) /\ agent'[a].job = agent[a].job /\ agent'[a].owned = Copy(a).context
        \/ At(a, "mark_cancelled") /\ SameWork(a)
    BY <1>4, AgentGoes DEF Goes, RestLabels, CoordinatorGoes, Dispatches
  <2>2. Job(a) \in Experiments
    BY <2>1, AtWork DEF BeginCleanup, At, JoblessLabels
  <2>3. stopCalls[Job(a)] # 0
    BY <1>0, <1>4, <2>1, <2>2 DEF BeginCleanup, Loaded, Copy, KnowInv, Knows, SameWork, At
  <2> QED
    BY <2>1, <2>2, <2>3, StopCallsGrow DEF SameWork, Job
<1>5. ASSUME to = "record_attempt", agent'[a].ok, ~Load(a) PROVE stopCalls'[e] # 0
  <2>1. Restore(a) /\ agent'[a].job = agent[a].job
    BY <1>5, AgentGoes DEF Goes, RestLabels, CoordinatorGoes, Dispatches
  <2>2. Job(a) \in Experiments
    BY <2>1, AtWork DEF Restore, At, JoblessLabels
  <2>3. agent[a].owned
    BY <1>5, <2>1, RestoredIs DEF Restore
  <2> QED
    BY <1>0, <2>1, <2>2, <2>3, StopCallsGrow DEF Restore, Knows, At, Job
<1>6. ASSUME to = "conclude", agent'[a].ok, ~Load(a) PROVE stopCalls'[e] # 0
  <2>1. At(a, "record_attempt") /\ SameWork(a)
    BY <1>6, AgentGoes DEF Goes, RestLabels, CoordinatorGoes, Dispatches
  <2>2. Job(a) \in Experiments
    BY <2>1, AtWork DEF At, JoblessLabels
  <2> QED
    BY <1>0, <1>6, <2>1, <2>2, StopCallsGrow DEF Knows, SameWork, At, Job
<1>7. ~Load(a) => Knows(a)'
  BY <1>2, <1>3, <1>4, <1>5, <1>6 DEF Knows, Job
<1>8. \A b \in Agents : Knows(b)'
  BY <1>1, <1>7, OthersKnow
<1> QED
  BY <1>8, ContextsStep, PhantomsKnow DEF KnowInv, Expired

-----------------------------------------------------------------------------
(* What is refused *)

LEMMA AgentCheckStep ==
  ASSUME FleetIInv, CheckInv, NEW a \in Agents, AgentStep(a) PROVE CheckInv'
<1> SUFFICES ASSUME NEW b \in Agents, agent'[b].pc \in {"checks", "refuse"}
             PROVE  LET copy == seen'[b][agent'[b].job] IN
                    copy # Expired => copy.state = "preflight"
  BY DEF CheckInv, Loaded, Copy, Job, Expired
<1>1. CASE b # a
  <2>1. agent'[b] = agent[b] /\ seen'[b] = seen[b]
    BY <1>1, ProcessAt, CopiesAt, AgentProcessStep, AgentCopiesStep
       DEF ProcessFollows, CopiesFollow
  <2> QED
    BY <2>1 DEF CheckInv, Loaded, Copy, Job
<1>2. CASE b = a
  <2>1. ~(Load(a) /\ agent'[a] = agent[a])
    BY <1>2 DEF Load, LoadLabels
  <2>2. \/ Dispatch(a) /\ Dispatches(a, agent'[a].pc) /\ SameWork(a)
        \/ Prepare(a) /\ SameWork(a)
        \/ Checks(a) /\ agent'[a].pc = "refuse" /\ SameWork(a)
    BY <1>2, <2>1, AgentGoes DEF Goes, RestLabels, CoordinatorGoes, Dispatches
  <2>3. CASE Dispatch(a) /\ Dispatches(a, agent'[a].pc) /\ SameWork(a)
    BY <1>2, <2>3 DEF Dispatch, Dispatches, Loaded, Copy, SameWork, Job
  <2>4. CASE Prepare(a) /\ SameWork(a)
    <3>1. /\ Job(a) \in Experiments /\ Loaded(a) /\ Goal(a) = "preflight"
          /\ ValidTransition(Copy(a).state, Goal(a))
          /\ seen' = [seen EXCEPT ![a][Job(a)] = MovedCopy(a)]
      BY <2>4, AtWork DEF Prepare, At, JoblessLabels, Moves, Flush, Goal
    <3>2. seen'[a][Job(a)] = MovedCopy(a) /\ MovedCopy(a).state = "preflight"
      BY <3>1, CopiesAt, MovedCopyFields
    <3> QED
      BY <1>2, <2>4, <3>2 DEF SameWork, Job
  <2>5. CASE Checks(a) /\ agent'[a].pc = "refuse" /\ SameWork(a)
    <3>1. At(a, "checks") /\ seen' = seen
      BY <2>5, GotoGoes, RaisedGoes DEF Checks, Labels, RestLabels, At
    <3> QED
      BY <1>2, <2>5, <3>1 DEF CheckInv, Loaded, Copy, SameWork, Job, At
  <2> QED
    BY <2>2, <2>3, <2>4, <2>5
<1> QED
  BY <1>1, <1>2

-----------------------------------------------------------------------------
(* Who injects, and when *)

\* What may take a row to where an outage would be lost from sight.
LEMMA ClosedMove ==
  ASSUME FleetIInv, SoundInv, CopyInv, NEW a \in Agents, Transits(a), Moves(a),
         Goal(a) \in ClosedStates
  PROVE  \/ View(a)[Job(a)].state \notin BegunStates
         \/ View(a)[Job(a)].state = "verifying"
         \/ At(a, "conclude") /\ agent[a].ok
<1> DEFINE r == View(a)[Job(a)]
<1>1. ValidTransition(r.state, Goal(a))
  BY MoveIsValid DEF ClosedStates
<1> HIDE DEF r
<1>4. CASE Goal(a) = "verifying"
  BY <1>4 DEF Goal, At, Transits, MoveLabels, CancelTarget, FinalState
<1>5. CASE Goal(a) # "verifying" /\ r.state \in BegunStates
  <2>1. Goal(a) \in {"passed", "cancelled", "failed"}
    BY <1>5 DEF ClosedStates
  <2>2. CASE r.state \in {"injecting", "active", "expired", "cancellation_requested"}
    BY <1>1, <2>1, <2>2 DEF ValidTransition, AllowedTransitions, ExperimentState
  <2>3. CASE r.state \in {"cleaning_up", "cleanup_failed"}
    BY <1>1, <2>1, <2>3 DEF ValidTransition, AllowedTransitions, ExperimentState
  <2>4. CASE r.state \in {"passed", "cancelled", "failed", "operator_attention"}
    BY <1>1, <2>1, <2>4 DEF ValidTransition, AllowedTransitions, ExperimentState
  <2> QED
    BY <1>5, <2>2, <2>3, <2>4 DEF r, BegunStates, PastStates, ExperimentState
<1> QED
  BY <1>4, <1>5 DEF r

\* A row that may have an outage behind it is closed only by who has undone it.
LEMMA StaysOpen ==
  ASSUME FleetIInv, SoundInv, LockInv, CopyInv, NEW a \in Agents, AgentStep(a),
         NEW e \in Experiments, saved[e].state \in BegunStates,
         States(e) \cap ClosedStates = {},
         ~(At(a, "conclude") /\ agent[a].ok /\ Job(a) = e)
  PROVE  {saved'[e].state, rows'[e].state} \cap ClosedStates = {}
<1> SUFFICES ASSUME NEW state \in {saved'[e].state, rows'[e].state}, state \in ClosedStates
             PROVE  FALSE
  OBVIOUS
<1>1. e = Job(a) /\ Transits(a) /\ Moves(a) /\ Goal(a) \in ClosedStates
  BY StatesStep
<1>2. View(a)[e].state \in BegunStates \ ClosedStates
  <2>1. View(a)[e].state \in States(e)
    BY DEF States, View
  <2> QED
    BY <2>1, RowsLater DEF Later
<1> QED
  BY <1>1, <1>2, ClosedMove DEF ClosedStates

\* With an exclusive claim, nobody else takes the row of a claim back to where
\* the injection would be resumed, and nobody else stops for it.
LEMMA OthersStopLate ==
  ASSUME FleetIInv, OwnedInv, ClaimInv, StopInv, NEW a \in Agents, AgentStep(a),
         NEW b \in Agents \ {a}
  PROVE  NoResume(b)' /\ (agent'[b].pc = "inject" => stopCalls'[agent'[b].job] = 0)
<1>1. seen'[b] = seen[b] /\ agent'[b] = agent[b]
  BY CopiesAt, ProcessAt, AgentCopiesStep, AgentProcessStep DEF CopiesFollow, ProcessFollows
<1>2. NoResume(b) /\ (At(b, "inject") => stopCalls[Job(b)] = 0)
  BY DEF StopInv
<1>3. ASSUME At(b, "run"), agent[b].claimed, "injecting" \notin States(Job(b))
      PROVE  "injecting" \notin States(Job(b))'
  <2>1. Job(b) \in Experiments /\ Job(b)' = Job(b)
    BY <1>1, <1>3, ClaimedHasJob DEF Job
  <2>2. SUFFICES ASSUME "injecting" \in States(Job(b))' PROVE FALSE
    OBVIOUS
  <2>3. Job(b) = Job(a) /\ Transits(a) /\ Goal(a) = "injecting"
    BY <1>3, <2>1, <2>2, StatesStep DEF States
  <2>4. agent[a].pc \in ClaimedLabels
    BY <2>3, InjectingMove DEF At, ClaimedLabels
  <2> QED
    BY <1>3, <2>3, <2>4, OneInjects
<1>4. ASSUME At(b, "inject") PROVE stopCalls'[Job(b)] = 0
  <2>1. Job(b) \in Experiments /\ agent[b].claimed /\ stopCalls[Job(b)] = 0
    BY <1>2, <1>4, AtWork DEF At, JoblessLabels, ClaimInv, Claims, ClaimedLabels
  <2>2. ~(Inject(a) /\ Job(a) = Job(b))
    BY <2>1, OneInjects DEF Inject, At, ClaimedLabels
  <2> QED
    BY <2>1, <2>2, StopCallsGrow
<1> QED
  BY <1>1, <1>2, <1>3, <1>4 DEF NoResume, At, Loaded, Copy, Job, Expired

LEMMA AgentStopStep ==
  ASSUME FleetIInv, OwnedInv, FleetTrailInv, StopInv, NEW a \in Agents, AgentStep(a)
  PROVE  StopInv'
<1>0. /\ stopCalls \in [Experiments -> 0..2] /\ agent \in [Agents -> Agent]
      /\ SoundInv /\ LockInv /\ CopyInv /\ ClaimInv /\ EffectInv
  BY ProcessAt DEF FleetIInv, FleetTypeOK, FleetTrailInv, HistoryInv
<1>1. ASSUME NEW e \in Experiments PROVE stopCalls'[e] <= 1
  <2>1. stopCalls[e] \in 0..2 /\ stopCalls[e] <= 1
    BY <1>0 DEF StopInv, StopOnce
  <2>2. CASE stopCalls'[e] # stopCalls[e]
    <3>1. Inject(a) /\ e = Job(a) /\ stopCalls[e] = 0
      BY <2>2, StopCallsGrow DEF StopInv, Inject
    <3>2. stopCalls'[e] = 1
      BY <1>0, <3>1 DEF Inject
    <3> QED
      BY <3>2
  <2> QED
    BY <2>1, <2>2
<1>2. ASSUME agent'[a].pc = "inject" PROVE stopCalls'[agent'[a].job] = 0
  <2>1. CASE Load(a) /\ agent'[a] = agent[a]
    BY <1>2, <2>1 DEF Load, targetVars, StopInv, Job, At
  <2>2. CASE StartInjecting(a) /\ SameWork(a)
    <3>1. /\ Job(a) \in Experiments /\ Goal(a) = "injecting" /\ Transits(a) /\ Moves(a)
          /\ UNCHANGED targetVars
      BY <2>2, AtWork DEF StartInjecting, MoveTo, At, JoblessLabels, Goal
    <3>2. ValidTransition(View(a)[Job(a)].state, "injecting")
      BY <1>0, <3>1, MoveIsValid
    <3>3. View(a)[Job(a)].state \notin BegunStates
      <4>1. View(a)[Job(a)].state \in ExperimentState \cup {"absent"}
        BY <1>0, <3>1, RowsAreSound DEF Row
      <4> QED
        BY <3>2, <4>1 DEF ValidTransition, AllowedTransitions, ExperimentState, BegunStates,
           PastStates
    <3>4. ~Begun(saved[Job(a)])
      BY <1>0, <3>1, <3>3, RowsLater, RowsAreSound, BegunRow DEF Later
    <3> QED
      BY <1>0, <2>2, <3>1, <3>4 DEF SameWork, Job, targetVars, EffectInv
  <2>3. CASE CoordinatorGoes(a) /\ ~(StartInjecting(a) /\ SameWork(a))
    <3>1. Dispatch(a) /\ Copy(a).state = "injecting" /\ SameWork(a)
      BY <1>2, <2>3 DEF CoordinatorGoes, Dispatches
    <3>2. agent[a].claimed /\ At(a, "run") /\ Loaded(a)
      BY <1>0, <1>2, <3>1, ClaimedGoOn DEF ClaimedLabels, SameWork, Dispatch
    <3>3. Copy(a).state # "injecting"
      BY <3>2 DEF StopInv, NoResume
    <3> QED
      BY <3>1, <3>3
  <2> QED
    BY <1>2, <2>1, <2>2, <2>3, AgentGoes DEF Goes, RestLabels
<1>3. NoResume(a)'
  <2>1. agent'[a].pc = "run" => RunsWith(a)
    BY <1>0, ArrivesToRun
  <2> QED
    BY <2>1 DEF NoResume, RunsWith, StopInv, States, At, Loaded, Copy, Job, Expired
<1>4. \A b \in Agents :
         NoResume(b)' /\ (agent'[b].pc = "inject" => stopCalls'[agent'[b].job] = 0)
  BY <1>0, <1>2, <1>3, OthersStopLate
<1> QED
  BY <1>1, <1>4 DEF StopInv, StopOnce, At, Job

-----------------------------------------------------------------------------
(* Who undoes an injection *)

\* The first stop finds the row where an outage is in sight.
LEMMA OpenAtStop ==
  ASSUME FleetIInv, SoundInv, LockInv, EffectInv, NEW e \in Experiments,
         stopCalls[e] = 0, Begun(saved[e])
  PROVE  saved[e].state \in BegunStates /\ States(e) \cap ClosedStates = {}
<1>1. saved[e].audit \subseteq rows[e].audit
  BY DEF LockInv
<1>2. Begun(rows[e])
  BY <1>1 DEF Begun
<1>3. \A r \in {saved[e], rows[e]} : r.state \notin {"cancelled", "failed"} \cup EffectStates
  BY <1>2, UntouchedRows DEF Untouched, States
<1> QED
  BY <1>3, RowsAreSound, BegunRow DEF States, ClosedStates, EffectStates

LEMMA OutageStep ==
  ASSUME FleetIInv, FleetTrailInv, StopInv, UndoInv,
         NEW a \in Agents, AgentStep(a), NEW e \in Experiments, outage' = e
  PROVE  stopCalls'[e] # 0 /\ {saved'[e].state, rows'[e].state} \cap ClosedStates = {}
<1>0. SoundInv /\ LockInv /\ CopyInv /\ EffectInv
  BY DEF FleetTrailInv, HistoryInv
<1>1. CASE outage = e
  <2>1. stopCalls[e] # 0 /\ States(e) \cap ClosedStates = {}
    BY <1>1 DEF UndoInv
  <2>2. saved[e].state \in BegunStates
    BY <1>0, <2>1, RowsAreSound, BegunRow DEF EffectInv
  <2>3. ~(At(a, "conclude") /\ agent[a].ok /\ Job(a) = e)
    BY <1>1 DEF UndoInv, Undone, At
  <2> QED
    BY <1>0, <2>1, <2>2, <2>3, StopCallsGrow, StaysOpen
<1>2. CASE outage # e
  <2>1. /\ Inject(a) /\ e = Job(a) /\ UNCHANGED storeVars
        /\ stopCalls' = [stopCalls EXCEPT ![e] = IF @ = 0 THEN 1 ELSE 2]
    BY <1>2, TargetStep DEF targetVars
  <2>2. States(e) \cap ClosedStates = {}
    BY <1>0, <2>1, OpenAtStop DEF Inject, StopInv, EffectInv
  <2> QED
    BY <2>1, <2>2 DEF storeVars, States, FleetIInv, FleetTypeOK
<1> QED
  BY <1>1, <1>2

LEMMA OthersUndo ==
  ASSUME FleetIInv, KnowInv, StopInv, UndoInv, NEW a \in Agents, AgentStep(a),
         NEW b \in Agents \ {a}
  PROVE  Undone(b)'
<1>1. agent'[b] = agent[b]
  BY ProcessAt, AgentProcessStep DEF ProcessFollows
<1>2. Undone(b) /\ Knows(b)
  BY DEF UndoInv, KnowInv
<1>3. ASSUME agent[b].pc \notin JoblessLabels, stopCalls[Job(b)] # 0, outage # Job(b)
      PROVE  outage' # Job(b)
  <2>1. Job(b) \in Experiments /\ None \notin Experiments
    BY <1>3, AtWork
  <2>2. Inject(a) => Job(a) # Job(b)
    BY <1>3 DEF Inject, StopInv
  <2> QED
    BY <1>3, <2>1, <2>2, TargetStep DEF targetVars
<1> QED
  BY <1>1, <1>2, <1>3 DEF Undone, Knows, Job, JoblessLabels

LEMMA AgentUndoStep ==
  ASSUME FleetIInv, FleetTrailInv, StopInv, UndoInv, NEW a \in Agents, AgentStep(a)
  PROVE  UndoInv'
<1>0. agent \in [Agents -> Agent] /\ agent[a] \in Agent /\ Undone(a) /\ KnowInv
      /\ None \notin Experiments
  BY ProcessAt DEF UndoInv, FleetTrailInv
<1> DEFINE to == agent'[a].pc
           e == agent'[a].job
<1>1. ASSUME Load(a) PROVE Undone(a)'
  BY <1>0, <1>1 DEF Load, targetVars, Undone, Job
<1>2. ASSUME to = "record_attempt", agent'[a].ok, ~Load(a) PROVE outage' # e
  <2>1. Restore(a) /\ agent'[a].job = agent[a].job
    BY <1>2, AgentGoes DEF Goes, RestLabels, CoordinatorGoes, Dispatches
  <2>2. Job(a) \in Experiments
    BY <2>1, AtWork DEF Restore, At, JoblessLabels
  <2>3. outage' = None
    BY <1>2, <2>1, RestoredIs DEF Restore
  <2> QED
    BY <1>0, <2>1, <2>2, <2>3 DEF Job
<1>3. ASSUME to = "conclude", agent'[a].ok, ~Load(a) PROVE outage' # e
  <2>1. At(a, "record_attempt") /\ SameWork(a)
    BY <1>3, AgentGoes DEF Goes, RestLabels, CoordinatorGoes, Dispatches
  <2>2. Job(a) \in Experiments /\ outage # Job(a) /\ ~Inject(a)
    BY <1>0, <1>3, <2>1, AtWork DEF At, JoblessLabels, Undone, SameWork, Inject
  <2> QED
    BY <1>0, <2>1, <2>2, TargetStep DEF SameWork, Job, targetVars
<1>4. ~Load(a) => Undone(a)'
  BY <1>2, <1>3 DEF Undone, Job
<1>5. \A b \in Agents : Undone(b)'
  BY <1>0, <1>1, <1>4, OthersUndo
<1>6. \A f \in Experiments : outage' = f => stopCalls'[f] # 0 /\ States(f)' \cap ClosedStates = {}
  BY OutageStep DEF States
<1> QED
  BY <1>5, <1>6 DEF UndoInv

-----------------------------------------------------------------------------
(* Commands, time, and the invariant as a whole *)

SameRow(r, s) == Kept(r, s) /\ s.context = r.context

\* What is not a process's step schedules a new row, or leaves what the
\* invariant is about.
LEMMA OthersLeave ==
  ASSUME FleetIInv, LockInv, NEW e \in Experiments, OthersStep(e)
  PROVE  /\ UNCHANGED <<writer, seen, agent, outage, stopCalls>>
         /\ writer = None => rows' = saved'
         /\ \A f \in Experiments :
               \/ SameRow(saved[f], saved'[f]) /\ SameRow(rows[f], rows'[f])
               \/ /\ saved[f].state = "absent" /\ rows[f].state = "absent"
                  /\ saved'[f] = PlannedRow /\ rows'[f] = PlannedRow
<1>0. saved \in [Experiments -> Row] /\ rows \in [Experiments -> Row]
  BY DEF FleetIInv, FleetTypeOK
<1>1. CASE Schedule(e)
  <2>1. saved' = [saved EXCEPT ![e] = PlannedRow] /\ rows' = saved' /\ rows = saved
        /\ saved[e].state = "absent"
    BY <1>1 DEF Schedule, PlannedRow, LockInv
  <2>2. \A f \in Experiments : saved'[f] = IF f = e THEN PlannedRow ELSE saved[f]
    BY <1>0, <2>1
  <2> QED
    BY <1>1, <2>1, <2>2 DEF Schedule, targetVars, SameRow, Kept
<1>2. CASE RequestCancel(e) \/ Elapse(e)
  BY <1>2 DEF RequestCancel, Elapse, storeVars, targetVars, SameRow, Kept, LockInv
<1>3. CASE Lapse(e)
  <2> DEFINE RanOut(r) == [r EXCEPT !.lapsed = TRUE]
  <2>1. \A r \in Row : SameRow(r, RanOut(r)) /\ SameRow(r, r)
    BY DEF Row, SameRow, Kept
  <2>2. /\ saved' = [saved EXCEPT ![e] = RanOut(saved[e])]
        /\ rows' = [rows EXCEPT ![e] = RanOut(rows[e])]
        /\ UNCHANGED <<writer, seen, agent, targetVars>>
    BY <1>3 DEF Lapse
  <2> HIDE DEF RanOut
  <2>3. \A f \in Experiments : SameRow(saved[f], saved'[f]) /\ SameRow(rows[f], rows'[f])
    BY <1>0, <2>1, <2>2
  <2> QED
    BY <2>2, <2>3 DEF LockInv, targetVars
<1> QED
  BY <1>1, <1>2, <1>3 DEF OthersStep

LEMMA PlannedIsSound ==
  /\ Sound(PlannedRow) /\ FollowsPolicy(PlannedRow) /\ Untouched(PlannedRow)
  /\ ~PlannedRow.context /\ PlannedRow.state \notin BegunStates \cup ClosedStates
<1>1. PlannedRow.state = "planned" /\ PlannedRow.revision = 0 /\ ~PlannedRow.context
      /\ PlannedRow.audit = {[sequence |-> 1, to |-> "planned"]}
  BY DEF PlannedRow, NoRow
<1>2. "planned" \notin BegunStates \cup ClosedStates \cup TerminalStates \cup EffectStates \cup {"absent"}
  BY DEF BegunStates, PastStates, ClosedStates, TerminalStates, EffectStates
<1>3. Timely([sequence |-> 1, to |-> "planned"])
  BY <1>2, StatesSplit DEF Timely
<1>4. FollowsPolicy(PlannedRow) /\ Untouched(PlannedRow)
  BY <1>1, <1>2 DEF FollowsPolicy, Untouched
<1> QED
  BY <1>1, <1>2, <1>3, <1>4 DEF Sound

LEMMA OthersTrailStep ==
  ASSUME FleetIInv, FleetTrailInv, NEW e \in Experiments, OthersStep(e) PROVE FleetTrailInv'
<1>0. /\ SoundInv /\ PolicyInv /\ LockInv /\ CopyInv /\ ClaimInv /\ FlushInv /\ KnowInv
      /\ EffectInv
  BY DEF FleetTrailInv, HistoryInv
<1>1. UNCHANGED <<writer, seen, agent, outage, stopCalls>> /\ (writer = None => rows' = saved')
  BY <1>0, OthersLeave
<1>2. ASSUME NEW f \in Experiments
      PROVE  \/ SameRow(saved[f], saved'[f]) /\ SameRow(rows[f], rows'[f])
             \/ /\ saved[f].state = "absent" /\ rows[f].state = "absent"
                /\ saved'[f] = PlannedRow /\ rows'[f] = PlannedRow
                /\ saved[f].audit = {} /\ rows[f].audit = {}
  BY <1>0, OthersLeave DEF SoundInv, Sound
<1>3. ASSUME NEW f \in Experiments
      PROVE  /\ saved[f].audit \subseteq saved'[f].audit /\ rows[f].audit \subseteq rows'[f].audit
             /\ saved'[f].audit \subseteq rows'[f].audit
             /\ Sound(saved'[f]) /\ Sound(rows'[f])
             /\ FollowsPolicy(saved'[f]) /\ FollowsPolicy(rows'[f])
             /\ saved'[f].context \/ rows'[f].context => saved[f].context \/ rows[f].context
  <2>1. /\ Sound(saved[f]) /\ Sound(rows[f]) /\ saved[f].audit \subseteq rows[f].audit
        /\ FollowsPolicy(saved[f]) /\ FollowsPolicy(rows[f])
    BY <1>0 DEF SoundInv, PolicyInv, LockInv
  <2>2. CASE SameRow(saved[f], saved'[f]) /\ SameRow(rows[f], rows'[f])
    BY <2>1, <2>2 DEF SameRow, Kept, Sound, FollowsPolicy
  <2>3. CASE /\ saved'[f] = PlannedRow /\ rows'[f] = PlannedRow
             /\ saved[f].audit = {} /\ rows[f].audit = {}
    BY <2>3, PlannedIsSound
  <2> QED
    BY <1>2, <2>2, <2>3
<1>4. \A b \in Agents, f \in Experiments : View(b)[f].audit \subseteq View(b)'[f].audit
  BY <1>1, <1>3 DEF View
<1>5. HistoryInv'
  <2>1. SoundInv' /\ PolicyInv' /\ LockInv'
    BY <1>1, <1>3 DEF SoundInv, PolicyInv, LockInv, Sound, Timely, FollowsPolicy
  <2>2. CopyInv'
    BY <1>0, <1>1, <1>4 DEF CopyInv, Shows, Phantom, At, Job, Expired
  <2> QED
    BY <2>1, <2>2 DEF HistoryInv
<1>6. ASSUME NEW b \in Agents, agent[b].pc \notin JoblessLabels
      PROVE  Job(b) \in Experiments /\ View(b)'[Job(b)].state = View(b)[Job(b)].state
  <2>1. Job(b) \in Experiments /\ saved[Job(b)].state # "absent"
    BY <1>6, AtWork DEF Present
  <2>2. /\ saved'[Job(b)].state = saved[Job(b)].state
        /\ rows'[Job(b)].state = rows[Job(b)].state
    BY <1>2, <2>1 DEF SameRow, Kept
  <2> QED
    BY <1>1, <2>1, <2>2 DEF View
<1>7. ASSUME NEW b \in Agents PROVE Claims(b)'
  <2>1. Claims(b)
    BY <1>0 DEF ClaimInv
  <2>2. CASE At(b, "claiming")
    BY <1>1, <1>4, <1>6, <2>1, <2>2
       DEF Claims, ClaimedLabels, JoblessLabels, Shows, At, Copy, Job
  <2>3. CASE At(b, "run")
    BY <1>1, <1>6, <2>1, <2>3
       DEF Claims, ClaimedLabels, JoblessLabels, At, Copy, Loaded, Expired, Job
  <2>4. CASE agent[b].pc \notin {"claiming", "run"}
    BY <1>1, <2>1, <2>4 DEF Claims, At
  <2> QED
    BY <2>2, <2>3, <2>4 DEF At
<1>8. ASSUME NEW f \in Experiments
      PROVE  Kept(saved'[f], rows'[f]) \/ \E b \in Agents : Flushed(b, f)'
  <2>1. CASE SameRow(saved[f], saved'[f]) /\ SameRow(rows[f], rows'[f])
    <3>1. Kept(saved[f], rows[f]) => Kept(saved'[f], rows'[f])
      BY <2>1 DEF SameRow, Kept
    <3>2. \A b \in Agents : Flushed(b, f) => Flushed(b, f)'
      BY <1>1, <2>1 DEF SameRow, Kept, Flushed, At, Job
    <3> QED
      BY <1>0, <3>1, <3>2 DEF FlushInv
  <2>2. CASE saved'[f] = PlannedRow /\ rows'[f] = PlannedRow
    BY <2>2 DEF Kept
  <2> QED
    BY <1>2, <2>1, <2>2
<1>9. KnowInv'
  <2>1. \A b \in Agents : Knows(b)'
    BY <1>0, <1>1 DEF KnowInv, Knows, Job
  <2>2. \A b \in Agents, f \in Experiments :
           seen'[b][f] # Expired =>
              /\ seen'[b][f].context => stopCalls'[f] # 0
              /\ Phantom(b, f)' => stopCalls'[f] # 0
    BY <1>0, <1>1 DEF KnowInv, Phantom, Job
  <2> QED
    BY <1>0, <1>1, <1>3, <2>1, <2>2 DEF KnowInv, Expired
<1>10. EffectInv'
  <2>1. ASSUME NEW f \in Experiments
        PROVE  IF stopCalls[f] = 0 THEN Untouched(rows'[f]) ELSE Begun(saved'[f])
    <3>1. CASE SameRow(saved[f], saved'[f]) /\ SameRow(rows[f], rows'[f])
      BY <1>0, <3>1 DEF SameRow, Kept, EffectInv, Untouched, Begun
    <3>2. CASE rows'[f] = PlannedRow /\ saved[f].audit = {}
      BY <1>0, <3>2, PlannedIsSound DEF EffectInv, Begun
    <3> QED
      BY <1>2, <3>1, <3>2
  <2>2. ASSUME NEW b \in Agents, At(b, "inject") PROVE Begun(saved'[Job(b)])
    BY <1>0, <1>3, <1>6, <2>2 DEF EffectInv, Begun, At, JoblessLabels
  <2> QED
    BY <1>1, <2>1, <2>2 DEF EffectInv, Untouched, Begun, At, Job
<1>11. CheckInv'
  BY <1>1 DEF FleetTrailInv, CheckInv, Loaded, Copy, Job, Expired
<1> QED
  BY <1>5, <1>7, <1>8, <1>9, <1>10, <1>11 DEF FleetTrailInv, ClaimInv, FlushInv, Kept

LEMMA FleetTrailInit == Init => FleetTrailInv
<1> SUFFICES ASSUME Init PROVE FleetTrailInv
  OBVIOUS
<1>1. \A e \in Experiments :
        /\ saved[e].state = "absent" /\ saved[e].audit = {} /\ ~saved[e].context
        /\ rows[e].state = "absent" /\ rows[e].audit = {} /\ ~rows[e].context
        /\ stopCalls[e] = 0
  BY DEF Init, NoRow
<1>2. rows = saved
  BY DEF Init
<1>3. \A a \in Agents : agent[a].pc = "down" /\ \A e \in Experiments : seen[a][e] = Expired
  <2>1. Booted("down").pc = "down" /\ agent = [a \in Agents |-> Booted("down")]
    BY DEF Init, Booted
  <2>2. seen = [a \in Agents |-> [e \in Experiments |-> Expired]]
    BY DEF Init, NoCopies
  <2> QED
    BY <2>1, <2>2
<1>4. HistoryInv
  BY <1>1, <1>2, <1>3
     DEF HistoryInv, SoundInv, PolicyInv, FollowsPolicy, LockInv, CopyInv, Sound
<1>5. ClaimInv /\ FlushInv /\ KnowInv
  BY <1>1, <1>2, <1>3 DEF ClaimInv, Claims, ClaimedLabels, FlushInv, Kept, KnowInv, Knows, At
<1>6. EffectInv /\ CheckInv
  BY <1>1, <1>3 DEF EffectInv, Untouched, CheckInv, At
<1> QED
  BY <1>4, <1>5, <1>6 DEF FleetTrailInv

LEMMA FleetTrailStep ==
  FleetIInv /\ FleetTrailInv /\ [Next]_vars => FleetTrailInv'
<1> SUFFICES ASSUME FleetIInv, FleetTrailInv, [Next]_vars PROVE FleetTrailInv'
  OBVIOUS
<1>0. /\ SoundInv /\ PolicyInv /\ LockInv /\ CopyInv /\ ClaimInv /\ FlushInv /\ KnowInv
      /\ EffectInv /\ CheckInv
  BY DEF FleetTrailInv, HistoryInv
<1>1. ASSUME NEW a \in Agents, AgentStep(a) PROVE FleetTrailInv'
  <2>1. SoundInv' /\ PolicyInv' /\ LockInv' /\ CopyInv'
    BY <1>0, <1>1, AgentSoundStep, AgentPolicyStep, AgentLockStep, AgentCopyStep
  <2>2. ClaimInv' /\ FlushInv' /\ KnowInv' /\ EffectInv' /\ CheckInv'
    BY <1>0, <1>1, AgentClaimStep, AgentFlushStep, AgentKnowStep, AgentEffectStep,
       AgentCheckStep
  <2> QED
    BY <2>1, <2>2 DEF FleetTrailInv, HistoryInv
<1>2. CASE UNCHANGED vars
  <2>1. SoundInv' /\ PolicyInv' /\ LockInv' /\ CopyInv'
    BY <1>0, <1>2 DEF vars, SoundInv, Sound, Timely, PolicyInv, FollowsPolicy, LockInv,
       CopyInv, Shows, Phantom, View, At, Job, Expired
  <2>2. ClaimInv' /\ FlushInv'
    BY <1>0, <1>2 DEF vars, ClaimInv, Claims, Shows, FlushInv, Flushed, Kept, View,
       At, Job, Copy, Loaded, Expired
  <2>3. KnowInv' /\ EffectInv' /\ CheckInv'
    BY <1>0, <1>2 DEF vars, KnowInv, Knows, Phantom, EffectInv, Untouched, Begun, CheckInv,
       At, Job, Copy, Loaded, Expired
  <2> QED
    BY <2>1, <2>2, <2>3 DEF FleetTrailInv, HistoryInv
<1> QED
  BY <1>1, <1>2, OthersTrailStep DEF Next

\* What holds of the trails holds however the claims go.
LEMMA FleetTrailInvariant == Spec => [](FleetIInv /\ FleetTrailInv)
  BY FleetInvHolds, FleetTrailInit, FleetTrailStep, PTL DEF Spec

LEMMA OthersWorkStep ==
  ASSUME FleetIInv, FleetTrailInv, FleetWorkInv, NEW e \in Experiments, OthersStep(e)
  PROVE  FleetWorkInv'
<1>0. LockInv /\ StopInv /\ UndoInv
  BY DEF FleetTrailInv, HistoryInv, FleetWorkInv
<1>1. UNCHANGED <<writer, seen, agent, outage, stopCalls>>
  BY <1>0, OthersLeave
<1>2. ASSUME NEW f \in Experiments
      PROVE  \/ {saved'[f].state, rows'[f].state} = States(f)
             \/ saved'[f].state = "planned" /\ rows'[f].state = "planned"
                /\ saved[f].state = "absent"
  BY <1>0, OthersLeave DEF SameRow, Kept, PlannedRow, NoRow, States
<1>3. ASSUME NEW b \in Agents, At(b, "run")
      PROVE  {saved'[Job(b)].state, rows'[Job(b)].state} = States(Job(b))
  BY <1>2, <1>3, AtWork DEF At, JoblessLabels, Present
<1>4. StopInv'
  <2>1. \A b \in Agents : NoResume(b)'
    BY <1>0, <1>1, <1>3 DEF StopInv, NoResume, States, At, Loaded, Copy, Job, Expired
  <2> QED
    BY <1>0, <1>1, <2>1 DEF StopInv, StopOnce, At, Job
<1>5. UndoInv'
  <2>1. ASSUME NEW f \in Experiments, outage' = f
        PROVE  stopCalls'[f] # 0 /\ {saved'[f].state, rows'[f].state} \cap ClosedStates = {}
    BY <1>0, <1>1, <1>2, <2>1 DEF UndoInv, ClosedStates
  <2> QED
    BY <1>0, <1>1, <2>1 DEF UndoInv, Undone, States, Job
<1> QED
  BY <1>4, <1>5 DEF FleetWorkInv

LEMMA FleetWorkInit == Init => FleetWorkInv
<1> SUFFICES ASSUME Init PROVE FleetWorkInv
  OBVIOUS
<1>1. \A e \in Experiments : stopCalls[e] = 0 /\ outage # e
  BY DEF Init
<1>2. \A a \in Agents : agent[a].pc = "down"
  <2>1. Booted("down").pc = "down" /\ agent = [a \in Agents |-> Booted("down")]
    BY DEF Init, Booted
  <2> QED
    BY <2>1
<1> QED
  BY <1>1, <1>2 DEF FleetWorkInv, StopInv, NoResume, StopOnce, UndoInv, Undone, At

LEMMA FleetWorkStep ==
  FleetIInv /\ OwnedInv /\ FleetTrailInv /\ FleetWorkInv /\ [Next]_vars => FleetWorkInv'
<1> SUFFICES ASSUME FleetIInv, OwnedInv, FleetTrailInv, FleetWorkInv, [Next]_vars
             PROVE  FleetWorkInv'
  OBVIOUS
<1>0. StopInv /\ UndoInv
  BY DEF FleetWorkInv
<1>1. ASSUME NEW a \in Agents, AgentStep(a) PROVE FleetWorkInv'
  BY <1>0, <1>1, AgentStopStep, AgentUndoStep DEF FleetWorkInv
<1>2. CASE UNCHANGED vars
  BY <1>0, <1>2 DEF vars, FleetWorkInv, StopInv, NoResume, StopOnce, UndoInv, Undone, States,
     At, Job, Copy, Loaded, Expired
<1> QED
  BY <1>1, <1>2, OthersWorkStep DEF Next

LEMMA FleetWorkInvariant ==
  Spec => [](FleetIInv /\ FleetTrailInv /\ FleetWorkInv)
  BY FleetTrailInvariant, OwnedInvariant, FleetWorkInit, FleetWorkStep, PTL DEF Spec

\* No experiment's stop is sent twice: not by a process that takes over, not by
\* reconcile() beside one.
THEOREM StopsOnce == Spec => []StopOnce
<1>1. FleetWorkInv => StopOnce
  BY DEF FleetWorkInv, StopInv
<1> QED
  BY <1>1, FleetWorkInvariant, PTL

\* As long as an experiment's outage lasts its row is one that is cleaned up next
\* or asks for an operator.
THEOREM OutagesAreAccounted == Spec => []OutageIsAccounted
<1>1. FleetIInv /\ FleetTrailInv /\ FleetWorkInv => OutageIsAccounted
  <2> SUFFICES ASSUME FleetIInv, FleetTrailInv, FleetWorkInv, outage # None
               PROVE  saved[outage].state \in OpenStates
    BY DEF OutageIsAccounted
  <2>1. outage \in Experiments /\ SoundInv
    BY DEF FleetIInv, FleetTypeOK, FleetTrailInv, HistoryInv
  <2>2. Begun(saved[outage]) /\ saved[outage].state \notin ClosedStates
    BY <2>1 DEF FleetTrailInv, EffectInv, FleetWorkInv, UndoInv, States
  <2>3. saved[outage].state \in BegunStates \ ClosedStates
    BY <2>1, <2>2, RowsAreSound, BegunRow
  <2> QED
    BY <2>3 DEF BegunStates, PastStates, ExperimentState, ClosedStates, OpenStates
<1> QED
  BY <1>1, FleetWorkInvariant, PTL

\* A verdict is final, whatever the copies of the sessions say, and whether or
\* not a claim is exclusive.
THEOREM VerdictsAreFinal == Spec => VerdictIsFinal
<1>1. FleetIInv /\ FleetTrailInv /\ [Next]_vars => [VerdictKept]_saved
  <2> SUFFICES ASSUME FleetIInv, FleetTrailInv, [Next]_vars, NEW e \in Experiments,
                      saved[e].state \in TerminalStates
               PROVE  Kept(saved[e], saved'[e])
    BY DEF VerdictKept, Kept
  <2>0. SoundInv /\ LockInv /\ CopyInv
    BY DEF FleetTrailInv, HistoryInv
  <2>1. CASE UNCHANGED vars
    BY <2>1 DEF vars, Kept
  <2>2. ASSUME NEW a \in Agents, AgentStep(a) PROVE Kept(saved[e], saved'[e])
    BY <2>0, <2>2, AgentViewsLater DEF Later
  <2>3. ASSUME NEW f \in Experiments, OthersStep(f) PROVE Kept(saved[e], saved'[e])
    BY <2>0, <2>3, OthersLeave DEF SameRow, TerminalStates
  <2> QED
    BY <2>1, <2>2, <2>3 DEF Next
<1> QED
  BY <1>1, FleetTrailInvariant, PTL DEF Spec, VerdictIsFinal

\* Successive entries of a trail are edges of the policy, but for an "expired"
\* in the fifth place.
THEOREM TrailsFollowPolicy == Spec => []TrailFollowsPolicy
<1>1. FleetTrailInv => TrailFollowsPolicy
  BY DEF FleetTrailInv, HistoryInv, PolicyInv, TrailFollowsPolicy
<1> QED
  BY <1>1, FleetTrailInvariant, PTL

-----------------------------------------------------------------------------
(* The shared life cycle *)

\* What a commit makes of a row, as the shared life cycle has it.
SharedMove(e) ==
    LET from == saved[e].state
        to == saved'[e].state
    IN  \/ to = from
        \/ /\ from \in ExperimentState /\ to \in ExperimentState /\ ValidTransition(from, to)
           /\ to \in {"active", "passed"} => stopCalls[e] # 0
           /\ to = "failed" => stopCalls[e] = 0
        \/ from = "planned" /\ to = "failed" /\ stopCalls[e] = 0
        \/ from = "cleaning_up" /\ to = "expired" /\ stopCalls[e] # 0

LEMMA StoppedIsBegun ==
  ASSUME FleetIInv, SoundInv, EffectInv, NEW e \in Experiments, stopCalls[e] # 0
  PROVE  saved[e].state \in BegunStates
  BY RowsAreSound, BegunRow DEF EffectInv

\* Of the rows four transitions old.
LEMMA FourthEntry ==
  ASSUME NEW r \in Row, Gapless(r), Sound(r), FollowsPolicy(r), r.state # "absent",
         r.revision = 3
  PROVE  r.state \in {"active", "cleaning_up"}
<1>1. PICK third \in r.audit : third.sequence = 3
  <2>1. 3 \in Sequences(r)
    BY DEF Gapless
  <2> QED
    BY <2>1 DEF Sequences
<1>2. third.to = "injecting"
  <2>1. third.to \in ExperimentState
    BY LastEntry DEF AuditEntry
  <2>2. Timely(third) /\ third.to \notin TerminalStates
    BY <1>1 DEF Sound
  <2> QED
    BY <1>1, <2>1, <2>2 DEF Timely, PastStates
<1>3. PICK fourth \in r.audit : fourth.sequence = 4 /\ fourth.to = r.state
  <2> DEFINE entry == [sequence |-> r.revision + 1, to |-> r.state]
  <2>1. entry \in r.audit /\ entry.sequence = 4 /\ entry.to = r.state
    BY LastEntry
  <2> QED
    BY <2>1
<1>4. ValidTransition("injecting", r.state)
  BY <1>1, <1>2, <1>3 DEF FollowsPolicy
<1> QED
  BY <1>4 DEF ValidTransition, AllowedTransitions, ExperimentState

\* A transition that goes by a copy is an edge the fault justifies, or the
\* deadline of an injection that was cleaned up meanwhile.
LEMMA MoveIsShared ==
  ASSUME FleetIInv, FleetTrailInv, NEW a \in Agents, NEW e \in Experiments, e = Job(a),
         CommitsMove(a, e)
  PROVE  SharedMove(e)
<1>0. SoundInv /\ PolicyInv /\ LockInv /\ CopyInv /\ KnowInv /\ EffectInv /\ CheckInv
  BY DEF FleetTrailInv, HistoryInv
<1>1. /\ Transits(a) /\ Moves(a) /\ saved'[e].state = Goal(a)
      /\ View(a)[e].state = saved[e].state /\ View(a)[e].revision = saved[e].revision
      /\ Loaded(a) /\ seen[a][e] # Expired
  BY DEF CommitsMove, Kept, Transits, Loaded, Copy
<1>2. saved[e].state \in ExperimentState /\ saved[e].state # "absent"
  <2>1. saved[e].state # "absent"
    BY <1>1, AtWork DEF Transits, MoveLabels, JoblessLabels, Present
  <2> QED
    BY <1>0, <2>1, RowsAreSound DEF Row
<1>3. CASE Copy(a).state = saved[e].state /\ ValidTransition(saved[e].state, Goal(a))
  <2>1. Goal(a) \in ExperimentState
    BY <1>2, <1>3 DEF ValidTransition, AllowedTransitions, ExperimentState
  <2>2. Goal(a) = "active" => stopCalls[e] # 0
    <3>1. Goal(a) = "active" => At(a, "activate")
      BY <1>1 DEF Transits, MoveLabels, Goal, CancelTarget, FinalState, At
    <3> QED
      BY <1>0, <3>1 DEF KnowInv, Knows, At
  <2>3. Goal(a) = "passed" => stopCalls[e] # 0
    <3>1. Goal(a) = "passed" => saved[e].state = "verifying"
      BY <1>2, <1>3 DEF ValidTransition, AllowedTransitions, ExperimentState
    <3> QED
      BY <1>0, <3>1, UntouchedRows DEF States, EffectStates
  <2>4. Goal(a) = "failed" => stopCalls[e] = 0
    <3>1. Goal(a) = "failed" => At(a, "refuse")
      BY <1>1 DEF Transits, MoveLabels, Goal, CancelTarget, FinalState, At
    <3>2. Goal(a) = "failed" => saved[e].state = "preflight"
      BY <1>0, <1>1, <1>3, <3>1 DEF CheckInv, At
    <3> QED
      BY <1>0, <3>2, StoppedIsBegun DEF BegunStates, PastStates
  <2> QED
    BY <1>1, <1>2, <1>3, <2>1, <2>2, <2>3, <2>4 DEF SharedMove
<1>4. CASE Goal(a) = "expired" /\ View(a)[e].revision = 3 /\ Phantom(a, e)
  <2>1. stopCalls[e] # 0
    BY <1>0, <1>1, <1>4 DEF KnowInv
  <2>2. saved[e].state \in {"active", "cleaning_up"}
    BY <1>0, <1>1, <1>2, <1>4, RowsAreSound, FourthEntry DEF PolicyInv
  <2>3. "expired" \in ExperimentState /\ ValidTransition("active", "expired")
    BY DEF ValidTransition, AllowedTransitions, ExperimentState
  <2> QED
    BY <1>1, <1>2, <1>4, <2>1, <2>2, <2>3 DEF SharedMove
<1> QED
  BY <1>0, <1>1, <1>3, <1>4, MoveIsValid

LEMMA AgentMovesShared ==
  ASSUME FleetIInv, FleetTrailInv, NEW a \in Agents, AgentStep(a), NEW e \in Experiments
  PROVE  SharedMove(e) /\ (e # Job(a) => saved'[e].state = saved[e].state)
<1>0. SoundInv /\ EffectInv /\ FlushInv
  BY DEF FleetTrailInv, HistoryInv
<1>1. CASE Kept(saved[e], saved'[e])
  BY <1>1 DEF Kept, SharedMove
<1>2. CASE e = Job(a) /\ CommitsMove(a, e)
  BY <1>2, MoveIsShared
<1>3. CASE e = Job(a) /\ CommitsRefusal(a, e)
  BY <1>0, <1>3, StoppedIsBegun DEF CommitsRefusal, SharedMove, BegunStates, PastStates
<1>4. CASE e = Job(a) /\ CommitsFlushed(e)
  BY <1>4 DEF CommitsFlushed, SharedMove, ValidTransition, AllowedTransitions, ExperimentState
<1> QED
  BY <1>0, <1>1, <1>2, <1>3, <1>4, AgentCommits

AbstractState == [e \in Experiments |-> saved[e].state]
AbstractInjected == {e \in Experiments : stopCalls[e] > 0}

\* One row moves: so does the abstract state.
LEMMA AbstractMove ==
  ASSUME FleetIInv, NEW e \in Experiments, SharedMove(e), stopCalls' = stopCalls,
         \A f \in Experiments \ {e} : saved'[f].state = saved[f].state
  PROVE  [Abstract!SharedNext]_(Abstract!lifecycleVars)
<1>0. PICK to : to = saved'[e].state
  OBVIOUS
<1>1. /\ AbstractState' = [AbstractState EXCEPT ![e] = to]
      /\ AbstractInjected' = AbstractInjected
  BY <1>0 DEF AbstractState, AbstractInjected
<1>2. AbstractState[e] = saved[e].state /\ (e \in AbstractInjected <=> stopCalls[e] # 0)
  BY DEF AbstractState, AbstractInjected, FleetIInv, FleetTypeOK
<1>3. CASE to = saved[e].state
  <2>1. AbstractState' = AbstractState
    BY <1>1, <1>3 DEF AbstractState
  <2> QED
    BY <1>1, <2>1 DEF Abstract!lifecycleVars, AbstractState, AbstractInjected
<1>4. CASE /\ saved[e].state \in ExperimentState /\ to \in ExperimentState
           /\ ValidTransition(saved[e].state, to)
           /\ to \in {"active", "passed"} => stopCalls[e] # 0
           /\ to = "failed" => stopCalls[e] = 0
  <2>1. Abstract!Advance(e, to)
    BY <1>1, <1>2, <1>4
    DEF Abstract!Advance, Abstract!Justified, Abstract!ValidTransition, ValidTransition,
        Abstract!AllowedTransitions, AllowedTransitions, Abstract!ExperimentState,
        ExperimentState, AbstractState, AbstractInjected
  <2>2. to \in Abstract!ExperimentState
    BY <1>4 DEF Abstract!ExperimentState, ExperimentState
  <2> QED
    BY <2>1, <2>2 DEF Abstract!SharedNext, Abstract!LifecycleNext
<1>5. CASE saved[e].state = "planned" /\ to = "failed" /\ stopCalls[e] = 0
  <2>1. Abstract!RefuseUnseen(e)
    BY <1>1, <1>2, <1>5
    DEF Abstract!RefuseUnseen, Abstract!Justified, AbstractState, AbstractInjected
  <2> QED
    BY <2>1 DEF Abstract!SharedNext, Abstract!LifecycleNext
<1>6. CASE saved[e].state = "cleaning_up" /\ to = "expired" /\ stopCalls[e] # 0
  <2>1. Abstract!ExpireLate(e)
    BY <1>1, <1>2, <1>6 DEF Abstract!ExpireLate, AbstractState, AbstractInjected
  <2> QED
    BY <2>1 DEF Abstract!SharedNext
<1> QED
  BY <1>0, <1>3, <1>4, <1>5, <1>6 DEF SharedMove

\* A stop finds the row as it was claimed, or taken to cleanup meanwhile.
LEMMA AbstractStop ==
  ASSUME FleetIInv, FleetTrailInv, NEW a \in Agents, NEW e \in Experiments, e = Job(a), Inject(a)
  PROVE  [Abstract!SharedNext]_(Abstract!lifecycleVars)
<1>1. /\ saved' = saved /\ At(a, "inject")
      /\ stopCalls' = [stopCalls EXCEPT ![e] = IF @ = 0 THEN 1 ELSE 2]
  BY DEF Inject, storeVars
<1>2. stopCalls \in [Experiments -> 0..2]
  BY DEF FleetIInv, FleetTypeOK
<1>3. AbstractState' = AbstractState
  BY <1>1 DEF AbstractState
<1>4. CASE stopCalls[e] # 0
  <2>1. AbstractInjected' = AbstractInjected
    BY <1>1, <1>2, <1>4 DEF AbstractInjected
  <2> QED
    BY <1>3, <2>1 DEF Abstract!lifecycleVars, AbstractState, AbstractInjected
<1>5. CASE stopCalls[e] = 0
  <2>1. AbstractInjected' = AbstractInjected \cup {e} /\ e \notin AbstractInjected
    BY <1>1, <1>2, <1>5 DEF AbstractInjected
  <2>2. SoundInv /\ LockInv /\ EffectInv /\ Begun(saved[e])
    BY <1>1 DEF FleetTrailInv, HistoryInv, EffectInv
  <2>3. saved[e].state \in BegunStates \ (ClosedStates \cup EffectStates)
    BY <1>1, <1>5, <2>2, OpenAtStop, UntouchedRows DEF States
  <2>4. saved[e].state \in {"injecting", "cleaning_up", "cleanup_failed", "operator_attention"}
    BY <2>3 DEF BegunStates, PastStates, ExperimentState, ClosedStates, EffectStates
  <2>5. AbstractState[e] = saved[e].state
    BY <1>1 DEF AbstractState
  <2>6. Abstract!RequestFault(e) \/ Abstract!RequestFaultLate(e)
    BY <1>3, <2>1, <2>4, <2>5
    DEF Abstract!RequestFault, Abstract!RequestFaultLate, AbstractState, AbstractInjected
  <2> QED
    BY <1>1, <2>6 DEF Abstract!SharedNext, Abstract!LifecycleNext
<1> QED
  BY <1>4, <1>5

\* What is not a process's step schedules, or does not show.
LEMMA AbstractOthers ==
  ASSUME FleetIInv, FleetTrailInv, NEW e \in Experiments, OthersStep(e)
  PROVE  [Abstract!SharedNext]_(Abstract!lifecycleVars)
<1>0. /\ saved \in [Experiments -> Row] /\ LockInv
  BY DEF FleetIInv, FleetTypeOK, FleetTrailInv, HistoryInv
<1>1. UNCHANGED stopCalls /\ AbstractInjected' = AbstractInjected
  BY <1>0, OthersLeave DEF AbstractInjected
<1>2. CASE Schedule(e)
  <2>1. saved' = [saved EXCEPT ![e] = PlannedRow] /\ saved[e].state = "absent"
    BY <1>2 DEF Schedule, PlannedRow
  <2>2. AbstractState' = [AbstractState EXCEPT ![e] = "planned"]
    BY <1>0, <2>1 DEF AbstractState, PlannedRow, NoRow
  <2>3. \A f \in Experiments : saved[f].state \in TerminalStates \cup {"absent"}
    BY <1>0, <1>2 DEF Schedule, Unfinished, Row
  <2>4. Abstract!ScheduleOne(e)
    BY <1>1, <2>1, <2>2, <2>3
    DEF Abstract!ScheduleOne, Abstract!TerminalStates, TerminalStates, AbstractState,
        AbstractInjected
  <2> QED
    BY <2>4 DEF Abstract!SharedNext, Abstract!LifecycleNext
<1>3. CASE ~Schedule(e)
  <2>1. \A f \in Experiments : saved'[f].state = saved[f].state
    <3>1. CASE RequestCancel(e) \/ Elapse(e)
      BY <3>1 DEF RequestCancel, Elapse, storeVars
    <3>2. CASE Lapse(e)
      <4>1. saved' = [saved EXCEPT ![e].lapsed = TRUE]
        BY <3>2 DEF Lapse
      <4>2. \A r \in Row : [r EXCEPT !.lapsed = TRUE].state = r.state
        BY DEF Row
      <4> QED
        BY <1>0, <4>1, <4>2
    <3> QED
      BY <1>3, <3>1, <3>2 DEF OthersStep
  <2>2. AbstractState' = AbstractState
    BY <2>1 DEF AbstractState
  <2> QED
    BY <1>1, <2>2 DEF Abstract!lifecycleVars, AbstractState, AbstractInjected
<1> QED
  BY <1>2, <1>3

LEMMA AbstractStep ==
  FleetIInv /\ FleetTrailInv /\ [Next]_vars => [Abstract!SharedNext]_(Abstract!lifecycleVars)
<1> SUFFICES ASSUME FleetIInv, FleetTrailInv, [Next]_vars
             PROVE  [Abstract!SharedNext]_(Abstract!lifecycleVars)
  OBVIOUS
<1>1. ASSUME NEW a \in Agents, AgentStep(a)
      PROVE  [Abstract!SharedNext]_(Abstract!lifecycleVars)
  <2>1. CASE Inject(a)
    BY <2>1, AtWork, AbstractStop DEF Inject, At, JoblessLabels
  <2>2. CASE ~Inject(a)
    <3>1. stopCalls' = stopCalls
      BY <1>1, <2>2, TargetStep DEF targetVars
    <3>2. CASE Job(a) \in Experiments
      BY <1>1, <3>1, <3>2, AgentMovesShared, AbstractMove
    <3>3. CASE Job(a) \notin Experiments
      <4>1. AbstractState' = AbstractState
        BY <1>1, <3>3, AgentMovesShared DEF AbstractState
      <4> QED
        BY <3>1, <4>1 DEF Abstract!lifecycleVars, AbstractState
    <3> QED
      BY <3>2, <3>3
  <2> QED
    BY <2>1, <2>2
<1>2. CASE UNCHANGED vars
  BY <1>2 DEF vars, Abstract!lifecycleVars
<1> QED
  BY <1>1, <1>2, AbstractOthers DEF Next

LEMMA AbstractInit == Init => Abstract!LifecycleInit
<1> SUFFICES ASSUME Init PROVE Abstract!LifecycleInit
  OBVIOUS
<1>1. \A e \in Experiments : saved[e].state = "absent" /\ ~(stopCalls[e] > 0)
  BY DEF Init, NoRow
<1> QED
  BY <1>1 DEF Abstract!LifecycleInit

\* Read through the committed states and the stops sent, every behaviour of
\* any number of processes over one database is a behaviour of the shared life
\* cycle, whether or not a claim is exclusive.
THEOREM FleetImplementsSharedLifecycle == Spec => ImplementsSharedLifecycle
  BY AbstractStep, AbstractInit, FleetTrailInvariant, PTL
  DEF Spec, ImplementsSharedLifecycle, Abstract!SharedSpec

=============================================================================
