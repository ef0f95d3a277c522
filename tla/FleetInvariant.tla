--------------------------- MODULE FleetInvariant ---------------------------
(***************************************************************************)
(* The inductive invariant behind FleetProperties.                         *)
(***************************************************************************)
EXTENDS FleetProperties

-----------------------------------------------------------------------------
(* Types, trails and claims *)

\* Labels without an experiment at hand, and those reached under a claim.
JoblessLabels == {"down", "broken", "idle", "reconcile", "controls", "claim"}
UnclaimedLabels == JoblessLabels \cup {"interrupt", "cancel", "complete", "claiming"}

Present == {e \in Experiments : saved[e].state # "absent"}

ProcessOK(process) ==
    /\ process.job \in Present \cup {None}
    /\ process.todo \subseteq Present
    /\ process.pc \notin JoblessLabels => process.job \in Present
    /\ process.claimed => process.pc \notin UnclaimedLabels
    /\ process.pc = "release" => process.claimed

PresentInv ==
    /\ \A e \in Experiments : saved[e].state = "absent" <=> rows[e].state = "absent"
    /\ \A a \in Agents : ProcessOK(agent[a])
    /\ \A e \in Experiments : request[e] # "none" => e \in Present
    /\ \A a \in Agents, e \in Experiments :
          seen[a][e] # Expired => seen[a][e].state # "absent"

\* The trail of one row, as AuditIsGapless has it.
Gapless(row) ==
    row.state # "absent" =>
        /\ Sequences(row) = 1..(row.revision + 1)
        /\ \A entry \in row.audit :
              /\ entry.sequence = row.revision + 1 => entry.to = row.state
              /\ \A other \in row.audit :
                    other.sequence = entry.sequence => other = entry

TrailInv == \A e \in Experiments : Gapless(saved[e]) /\ Gapless(rows[e])

FleetIInv == FleetTypeOK /\ PresentInv /\ TrailInv

OwnedInv ==
    /\ ClaimIsExclusive
    /\ \A a \in Agents :
          agent[a].claimed => saved[Job(a)].owner # None /\ rows[Job(a)].owner # None

-----------------------------------------------------------------------------
(* Rows and their history *)

\* The row's experiment may have been injected; and it is not any more.
PastStates == ExperimentState \ {"planned", "preflight", "injecting"}
BegunStates == PastStates \cup {"injecting"}

\* An outage would be lost from sight here.
ClosedStates == {"verifying", "passed", "cancelled", "failed"}

\* How far into a trail an entry to a state can stand.
Timely(entry) ==
    /\ entry.to = "planned" => entry.sequence = 1
    /\ entry.to = "preflight" => entry.sequence = 2
    /\ entry.to = "injecting" => entry.sequence = 3
    /\ entry.to \in TerminalStates => entry.sequence # 4
    /\ entry.to \in PastStates \ TerminalStates => entry.sequence >= 4
    /\ entry.to = "verifying" => entry.sequence >= 5

\* Nothing comes after a verdict, and an injection is begun once.
Sound(row) ==
    /\ row.state = "absent" => row.audit = {}
    /\ \A entry \in row.audit :
          /\ Timely(entry)
          /\ entry.sequence <= row.revision =>
                /\ entry.to \notin TerminalStates
                /\ entry.to \in BegunStates => row.state \in PastStates

SoundInv == \A e \in Experiments : Sound(saved[e]) /\ Sound(rows[e])

\* Successive entries are edges of the policy (see TrailFollowsPolicy).
PolicyInv == \A e \in Experiments : FollowsPolicy(saved[e]) /\ FollowsPolicy(rows[e])

\* The lock: only its holder has written anything, and what it wrote goes on
\* from the last commit.
LockInv ==
    /\ writer = None => rows = saved
    /\ \A e \in Experiments : saved[e].audit \subseteq rows[e].audit

\* A copy shows the row as it is or was, except for the copy a claimed process
\* is left with when its activation conflicts.
Shows(copy, row) == [sequence |-> copy.revision + 1, to |-> copy.state] \in row.audit

Phantom(a, e) ==
    /\ agent[a].claimed /\ Job(a) = e
    /\ agent[a].pc \in {"injection_failed", "run", "expire", "observe_during"}
    /\ seen[a][e].state = "active" /\ seen[a][e].revision = 3

CopyInv ==
    \A a \in Agents, e \in Experiments :
        seen[a][e] # Expired /\ ~At(a, "release") =>
            Shows(seen[a][e], View(a)[e]) \/ Phantom(a, e)

HistoryInv == SoundInv /\ PolicyInv /\ LockInv /\ CopyInv

-----------------------------------------------------------------------------
(* What holds whoever has the claim *)

ClaimedLabels == { "prepare", "checks", "refuse", "start_injecting", "inject",
                   "save_context", "verify_active", "activate", "injection_failed" }

States(e) == {saved[e].state, rows[e].state}

\* Only a claimed process gets to an injection; the others come with a row
\* that is past it.
Claims(a) ==
    /\ agent[a].pc \in ClaimedLabels => agent[a].claimed
    /\ At(a, "claiming") =>
          Copy(a).state \in ClaimableStates /\ Shows(Copy(a), View(a)[Job(a)])
    /\ At(a, "run") /\ ~agent[a].claimed =>
          /\ View(a)[Job(a)].state \in PastStates
          /\ Loaded(a) => Copy(a).state \in PastStates

ClaimInv == \A a \in Agents : Claims(a)

\* The same transitions.
Kept(r, s) == s.state = r.state /\ s.revision = r.revision /\ s.audit = r.audit

\* A transition that is written and not committed: at one of these labels, of
\* the experiment at hand, and the only one.
Flushed(a, e) ==
    /\ writer = a /\ Job(a) = e
    /\ rows[e].audit = saved[e].audit \cup
                         {[sequence |-> saved[e].revision + 2, to |-> rows[e].state]}
    /\ \/ /\ saved[e].state = "planned" /\ rows[e].state = "preflight"
          /\ agent[a].pc \in {"checks", "refuse", "release"}
       \/ /\ saved[e].state = "cleaning_up" /\ rows[e].state = "verifying"
          /\ At(a, "verify")

FlushInv ==
    \A e \in Experiments :
        Kept(saved[e], rows[e]) \/ \E a \in Agents : Flushed(a, e)

\* What a process gets to only after the stop, its own or an earlier one's.
Knows(a) ==
    /\ agent[a].pc \in {"save_context", "verify_active", "activate"} => stopCalls[Job(a)] # 0
    /\ agent[a].pc \in {"mark_cancelled", "restore"} /\ agent[a].owned => stopCalls[Job(a)] # 0
    /\ agent[a].pc \in {"record_attempt", "conclude"} /\ agent[a].ok => stopCalls[Job(a)] # 0

KnowInv ==
    /\ \A e \in Experiments : saved[e].context \/ rows[e].context => stopCalls[e] # 0
    /\ \A a \in Agents, e \in Experiments :
          seen[a][e] # Expired =>
              /\ seen[a][e].context => stopCalls[e] # 0
              /\ Phantom(a, e) => stopCalls[e] # 0
    /\ \A a \in Agents : Knows(a)

\* No row gets here without the stop.
EffectStates == {"active", "expired", "cancellation_requested", "verifying", "passed"}

Begun(row) == \E entry \in row.audit : entry.to = "injecting"

\* The trail of an experiment that has not been stopped.
Untouched(row) ==
    /\ \A entry \in row.audit : entry.to \notin EffectStates
    /\ row.state \in {"cancelled", "failed"} => ~Begun(row)

\* The stop follows the commit of "injecting", and comes before any effect.
EffectInv ==
    /\ \A e \in Experiments :
          IF stopCalls[e] = 0 THEN Untouched(rows[e]) ELSE Begun(saved[e])
    /\ \A a \in Agents : At(a, "inject") => Begun(saved[Job(a)])

\* Only a row read in "preflight" is refused.
CheckInv ==
    \A a \in Agents :
        agent[a].pc \in {"checks", "refuse"} /\ Loaded(a) => Copy(a).state = "preflight"

FleetTrailInv == HistoryInv /\ ClaimInv /\ FlushInv /\ KnowInv /\ EffectInv /\ CheckInv

-----------------------------------------------------------------------------
(* What holds if the claim is exclusive *)

\* Nobody who runs a claim resumes an injection.
NoResume(a) ==
    At(a, "run") /\ agent[a].claimed =>
        IF Loaded(a) THEN Copy(a).state # "injecting" ELSE "injecting" \notin States(Job(a))

StopInv ==
    /\ \A a \in Agents : NoResume(a)
    /\ \A a \in Agents : At(a, "inject") => stopCalls[Job(a)] = 0
    /\ StopOnce

\* Only who has undone the stop goes on to verify.
Undone(a) == agent[a].pc \in {"record_attempt", "conclude"} /\ agent[a].ok => outage # Job(a)

UndoInv ==
    /\ \A e \in Experiments :
          outage = e => stopCalls[e] # 0 /\ States(e) \cap ClosedStates = {}
    /\ \A a \in Agents : Undone(a)

FleetWorkInv == StopInv /\ UndoInv

=============================================================================
