--------------------------- MODULE FleetProperties ---------------------------
(***************************************************************************)
(* What must stay true when a second supervisor process is at work.        *)
(***************************************************************************)
EXTENDS Fleet

\* However many processes there are, an experiment's stop is sent at most
\* once (supervisor.py reconcile and run_once, coordinator.py run_once and
\* _inject, repositories.py claim_next and transition).
StopOnce == \A e \in Experiments : stopCalls[e] <= 1

\* No two processes work on an experiment under a claim, also when the lease
\* of the first has run out under its hands (claim_next, release_lease).
ClaimIsExclusive ==
    \A a, b \in Agents :
        agent[a].claimed /\ agent[b].claimed /\ Job(a) = Job(b) => a = b

\* While the outage an experiment caused lasts, its row is one the agent goes
\* on to clean up, or one that asks for an operator: no interleaving of two
\* processes reports it as passed, cancelled or failed (coordinator.py
\* _inject and _cleanup against supervisor.py reconcile).
OpenStates == { "injecting", "active", "cancellation_requested", "expired",
                "cleaning_up", "cleanup_failed", "operator_attention" }

OutageIsAccounted ==
    outage # None => saved[outage].state \in OpenStates

\* The audit trail numbers the transitions 1, 2, 3, ... without a gap or a
\* number given twice, as many as the row has had revisions, and the last one
\* is to the row's state: no transition is lost to a stale copy
\* (repositories.py transition).
Sequences(row) == {entry.sequence : entry \in row.audit}

AuditIsGapless ==
    \A e \in Experiments :
        LET row == rows[e] IN
        row.state # "absent" =>
            /\ Sequences(row) = 1..(row.revision + 1)
            /\ \A entry \in row.audit :
                  /\ entry.sequence = row.revision + 1 => entry.to = row.state
                  /\ \A other \in row.audit :
                        other.sequence = entry.sequence => other = entry

\* transition() validates every edge it writes (repositories.py transition,
\* domain/experiment.py validate_transition), but the state it validates is its
\* own copy's.
PolicyIsKept ==
    \A e \in Experiments : \A earlier, later \in saved[e].audit :
        later.sequence = earlier.sequence + 1 => ValidTransition(earlier.to, later.to)

\* What a stale copy can do to a trail is one thing only: a process that lost
\* its row while it was injecting may take the fifth entry to "expired",
\* whatever the fourth was.  Any other two successive entries are an edge of
\* the policy (repositories.py transition, coordinator.py _inject and run_once).
FollowsPolicy(row) ==
    \A earlier, later \in row.audit :
        later.sequence = earlier.sequence + 1 =>
            \/ ValidTransition(earlier.to, later.to)
            \/ later.to = "expired" /\ later.sequence = 5

TrailFollowsPolicy == \A e \in Experiments : FollowsPolicy(rows[e])

\* A verdict is final: no session, whatever its copy says, moves a row that
\* is committed as passed, cancelled, failed or operator_attention, or adds to
\* its audit trail (coordinator.py _prepare, _inject, _cleanup).
VerdictKept ==
    \A e \in Experiments :
        saved[e].state \in TerminalStates =>
            /\ saved'[e].state = saved[e].state
            /\ saved'[e].audit = saved[e].audit

VerdictIsFinal == [][VerdictKept]_saved

\* Read through the committed rows and the stops sent, several processes over
\* one database do what one does, and two things more: a stop that comes after
\* the row was taken to cleanup, and a deadline recorded over a cleanup that
\* has begun.  Still no row says "active" or "passed" for a fault that was
\* never requested, or "failed" for one that was (coordinator.py run_once and
\* _inject, repositories.py transition).
Abstract == INSTANCE Lifecycle
    WITH state <- [e \in Experiments |-> saved[e].state],
         injected <- {e \in Experiments : stopCalls[e] > 0}

ImplementsSharedLifecycle == Abstract!SharedSpec

=============================================================================
