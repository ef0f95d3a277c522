---------------------------- MODULE ApacheTarget ----------------------------
(***************************************************************************)
(* The target host as the agent can see and change it: the Apache service, *)
(* the three helper operations of the apache-stop scenario, and the SSH    *)
(* call that carries them.  A call has an effect on the host and a reply   *)
(* to the agent, and under TargetFaults the two are independent: the reply *)
(* can be lost after the effect, the call can be refused without one, and  *)
(* an operation whose SSH client was killed at the command timeout can     *)
(* still take effect later (the helper keeps running on the target).       *)
(* A reply here is one the agent accepts; that today's helper sends others *)
(* (EvidenceIsAccepted of TargetHelper) makes each a lost one.             *)
(*                                                                         *)
(* The module has no Next of its own: its operators are conjuncts of the   *)
(* supervisor's actions, which own the calls.                              *)
(***************************************************************************)
EXTENDS Naturals

CONSTANTS
    Experiments,      \* identifiers that may be scheduled
    TargetFaults,     \* may calls fail, lose their reply or act late?
    OutsideChanges    \* may Apache be stopped or started by somebody else?

ASSUME TargetSwitches == TargetFaults \in BOOLEAN /\ OutsideChanges \in BOOLEAN

VARIABLES
    apacheActive,     \* what `systemctl is-active` answers
    stoppedBy,        \* {e} while the outage caused by e's stop lasts, else {}
    lateStops,        \* experiments whose timed-out stop is still running
    lateStart,        \* is a timed-out start still running?
    stopCalls         \* history: stop calls issued per experiment (2 = two or more)

targetVars == <<apacheActive, stoppedBy, lateStops, lateStart, stopCalls>>

TargetTypeOK ==
    /\ apacheActive \in BOOLEAN
    /\ stoppedBy \subseteq Experiments
    /\ lateStops \subseteq Experiments
    /\ lateStart \in BOOLEAN
    /\ stopCalls \in [Experiments -> 0..2]

TargetInit ==
    /\ apacheActive = TRUE
    /\ stoppedBy = {}
    /\ lateStops = {}
    /\ lateStart = FALSE
    /\ stopCalls = [e \in Experiments |-> 0]

StopTakesEffect(e) == apacheActive' = FALSE /\ stoppedBy' = {e}

StartTakesEffect == apacheActive' = TRUE /\ stoppedBy' = {}

\* apache-stop: the helper refuses when Apache is inactive, and answers
\* active = FALSE, changed = TRUE after a stop it verified; the scenario raises
\* on anything else.  "verified" is what the coordinator learns.
StopCall(e, verified) ==
    /\ stopCalls' = [stopCalls EXCEPT ![e] = IF @ = 0 THEN 1 ELSE 2]
    /\ UNCHANGED lateStart
    /\ \/ /\ apacheActive
          /\ StopTakesEffect(e)
          /\ verified \/ TargetFaults
          /\ UNCHANGED lateStops
       \/ /\ ~apacheActive \/ TargetFaults
          /\ ~verified
          /\ UNCHANGED <<apacheActive, stoppedBy, lateStops>>
       \/ /\ TargetFaults
          /\ ~verified
          /\ lateStops' = lateStops \cup {e}
          /\ UNCHANGED <<apacheActive, stoppedBy>>

\* apache-start: starting an active service succeeds and changes nothing.
StartCall(verified) ==
    /\ UNCHANGED <<lateStops, stopCalls>>
    /\ \/ /\ StartTakesEffect
          /\ verified \/ TargetFaults
          /\ UNCHANGED lateStart
       \/ /\ TargetFaults
          /\ ~verified
          /\ UNCHANGED <<apacheActive, stoppedBy, lateStart>>
       \/ /\ TargetFaults
          /\ ~verified
          /\ lateStart' = TRUE
          /\ UNCHANGED <<apacheActive, stoppedBy>>

\* apache-stop-preflight, the read-only status call.
StatusReplies == {"active", "inactive", "none"}
StatusCall(reply) ==
    /\ reply = "active" => apacheActive
    /\ reply = "inactive" => ~apacheActive
    /\ reply = "none" => TargetFaults
    /\ UNCHANGED targetVars

\* The external website check.  Without faults it agrees with the service.
SiteCall(healthy) ==
    /\ TargetFaults \/ healthy = apacheActive
    /\ UNCHANGED targetVars

\* A helper orphaned by a client timeout finishes, or dies on the way.
LateStopLands(e) ==
    /\ e \in lateStops
    /\ lateStops' = lateStops \ {e}
    /\ \/ apacheActive /\ StopTakesEffect(e)
       \/ UNCHANGED <<apacheActive, stoppedBy>>
    /\ UNCHANGED <<lateStart, stopCalls>>

LateStartLands ==
    /\ lateStart
    /\ lateStart' = FALSE
    /\ \/ StartTakesEffect
       \/ UNCHANGED <<apacheActive, stoppedBy>>
    /\ UNCHANGED <<lateStops, stopCalls>>

\* An unrelated failure, and an operator or remedy agent starting Apache.
OutsideStop ==
    /\ OutsideChanges
    /\ apacheActive
    /\ apacheActive' = FALSE
    /\ UNCHANGED <<stoppedBy, lateStops, lateStart, stopCalls>>

OutsideStart ==
    /\ OutsideChanges
    /\ ~apacheActive
    /\ StartTakesEffect
    /\ UNCHANGED <<lateStops, lateStart, stopCalls>>

TargetChanges ==
    \/ \E e \in Experiments : LateStopLands(e)
    \/ LateStartLands
    \/ OutsideStop
    \/ OutsideStart

=============================================================================
