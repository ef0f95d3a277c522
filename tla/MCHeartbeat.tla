---------------------------- MODULE MCHeartbeat -----------------------------
(* The small instances of Heartbeat.tla that TLC checks. *)
EXTENDS Heartbeat

\* A wait, a tick and two writes fill the maximum age exactly.
ASSUME InstanceFits == TickFits /\ SkewIsTolerated

=============================================================================
