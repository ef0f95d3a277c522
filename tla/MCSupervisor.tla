---------------------------- MODULE MCSupervisor ----------------------------
(* The small instances of Supervisor.tla that TLC checks: all of them give *)
(* the constants in their .cfg, with model values for the experiments.     *)
EXTENDS SupervisorInvariant

=============================================================================
