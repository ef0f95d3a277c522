-------------------------- MODULE ExperimentDomain --------------------------
(***************************************************************************)
(* The lifecycle vocabulary of domain/experiment.py: the states an         *)
(* experiment row can hold and the graph validate_transition enforces.     *)
(* "absent" is not a state of the program: it stands for "no such row".    *)
(***************************************************************************)

ExperimentState ==
    { "planned", "preflight", "injecting", "active", "cancellation_requested",
      "expired", "cleaning_up", "verifying", "passed", "cancelled", "failed",
      "cleanup_failed", "operator_attention" }

TerminalStates == { "passed", "cancelled", "failed", "operator_attention" }

\* A state that has no entry in ALLOWED_TRANSITIONS has no successor.
AllowedTransitions ==
    [ s \in ExperimentState |->
        CASE s = "planned"                -> { "preflight", "cancelled" }
          [] s = "preflight"              -> { "injecting", "failed", "cancelled" }
          [] s = "injecting"              -> { "active", "cleaning_up" }
          [] s = "active"                 -> { "expired", "cancellation_requested",
                                               "cleaning_up" }
          [] s = "cancellation_requested" -> { "cleaning_up" }
          [] s = "expired"                -> { "cleaning_up" }
          [] s = "cleaning_up"            -> { "verifying", "cleanup_failed" }
          [] s = "cleanup_failed"         -> { "cleaning_up", "operator_attention" }
          [] s = "verifying"              -> { "passed", "cancelled", "failed",
                                               "operator_attention" }
          [] OTHER                        -> {} ]

\* validate_transition raises ValueError exactly when this is FALSE.
ValidTransition(current, target) == target \in AllowedTransitions[current]

=============================================================================
