------------------------------- MODULE MCFleet -------------------------------
(* Small instances of Fleet for TLC. *)
EXTENDS FleetProperties, TLC

CONSTANTS a1, a2, e1

AgentSymmetry == Permutations(Agents)

=============================================================================
