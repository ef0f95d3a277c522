---------------------------- MODULE MCPreflight -----------------------------
(* The small instances of Preflight.tla that TLC checks. *)
EXTENDS Preflight

\* One subject for each thing the checks and the helper do differently: the
\* three resources are looked at in one step and compared alike, and a missing
\* client is one of check_client's failures.
SomeSubjects == { "ssh_files", "helper", "marker", "identity", "apache", "load", "website" }

=============================================================================
