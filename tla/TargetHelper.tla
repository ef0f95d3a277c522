---------------------------- MODULE TargetHelper ----------------------------
(***************************************************************************)
(* The target host from inside: the forced-command dispatcher, the helper  *)
(* it runs through sudo, the systemctl calls the helper makes, and what    *)
(* the agent's decoder makes of the line the helper prints.  One helper    *)
(* process serves one call.  It looks at the host several times, and the   *)
(* host changes between two looks; and it runs on when its SSH client has  *)
(* been killed, as a systemd job runs on when its systemctl has.           *)
(*                                                                         *)
(* Two programs call it: a preflight run (module Preflight) and, at the    *)
(* same time, the apache-stop scenario of the supervised agent, which      *)
(* makes one call here.  HelperImplementsTarget shows that ApacheTarget,   *)
(* in which a call is one step, allows everything the call does.           *)
(***************************************************************************)
EXTENDS Naturals

CONSTANTS
    Subjects,      \* what may be unfit in the surroundings
    MaxChanges     \* how often the surroundings change by themselves (bound)

\* "helper": its version is unsupported; "marker": missing, unsafe, malformed,
\* or not that of a development web server; "identity": the marker is not that
\* of the expected target; "apache": the unit is not loaded.
ASSUME HelperConstants ==
    /\ Subjects \subseteq { "openssh_client", "ssh_files", "helper", "marker", "identity",
                            "apache", "root_space", "memory", "load", "website" }
    /\ MaxChanges \in Nat

VARIABLES
    unfit,       \* what is unfit now
    active,      \* what `systemctl is-active` answers
    jobs,        \* operations whose systemd job has outlived its systemctl
    ours,        \* history: is this the outage the scenario's stop caused?
    changes,     \* changes of the surroundings so far
    helper,      \* helper[c]: the helper process that serves c's call
    waiting,     \* the callers that wait for a reply
    evidence     \* what the scenario has got from its call

hostVars == <<unfit, active, jobs, ours, changes>>
helperVars == <<hostVars, helper, waiting, evidence>>

Callers   == {"preflight", "scenario"}
ApacheOps == {"apache-stop-preflight", "apache-stop", "apache-start"}
Operations == {"version", "identity", "preflight"} \cup ApacheOps
Looking   == {"serve", "marker", "unit", "ask", "act", "resources"}
Stages    == Looking \cup {"printed", "failed", "gone"}

Findings  == Subjects \cup {"apache"}

\* found: what the preflight service will find unfit in the reply; live: the
\* last answer of is-active; acted: is the operation's effect done?
Process == [ op : Operations \cup {"none"}, stage : Stages, found : SUBSET Findings,
             live : BOOLEAN, acted : BOOLEAN ]

Gone == [op |-> "none", stage |-> "gone", found |-> {}, live |-> FALSE, acted |-> FALSE]
Serving(op) == [Gone EXCEPT !.op = op, !.stage = "serve"]

HelperTypeOK ==
    /\ unfit \subseteq Subjects
    /\ active \in BOOLEAN
    /\ jobs \subseteq Operations \cup {"none"}
    /\ ours \in BOOLEAN
    /\ changes \in 0..MaxChanges
    /\ helper \in [Callers -> Process]
    /\ waiting \subseteq Callers
    /\ evidence \in {"none", "lost", "invalid", "active", "inactive"}

HelperInit ==
    /\ unfit \in SUBSET Subjects
    /\ active = TRUE
    /\ jobs = {} /\ ours = FALSE /\ changes = 0
    /\ helper = [c \in Callers |-> Gone]
    /\ waiting = {} /\ evidence = "none"

-----------------------------------------------------------------------------
(* The reply and its decoder *)

EnvelopeFields == {"protocol_version", "helper_version", "operation"}
MarkerFields == {"marker_schema_version", "target_id", "environment", "role",
                 "apache_service"}

\* build_response; apache_control merges the facts it has read into it.
ReplyFields(op) ==
    CASE op = "version"   -> EnvelopeFields
      [] op = "identity"  -> EnvelopeFields \cup MarkerFields
      [] op = "preflight" -> EnvelopeFields \cup MarkerFields
                                 \cup {"effective_uid", "apache", "resources"}
      [] OTHER            -> EnvelopeFields \cup MarkerFields
                                 \cup {"effective_uid", "service", "installed", "active", "changed"}

\* The fields of the response models: all required, and no other allowed.
AdmittedFields(op) ==
    CASE op = "version"   -> EnvelopeFields
      [] op = "identity"  -> EnvelopeFields \cup MarkerFields
      [] op = "preflight" -> EnvelopeFields \cup MarkerFields
                                 \cup {"effective_uid", "apache", "resources"}
      [] OTHER            -> EnvelopeFields \cup MarkerFields
                                 \cup {"effective_uid", "installed", "active", "changed"}

Decodes(op) == ReplyFields(op) = AdmittedFields(op)

-----------------------------------------------------------------------------
(* The helper *)

At(c, stage) == helper[c].stage = stage
Op(c) == helper[c].op
Printed(c) == At(c, "printed") /\ c \in waiting

Step(c, process) == helper' = [helper EXCEPT ![c] = process]
To(c, stage) == Step(c, [helper[c] EXCEPT !.stage = stage])

\* A scenario's reply is not asked whose it is: only the preflight service
\* looks at the identity and the resources.
Seen(c, subjects) ==
    IF Op(c) \in ApacheOps THEN {} ELSE helper[c].found \cup (unfit \cap subjects)

\* dispatch and main: the command is one of the closed set, run as root.
Serve(c) ==
    /\ At(c, "serve")
    /\ Step(c, [helper[c] EXCEPT !.found = Seen(c, {"helper"}),
                                 !.stage = IF Op(c) = "version" THEN "printed" ELSE "marker"])
    /\ UNCHANGED <<hostVars, waiting, evidence>>

ReadMarker(c) ==
    /\ At(c, "marker")
    /\ IF "marker" \in unfit
       THEN To(c, "failed")
       ELSE Step(c, [helper[c] EXCEPT !.found = Seen(c, {"identity"}),
                                      !.stage = IF Op(c) = "identity" THEN "printed" ELSE "unit"])
    /\ UNCHANGED <<hostVars, waiting, evidence>>

\* systemctl show: a unit that is not loaded counts as inactive.
ShowUnit(c) ==
    /\ At(c, "unit")
    /\ IF "apache" \notin unfit
       THEN To(c, "ask")
       ELSE Step(c, [helper[c] EXCEPT
                 !.live = FALSE,
                 !.found = Seen(c, {"apache"}),
                 !.stage = IF Op(c) = "preflight" THEN "resources"
                           ELSE IF helper[c].acted THEN "printed" ELSE "failed"])
    /\ UNCHANGED <<hostVars, waiting, evidence>>

\* systemctl is-active, before the action and once more after it.
AskActive(c) ==
    /\ At(c, "ask")
    /\ Step(c, [helper[c] EXCEPT
            !.live = active,
            !.found = IF Op(c) = "preflight" /\ ~active THEN @ \cup {"apache"} ELSE @,
            !.stage = IF Op(c) = "preflight" THEN "resources"
                      ELSE IF Op(c) = "apache-stop-preflight" \/ helper[c].acted THEN "printed"
                      ELSE IF Op(c) = "apache-stop" /\ ~active THEN "failed"
                      ELSE "act"])
    /\ UNCHANGED <<hostVars, waiting, evidence>>

TakesEffect(op) ==
    IF op = "apache-stop"
    THEN active' = FALSE /\ ours' = (ours \/ active)
    ELSE active' = TRUE /\ ours' = FALSE

Systemctl(c) ==
    /\ At(c, "act")
    /\ TakesEffect(Op(c))
    /\ Step(c, [helper[c] EXCEPT !.acted = TRUE, !.stage = "unit"])
    /\ UNCHANGED <<unfit, jobs, changes, waiting, evidence>>

\* Mutant: the helper tries once more.
SystemctlTimesOutRetried(c) ==
    /\ At(c, "act")
    /\ jobs' = jobs \cup {Op(c)}
    /\ UNCHANGED <<unfit, active, ours, changes, helper, waiting, evidence>>

\* After five seconds systemctl is killed; the job it asked for is not.
SystemctlTimesOut(c) ==
    /\ At(c, "act")
    /\ jobs' = jobs \cup {Op(c)}
    /\ To(c, "failed")
    /\ UNCHANGED <<unfit, active, ours, changes, waiting, evidence>>

ReadResources(c) ==
    /\ At(c, "resources")
    /\ Step(c, [helper[c] EXCEPT !.found = Seen(c, {"root_space", "memory", "load"}),
                                 !.stage = "printed"])
    /\ UNCHANGED <<hostVars, waiting, evidence>>

\* sudo refuses, a systemctl fails or times out, a file cannot be read.
HelperFails(c) ==
    /\ helper[c].stage \in Looking
    /\ To(c, "failed")
    /\ UNCHANGED <<hostVars, waiting, evidence>>

HelperStep(c) ==
    \/ Serve(c) \/ ReadMarker(c) \/ ShowUnit(c) \/ AskActive(c) \/ Systemctl(c)
    \/ SystemctlTimesOut(c) \/ ReadResources(c) \/ HelperFails(c)

\* The job is done after all, or given up by systemd.
JobLands(op) ==
    /\ op \in jobs
    /\ jobs' = jobs \ {op}
    /\ \/ TakesEffect(op) /\ helper' = [helper EXCEPT !["scenario"].acted = TRUE]
       \/ UNCHANGED <<active, ours, helper>>
    /\ UNCHANGED <<unfit, changes, waiting, evidence>>

-----------------------------------------------------------------------------
(* The scenario's call, and the surroundings *)

\* execute looks at the access files (validate_access_files) before each call.
FilesAreUnsafe == "ssh_files" \in unfit

Ask(op) ==
    /\ Op("scenario") = "none" /\ evidence = "none"
    /\ IF FilesAreUnsafe
       THEN evidence' = "lost" /\ UNCHANGED <<helper, waiting>>
       ELSE /\ Step("scenario", Serving(op))
            /\ waiting' = waiting \cup {"scenario"}
            /\ UNCHANGED evidence
    /\ UNCHANGED hostVars

Answered ==
    /\ Printed("scenario")
    /\ evidence' = IF ~Decodes(Op("scenario")) THEN "invalid"
                   ELSE IF helper["scenario"].live THEN "active" ELSE "inactive"
    /\ waiting' = waiting \ {"scenario"}
    /\ UNCHANGED <<hostVars, helper>>

\* The command timeout, a broken connection, or the helper's own failure: the
\* helper is left to itself.
CallLost ==
    /\ "scenario" \in waiting
    /\ evidence' = "lost"
    /\ waiting' = waiting \ {"scenario"}
    /\ UNCHANGED <<hostVars, helper>>

ScenarioStep == (\E op \in ApacheOps : Ask(op)) \/ Answered \/ CallLost

\* Something becomes unfit or fit again; Apache fails, or somebody starts it.
HostChanges ==
    /\ changes < MaxChanges
    /\ changes' = changes + 1
    /\ \/ /\ \E s \in Subjects : unfit' = (unfit \ {s}) \cup ({s} \ unfit)
          /\ UNCHANGED <<active, ours>>
       \/ active /\ active' = FALSE /\ UNCHANGED <<unfit, ours>>
       \/ ~active /\ active' = TRUE /\ ours' = FALSE /\ UNCHANGED unfit
    /\ UNCHANGED <<jobs, helper, waiting, evidence>>

TargetStep ==
    \/ \E c \in Callers : HelperStep(c)
    \/ \E op \in jobs : JobLands(op)
    \/ ScenarioStep
    \/ HostChanges

\* The scenario's call alone, without a preflight run beside it.
HelperSpec == HelperInit /\ [][TargetStep]_helperVars

-----------------------------------------------------------------------------
(* Properties *)

\* specs/phase-04-apache-stop.md:84: apache-stop returns evidence.  What a
\* helper prints when it exits with 0 must be understood by the agent
\* (build_response, _decode_response).
EvidenceIsAccepted == evidence # "invalid"

MayStillAct == At("scenario", "act") \/ jobs # {}
               \/ helper["scenario"].stage \in {"serve", "marker", "unit", "ask"}

Late(op) == Op("scenario") = op /\ evidence # "none"
            /\ ~helper["scenario"].acted /\ MayStillAct

Abstract == INSTANCE ApacheTarget WITH
    Experiments    <- {"scenario"},
    TargetFaults   <- TRUE,
    OutsideChanges <- TRUE,
    apacheActive   <- active,
    stoppedBy      <- IF ours THEN {"scenario"} ELSE {},
    lateStops      <- IF Late("apache-stop") THEN {"scenario"} ELSE {},
    lateStart      <- Late("apache-start"),
    stopCalls      <- [e \in {"scenario"} |->
                         IF Op(e) = "apache-stop" /\ (helper[e].acted \/ evidence # "none")
                         THEN 1 ELSE 0]

AbstractStep ==
    \/ \E verified \in BOOLEAN : Abstract!StopCall("scenario", verified)
    \/ \E verified \in BOOLEAN : Abstract!StartCall(verified)
    \/ Abstract!TargetChanges

\* Whatever the helper, systemd, the client and the host do, in whatever
\* order, is one call of ApacheTarget with an effect now, later, or never: the
\* supervisor's model of a call leaves nothing out (apache_control, execute).
HelperImplementsTarget == [][AbstractStep]_(Abstract!targetVars)

=============================================================================
