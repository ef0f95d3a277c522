----------------------------- MODULE Preflight ------------------------------
(***************************************************************************)
(* PreflightService.run: eleven checks in a fixed order, made with three   *)
(* calls of the target helper and one request to the website, and the      *)
(* report about them.  The first check that fails ends the run, and the    *)
(* rest are reported as skipped.  Everything the checks ask about may      *)
(* change between any two of them.                                         *)
(***************************************************************************)
EXTENDS TargetHelper, Integers, Sequences, FiniteSetsExt

CheckNames ==
    << "configuration", "openssh_client", "ssh_files", "helper_version",
       "target_identity", "helper_preflight", "apache", "root_space", "memory",
       "load", "website" >>

VARIABLES
    at,            \* the check being made, or "start" or "done"
    checks,        \* the checks of the report so far
    facts,         \* what the preflight reply showed to be unfit
    contacts,      \* the calls and requests made, in order
    outcome,       \* of the report, or "raised" or "interrupted"
    category,      \* of the failure
    clockBehind    \* does the clock stand before started_at?

ownVars == <<at, checks, facts, contacts, outcome, category, clockBehind>>
preflightVars == <<ownVars, helperVars>>
surroundings == <<hostVars, evidence, clockBehind>>

Index(name) == CHOOSE i \in DOMAIN CheckNames : CheckNames[i] = name
Names       == {CheckNames[i] : i \in 1..11}
Remote      == {"helper_version", "target_identity", "helper_preflight"}
Categories  == {"none", "local_file", "client", "transport", "privilege", "refusal"}

PreflightTypeOK ==
    /\ HelperTypeOK
    /\ at \in Names \cup {"start", "done"}
    /\ checks \in Seq([name : Names, status : {"pass", "fail", "skip"}])
    /\ facts \subseteq Findings
    /\ contacts \in Seq(Remote \cup {"website"})
    /\ outcome \in {"none", "pass", "refused", "error", "raised", "interrupted"}
    /\ category \in Categories
    /\ clockBehind \in BOOLEAN

PreflightInit ==
    /\ HelperInit
    /\ at = "start"
    /\ checks = <<>> /\ facts = {} /\ contacts = <<>>
    /\ outcome = "none" /\ category = "none"
    /\ clockBehind = FALSE

-----------------------------------------------------------------------------
(* Reporting *)

Entries(first, last, status) ==
    [i \in 1..(last - first + 1) |-> [name |-> CheckNames[first + i - 1], status |-> status]]

\* validate_outcome of PreflightReport: a completion before the start raises.
Validated(result) == IF clockBehind THEN "raised" ELSE result

Report(result, why) ==
    /\ at' = "done"
    /\ outcome' = Validated(result)
    /\ category' = why

\* _pass for the checks up to the one before "next", and on to that one.
Pass(passed, next) ==
    /\ checks' = checks \o Entries(Index(at), Index(passed), "pass")
    /\ at' = next
    /\ UNCHANGED <<outcome, category>>

\* _failure: the checks before "name" passed, it failed, the rest are skipped.
Failure(name, result, why) ==
    /\ checks' = checks \o Entries(Index(at), Index(name) - 1, "pass")
                        \o Entries(Index(name), Index(name), "fail")
                        \o Entries(Index(name) + 1, Len(CheckNames), "skip")
    /\ Report(result, why)

\* An exception that is no failed check.
RunRaises ==
    /\ at' = "done"
    /\ outcome' = "raised"
    /\ UNCHANGED <<checks, category>>

-----------------------------------------------------------------------------
(* The checks *)

Configuration ==
    /\ at = "start"
    /\ checks' = Entries(1, 1, "pass")
    /\ at' = "openssh_client"
    /\ UNCHANGED <<facts, contacts, outcome, category, surroundings, helper, waiting>>

\* Mutant: a missing client is reported as a refusal.
CheckClientRefuses ==
    /\ at = "openssh_client"
    /\ \/ at \notin unfit /\ Pass("openssh_client", "ssh_files")
       \/ Failure("openssh_client", "refused", "client")
    /\ UNCHANGED <<facts, contacts, surroundings, helper, waiting>>

\* check_client may also fail by itself.
CheckClient ==
    /\ at = "openssh_client"
    /\ \/ at \notin unfit /\ Pass("openssh_client", "ssh_files")
       \/ Failure("openssh_client", "error", "client")
    /\ UNCHANGED <<facts, contacts, surroundings, helper, waiting>>

CheckFiles ==
    /\ at = "ssh_files"
    /\ IF FilesAreUnsafe
       THEN Failure("ssh_files", "error", "local_file")
       ELSE Pass("ssh_files", "helper_version")
    /\ UNCHANGED <<facts, contacts, surroundings, helper, waiting>>

InCall == "preflight" \in waiting
Returns == waiting' = waiting \ {"preflight"}

OperationOf ==
    [helper_version |-> "version", target_identity |-> "identity",
     helper_preflight |-> "preflight"]

\* execute looks at the files again; _remote_check does not catch its error.
Call ==
    /\ at \in Remote /\ ~InCall
    /\ IF FilesAreUnsafe
       THEN RunRaises /\ UNCHANGED <<helper, waiting, contacts>>
       ELSE /\ Step("preflight", Serving(OperationOf[at]))
            /\ waiting' = waiting \cup {"preflight"}
            /\ contacts' = Append(contacts, at)
            /\ UNCHANGED <<at, checks, outcome, category>>
    /\ UNCHANGED <<facts, surroundings>>

\* Mutant: a failed call is reported under a category of its own.
CallFailsUnnamed ==
    /\ at \in Remote /\ InCall
    /\ Returns
    /\ Failure(at, "error", "timed_out")
    /\ UNCHANGED <<facts, contacts, surroundings, helper>>

\* A transport error; only a refused sudo is a refusal.
CallFails ==
    /\ at \in Remote /\ InCall
    /\ Returns
    /\ \/ Failure(at, "refused", "privilege")
       \/ Failure(at, "error", "transport")
    /\ UNCHANGED <<facts, contacts, surroundings, helper>>

\* The reply of the helper that serves this check, decoded.
Replied(name) ==
    /\ at = name
    /\ Printed("preflight") /\ Decodes(Op("preflight"))
    /\ Returns

Reply == helper["preflight"].found

VersionReply ==
    /\ Replied("helper_version")
    /\ IF "helper" \in Reply
       THEN Failure("helper_version", "refused", "refusal")
       ELSE Pass("helper_version", "target_identity")
    /\ UNCHANGED <<facts, contacts, surroundings, helper>>

\* verify_target_identity.
IdentityRefused == Reply \cap {"helper", "identity"} # {}

\* Mutant: the report goes on after a refused identity.
IdentityReplyGoesOn ==
    /\ Replied("target_identity")
    /\ IF IdentityRefused
       THEN /\ checks' = Append(checks, [name |-> at, status |-> "fail"])
            /\ at' = "helper_preflight"
            /\ UNCHANGED <<outcome, category>>
       ELSE Pass("target_identity", "helper_preflight")
    /\ UNCHANGED <<facts, contacts, surroundings, helper>>

IdentityReply ==
    /\ Replied("target_identity")
    /\ IF IdentityRefused
       THEN Failure("target_identity", "refused", "refusal")
       ELSE Pass("target_identity", "helper_preflight")
    /\ UNCHANGED <<facts, contacts, surroundings, helper>>

\* Mutant: the identity in the preflight reply is not looked at.
FirstRefusalTrusting(reply) ==
    LET failing == {i \in DOMAIN CheckNames : i > Index("helper_preflight")
                                           /\ i < Index("website")
                                           /\ CheckNames[i] \in reply}
    IN  IF failing = {} THEN "none" ELSE CheckNames[Min(failing)]

\* The first check the preflight reply does not pass, or "none".
FirstRefusal(reply) ==
    LET failing == {i \in DOMAIN CheckNames : i > Index("helper_preflight")
                                           /\ i < Index("website")
                                           /\ CheckNames[i] \in reply}
    IN  IF reply \cap {"helper", "identity"} # {} THEN "helper_preflight"
        ELSE IF failing = {} THEN "none" ELSE CheckNames[Min(failing)]

\* Mutant: a refused identity is reported under its default name.
PreflightReplyMisnamed ==
    /\ Replied("helper_preflight")
    /\ facts' = Reply
    /\ LET refusal == FirstRefusal(Reply) IN
       IF refusal = "none"
       THEN Pass("load", "website")
       ELSE IF refusal = "helper_preflight"
       THEN /\ checks' = checks \o Entries(Index("target_identity"), Index("target_identity"), "fail")
                                \o Entries(Index("helper_preflight"), Len(CheckNames), "skip")
            /\ Report("refused", "refusal")
       ELSE Failure(refusal, "refused", "refusal")
    /\ UNCHANGED <<contacts, surroundings, helper>>

\* One reply decides the identity again, Apache and the resources.
PreflightReply ==
    /\ Replied("helper_preflight")
    /\ facts' = Reply
    /\ LET refusal == FirstRefusal(Reply) IN
       IF refusal = "none"
       THEN Pass("load", "website")
       ELSE Failure(refusal, "refused", "refusal")
    /\ UNCHANGED <<contacts, surroundings, helper>>

RequestSite ==
    /\ at = "website" /\ ~InCall
    /\ waiting' = waiting \cup {"preflight"}
    /\ contacts' = Append(contacts, at)
    /\ UNCHANGED <<at, checks, facts, outcome, category, surroundings, helper>>

SiteReply ==
    /\ at = "website" /\ InCall
    /\ Returns
    /\ IF "website" \in unfit
       THEN Failure("website", "refused", "refusal")
       ELSE /\ checks' = checks \o Entries(Index("website"), Index("website"), "pass")
            /\ Report("pass", "none")
    /\ UNCHANGED <<facts, contacts, surroundings, helper>>

SiteFails ==
    /\ at = "website" /\ InCall
    /\ Returns
    /\ Failure("website", "refused", "refusal")
    /\ UNCHANGED <<facts, contacts, surroundings, helper>>

\* The caller's cancellation reaches an await that does not classify it; the
\* helper it was waiting for runs on.
Interrupted ==
    /\ at = "openssh_client" \/ InCall
    /\ Returns
    /\ at' = "done"
    /\ outcome' = "interrupted"
    /\ UNCHANGED <<checks, facts, contacts, category, surroundings, helper>>

-----------------------------------------------------------------------------

\* The clock crosses the start of the run.
ClockSteps ==
    /\ at # "done"
    /\ changes < MaxChanges
    /\ changes' = changes + 1
    /\ clockBehind' = ~clockBehind
    /\ UNCHANGED <<at, checks, facts, contacts, outcome, category>>
    /\ UNCHANGED <<unfit, active, jobs, ours, helper, waiting, evidence>>

RunStep ==
    \/ Configuration \/ CheckClient \/ CheckFiles
    \/ Call \/ CallFails \/ VersionReply \/ IdentityReply \/ PreflightReply
    \/ RequestSite \/ SiteReply \/ SiteFails \/ Interrupted

PreflightNext ==
    \/ RunStep
    \/ ClockSteps
    \/ TargetStep /\ UNCHANGED ownVars

PreflightSpec == PreflightInit /\ [][PreflightNext]_preflightVars

-----------------------------------------------------------------------------
(* The command line *)

\* preflight_command; an interrupt is left to the command-line library.
ExitCode ==
    CASE outcome = "pass"    -> 0
      [] outcome = "refused" -> 1
      [] outcome = "error"   -> IF category = "local_file" THEN 2 ELSE 3
      [] outcome = "raised"  -> 3
      [] OTHER               -> -1

-----------------------------------------------------------------------------
(* Properties *)

Reported == outcome \in {"pass", "refused", "error"}

\* A report names every check once and in order: those before the failure
\* passed, those after it were skipped, and it is a pass exactly when none
\* failed (_pass, _failure, PreflightReport).
ReportIsComplete ==
    Reported =>
        /\ [i \in DOMAIN checks |-> checks[i].name] = CheckNames
        /\ \E k \in 1..(Len(CheckNames) + 1) :
              /\ \A i \in DOMAIN checks :
                    checks[i].status = IF i < k THEN "pass" ELSE IF i = k THEN "fail" ELSE "skip"
              /\ outcome = "pass" <=> k = Len(CheckNames) + 1

\* A pass rests on one reply of the expected target that showed everything
\* fit, and on a website request made after it, though the host behind the
\* address may change between the calls (run, _verify_identity).
PassIsEarned ==
    outcome = "pass" =>
        /\ contacts = <<"helper_version", "target_identity", "helper_preflight", "website">>
        /\ facts \cap {"helper", "identity", "apache", "root_space", "memory", "load"} = {}

\* No call and no request is made unless every check before it has passed
\* (run).
ContactsAreEarned ==
    [][ contacts' # contacts =>
            /\ \A i \in DOMAIN checks : checks[i].status = "pass"
            /\ Len(checks) = Index(contacts'[Len(contacts')]) - 1 ]_preflightVars

\* The exit status tells how far the run got: 0 after the website, 1 only on
\* something the target or the website said, 2 before any contact
\* (preflight_command).
ExitTellsHowFar ==
    /\ ExitCode = 0 => "website" \in {contacts[i] : i \in DOMAIN contacts}
    /\ ExitCode = 1 => contacts # <<>>
    /\ ExitCode = 2 => contacts = <<>>

=============================================================================
