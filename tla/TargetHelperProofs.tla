------------------------- MODULE TargetHelperProofs -------------------------
(***************************************************************************)
(* The helper implements the target of ApacheTarget, for every set of      *)
(* subjects and any number of changes.                                     *)
(*                                                                         *)
(* CallInv says where the scenario's one call can be: it is about to act   *)
(* only with an operation that acts and has not acted yet, and a job       *)
(* outlives its systemctl only when the helper that asked for it has       *)
(* failed without acting.  So the effect comes at most once, and the call  *)
(* of ApacheTarget is the earlier of effect and evidence; the other one is *)
(* a stutter, or the late landing.                                         *)
(***************************************************************************)
EXTENDS TargetHelper, TLAPS

USE HelperConstants DEF HelperConstants

-----------------------------------------------------------------------------
(* Types *)

LEMMA ProcessChanges ==
  ASSUME NEW h \in Process, NEW stage \in Stages, NEW found \in SUBSET Findings,
         NEW live \in BOOLEAN
  PROVE  /\ [h EXCEPT !.stage = stage] \in Process
         /\ [h EXCEPT !.found = found, !.stage = stage] \in Process
         /\ [h EXCEPT !.acted = TRUE, !.stage = stage] \in Process
         /\ [h EXCEPT !.live = live, !.found = found, !.stage = stage] \in Process
         /\ [h EXCEPT !.acted = TRUE] \in Process
  BY DEF Process

LEMMA ProcessesStart ==
  ASSUME NEW op \in Operations PROVE Gone \in Process /\ Serving(op) \in Process
  BY DEF Process, Gone, Serving, Stages, Looking

\* What the steps of a helper make of its process.
LEMMA ProcessStep ==
  ASSUME HelperTypeOK, NEW c \in Callers, HelperStep(c)
  PROVE  \E h \in Process : Step(c, h)
<1>1. helper[c] \in Process /\ helper[c].found \in SUBSET Findings
  BY DEF HelperTypeOK, Process
<1>2. Looking \cup {"printed", "failed"} \subseteq Stages
  BY DEF Stages
<1>4. CASE Serve(c)
  <2>1. Seen(c, {"helper"}) \in SUBSET Findings
    BY <1>1 DEF Seen, HelperTypeOK, Findings
  <2> DEFINE stage == IF Op(c) = "version" THEN "printed" ELSE "marker"
  <2>2. stage \in Stages
    BY DEF Stages, Looking
  <2>3. Step(c, [helper[c] EXCEPT !.found = Seen(c, {"helper"}), !.stage = stage])
    BY <1>4 DEF Serve
  <2> HIDE DEF stage
  <2> QED
    BY <1>1, <2>1, <2>2, <2>3, ProcessChanges
<1>5. CASE ReadMarker(c)
  <2>1. Seen(c, {"identity"}) \in SUBSET Findings
    BY <1>1 DEF Seen, HelperTypeOK, Findings
  <2> DEFINE stage == IF Op(c) = "identity" THEN "printed" ELSE "unit"
  <2>2. stage \in Stages /\ "failed" \in Stages
    BY DEF Stages, Looking
  <2>3. \/ Step(c, [helper[c] EXCEPT !.stage = "failed"])
        \/ Step(c, [helper[c] EXCEPT !.found = Seen(c, {"identity"}), !.stage = stage])
    BY <1>5 DEF ReadMarker, To
  <2> HIDE DEF stage
  <2> QED
    BY <1>1, <2>1, <2>2, <2>3, ProcessChanges
<1>6. CASE ShowUnit(c)
  <2>1. Seen(c, {"apache"}) \in SUBSET Findings
    BY <1>1 DEF Seen, HelperTypeOK, Findings
  <2> DEFINE stage == IF Op(c) = "preflight" THEN "resources"
                      ELSE IF helper[c].acted THEN "printed" ELSE "failed"
  <2>2. stage \in Stages /\ "ask" \in Stages
    BY DEF Stages, Looking
  <2>3. \/ Step(c, [helper[c] EXCEPT !.stage = "ask"])
        \/ Step(c, [helper[c] EXCEPT !.live = FALSE, !.found = Seen(c, {"apache"}),
                                     !.stage = stage])
    BY <1>6 DEF ShowUnit, To
  <2> HIDE DEF stage
  <2> QED
    BY <1>1, <2>1, <2>2, <2>3, ProcessChanges
<1>7. CASE AskActive(c)
  <2> DEFINE found == IF Op(c) = "preflight" /\ ~active
                      THEN helper[c].found \cup {"apache"} ELSE helper[c].found
             stage == IF Op(c) = "preflight" THEN "resources"
                      ELSE IF Op(c) = "apache-stop-preflight" \/ helper[c].acted THEN "printed"
                      ELSE IF Op(c) = "apache-stop" /\ ~active THEN "failed"
                      ELSE "act"
  <2>1. active \in BOOLEAN
    BY DEF HelperTypeOK
  <2>2. stage \in Stages
    BY DEF Stages, Looking
  <2>3. Step(c, [helper[c] EXCEPT !.live = active, !.found = found, !.stage = stage])
    BY <1>1, <1>7 DEF AskActive, Process
  <2>4. found \in SUBSET Findings
    BY <1>1 DEF Findings
  <2> HIDE DEF stage, found
  <2> QED
    BY <1>1, <2>1, <2>2, <2>3, <2>4, ProcessChanges
<1>8. CASE Systemctl(c)
  BY <1>1, <1>8, ProcessChanges DEF Systemctl, Stages, Looking
<1>9. CASE SystemctlTimesOut(c)
  BY <1>1, <1>9, ProcessChanges DEF SystemctlTimesOut, To, Stages
<1>10. CASE ReadResources(c)
  <2>1. Seen(c, {"root_space", "memory", "load"}) \in SUBSET Findings
    BY <1>1 DEF Seen, HelperTypeOK, Findings
  <2> QED
    BY <1>1, <1>10, <2>1, ProcessChanges DEF ReadResources, Stages
<1>11. CASE HelperFails(c)
  BY <1>1, <1>11, ProcessChanges DEF HelperFails, To, Stages
<1> QED
  BY <1>4, <1>5, <1>6, <1>7, <1>8, <1>9, <1>10, <1>11 DEF HelperStep

LEMMA StepTyped ==
  ASSUME HelperTypeOK, NEW c \in Callers, NEW h \in Process, Step(c, h)
  PROVE  helper' \in [Callers -> Process]
  BY DEF HelperTypeOK, Step

\* The steps of the helpers, the scenario and the host.
LEMMA HelperTypeStep == HelperTypeOK /\ TargetStep => HelperTypeOK'
<1> SUFFICES ASSUME HelperTypeOK, TargetStep PROVE HelperTypeOK'
  OBVIOUS
<1>1. ASSUME NEW c \in Callers, HelperStep(c) PROVE HelperTypeOK'
  <2>1. helper' \in [Callers -> Process]
    BY <1>1, ProcessStep, StepTyped
  <2>2. Op(c) \in Operations \cup {"none"}
    BY DEF HelperTypeOK, Process, Op
  <2>3. /\ unfit' = unfit /\ changes' = changes
        /\ waiting' = waiting /\ evidence' = evidence
        /\ active' \in BOOLEAN /\ ours' \in BOOLEAN
        /\ jobs' \in {jobs, jobs \cup {Op(c)}}
    BY <1>1 DEF HelperStep, Serve, ReadMarker, ShowUnit, AskActive, Systemctl,
                SystemctlTimesOut, ReadResources, HelperFails, TakesEffect, hostVars,
                HelperTypeOK
  <2> QED
    BY <2>1, <2>2, <2>3 DEF HelperTypeOK
<1>2. ASSUME NEW op \in jobs, JobLands(op) PROVE HelperTypeOK'
  <2>1. helper' \in [Callers -> Process]
    <3>1. helper["scenario"] \in Process
      BY DEF HelperTypeOK, Callers
    <3>2. [helper["scenario"] EXCEPT !.acted = TRUE] \in Process
      BY <3>1 DEF Process
    <3> QED
      BY <1>2, <3>2 DEF JobLands, HelperTypeOK
  <2> QED
    BY <1>2, <2>1 DEF JobLands, TakesEffect, HelperTypeOK
<1>3. ASSUME NEW op \in ApacheOps, Ask(op) PROVE HelperTypeOK'
  <2>1. helper' \in [Callers -> Process]
    <3>1. Serving(op) \in Process
      BY ProcessesStart DEF Operations
    <3> QED
      BY <1>3, <3>1 DEF Ask, Step, HelperTypeOK
  <2> QED
    BY <1>3, <2>1 DEF Ask, HelperTypeOK, Callers, hostVars
<1>4. CASE Answered
  BY <1>4 DEF Answered, HelperTypeOK, hostVars
<1>5. CASE CallLost
  BY <1>5 DEF CallLost, HelperTypeOK, hostVars
<1>6. CASE HostChanges
  <2>1. unfit' \subseteq Subjects
    <3>1. unfit' = unfit \/ \E s \in Subjects : unfit' = (unfit \ {s}) \cup ({s} \ unfit)
      BY <1>6 DEF HostChanges
    <3>2. ASSUME NEW s \in Subjects, unfit' = (unfit \ {s}) \cup ({s} \ unfit)
          PROVE  unfit' \subseteq Subjects
      BY <3>2 DEF HelperTypeOK
    <3>3. unfit \subseteq Subjects
      BY DEF HelperTypeOK
    <3> QED
      BY <3>1, <3>2, <3>3
  <2>2. changes' \in 0..MaxChanges
    BY <1>6 DEF HostChanges, HelperTypeOK
  <2>3. active' \in BOOLEAN /\ ours' \in BOOLEAN
    BY <1>6 DEF HostChanges, HelperTypeOK
  <2> QED
    BY <1>6, <2>1, <2>2, <2>3 DEF HostChanges, HelperTypeOK
<1> QED
  BY <1>1, <1>2, <1>3, <1>4, <1>5, <1>6 DEF TargetStep, ScenarioStep

LEMMA HelperTypeInit == HelperInit => HelperTypeOK
<1> SUFFICES ASSUME HelperInit PROVE HelperTypeOK
  OBVIOUS
<1>1. Gone \in Process
  BY ProcessesStart DEF Operations
<1>2. helper \in [Callers -> Process]
  BY <1>1 DEF HelperInit
<1>3. unfit \subseteq Subjects /\ changes \in 0..MaxChanges
  BY DEF HelperInit
<1>4. active \in BOOLEAN /\ ours \in BOOLEAN
  BY DEF HelperInit
<1> QED
  BY <1>2, <1>3, <1>4 DEF HelperInit, HelperTypeOK

-----------------------------------------------------------------------------
(* Where the scenario's call can be *)

Acting == {"apache-stop", "apache-start"}
Running == {"serve", "marker", "unit", "ask", "act"}

\* The preflight run's helper never acts.
ReaderInv ==
    /\ Op("preflight") \in {"version", "identity", "preflight", "none"}
    /\ Op("preflight") = "none" => At("preflight", "gone")
    /\ At("preflight", "marker") => Op("preflight") # "version"
    /\ At("preflight", "unit") \/ At("preflight", "ask") => Op("preflight") = "preflight"
    /\ ~At("preflight", "act")

ActorInv ==
    /\ Op("scenario") \in ApacheOps \cup {"none"}
    /\ Op("scenario") = "none" => At("scenario", "gone") /\ ~helper["scenario"].acted
    /\ At("scenario", "act") => Op("scenario") \in Acting /\ ~helper["scenario"].acted

JobsInv ==
    /\ jobs \subseteq {Op("scenario")}
    /\ jobs # {} => /\ Op("scenario") \in Acting
                   /\ At("scenario", "failed")
                   /\ ~helper["scenario"].acted

WaitInv == "scenario" \in waiting <=> evidence = "none" /\ Op("scenario") # "none"

CallInv == ReaderInv /\ ActorInv /\ JobsInv /\ WaitInv

HelperIInv == HelperTypeOK /\ CallInv

Acted == helper["scenario"].acted
Stage == helper["scenario"].stage

LEMMA CallInvInit == HelperInit => CallInv
  BY DEF HelperInit, CallInv, ReaderInv, ActorInv, JobsInv, WaitInv, Gone, Callers, At, Op,
         ApacheOps

LEMMA OneHelperSteps ==
  ASSUME HelperTypeOK, NEW c \in Callers, NEW h, Step(c, h)
  PROVE  helper'[c] = h /\ \A d \in Callers \ {c} : helper'[d] = helper[d]
  BY DEF HelperTypeOK, Step

\* What a helper's step makes of the operation, the stage and the effect.
Moves(c, from, to) == At(c, from) /\ helper'[c].stage \in to

LEMMA HelperMoves ==
  ASSUME HelperTypeOK, NEW c \in Callers, HelperStep(c)
  PROVE  /\ Op(c)' = Op(c)
         /\ \A d \in Callers \ {c} : helper'[d] = helper[d]
         /\ UNCHANGED <<unfit, changes, waiting, evidence>>
         /\ \/ /\ At(c, "act") /\ Moves(c, "act", {"unit"})
               /\ TakesEffect(Op(c)) /\ helper'[c].acted /\ jobs' = jobs
            \/ /\ Moves(c, "act", {"failed"})
               /\ jobs' = jobs \cup {Op(c)} /\ UNCHANGED <<active, ours>>
               /\ helper'[c].acted = helper[c].acted
            \/ /\ UNCHANGED <<active, ours, jobs>>
               /\ helper'[c].acted = helper[c].acted
               /\ \/ Moves(c, "serve", IF Op(c) = "version" THEN {"printed"} ELSE {"marker"})
                  \/ Moves(c, "marker", IF Op(c) = "identity" THEN {"printed", "failed"}
                                        ELSE {"unit", "failed"})
                  \/ Moves(c, "unit", IF Op(c) = "preflight" THEN {"ask", "resources"}
                                      ELSE {"ask", "printed", "failed"})
                  \/ Moves(c, "ask", IF Op(c) = "preflight" THEN {"resources"}
                                     ELSE IF Op(c) = "apache-stop-preflight" \/ helper[c].acted
                                     THEN {"printed"}
                                     ELSE {"act", "failed"})
                  \/ Moves(c, "resources", {"printed"})
                  \/ helper[c].stage \in Looking /\ helper'[c].stage = "failed"
<1>1. helper[c] \in Process
  BY DEF HelperTypeOK
<1>2. \A h : Step(c, h) => helper'[c] = h /\ \A d \in Callers \ {c} : helper'[d] = helper[d]
  BY OneHelperSteps
<1>3. CASE Serve(c)
  <2>1. Step(c, [helper[c] EXCEPT !.found = Seen(c, {"helper"}),
                                   !.stage = IF Op(c) = "version" THEN "printed" ELSE "marker"])
    BY <1>3 DEF Serve, To
  <2>2. helper'[c] = [helper[c] EXCEPT !.found = Seen(c, {"helper"}),
                                   !.stage = IF Op(c) = "version" THEN "printed" ELSE "marker"]
    BY <1>2, <2>1
  <2>3. /\ helper'[c].op = helper[c].op /\ helper'[c].acted = helper[c].acted
        /\ helper'[c].stage = IF Op(c) = "version" THEN "printed" ELSE "marker"
    BY <1>1, <2>2 DEF Process
  <2> QED
    BY <1>2, <1>3, <2>1, <2>3 DEF Serve, Op, At, Moves, hostVars
<1>4. CASE ReadMarker(c)
  <2> DEFINE stage == IF Op(c) = "identity" THEN "printed" ELSE "unit"
  <2>1. \/ Step(c, [helper[c] EXCEPT !.stage = "failed"])
        \/ Step(c, [helper[c] EXCEPT !.found = Seen(c, {"identity"}), !.stage = stage])
    BY <1>4 DEF ReadMarker, To
  <2>4. \/ helper'[c] = [helper[c] EXCEPT !.stage = "failed"]
        \/ helper'[c] = [helper[c] EXCEPT !.found = Seen(c, {"identity"}), !.stage = stage]
    BY <1>2, <2>1
  <2>2. /\ helper'[c].op = helper[c].op /\ helper'[c].acted = helper[c].acted
        /\ helper'[c].stage \in {"failed", stage}
    BY <1>1, <2>4 DEF Process
  <2> QED
    BY <1>2, <1>4, <2>1, <2>2 DEF ReadMarker, Op, At, Moves, hostVars
<1>5. CASE ShowUnit(c)
  <2> DEFINE stage == IF Op(c) = "preflight" THEN "resources"
                      ELSE IF helper[c].acted THEN "printed" ELSE "failed"
  <2>1. \/ Step(c, [helper[c] EXCEPT !.stage = "ask"])
        \/ Step(c, [helper[c] EXCEPT !.live = FALSE, !.found = Seen(c, {"apache"}),
                                     !.stage = stage])
    BY <1>5 DEF ShowUnit, To
  <2>4. \/ helper'[c] = [helper[c] EXCEPT !.stage = "ask"]
        \/ helper'[c] = [helper[c] EXCEPT !.live = FALSE, !.found = Seen(c, {"apache"}),
                                         !.stage = stage]
    BY <1>2, <2>1
  <2>2. /\ helper'[c].op = helper[c].op /\ helper'[c].acted = helper[c].acted
        /\ helper'[c].stage \in {"ask", stage}
    BY <1>1, <2>4 DEF Process
  <2> QED
    BY <1>2, <1>5, <2>1, <2>2 DEF ShowUnit, Op, At, Moves, hostVars
<1>6. CASE AskActive(c)
  <2> DEFINE found == IF Op(c) = "preflight" /\ ~active
                      THEN helper[c].found \cup {"apache"} ELSE helper[c].found
             stage == IF Op(c) = "preflight" THEN "resources"
                      ELSE IF Op(c) = "apache-stop-preflight" \/ helper[c].acted THEN "printed"
                      ELSE IF Op(c) = "apache-stop" /\ ~active THEN "failed"
                      ELSE "act"
  <2>1. Step(c, [helper[c] EXCEPT !.live = active, !.found = found, !.stage = stage])
    BY <1>1, <1>6 DEF AskActive, Process
  <2>2. /\ helper'[c].op = helper[c].op /\ helper'[c].acted = helper[c].acted
        /\ helper'[c].stage = stage
    <3> HIDE DEF found, stage
    <3>1. helper'[c] = [helper[c] EXCEPT !.live = active, !.found = found, !.stage = stage]
      BY <1>2, <2>1
    <3> QED
      BY <1>1, <3>1 DEF Process
  <2>3. /\ Op(c)' = Op(c) /\ At(c, "ask")
        /\ \A d \in Callers \ {c} : helper'[d] = helper[d]
        /\ UNCHANGED <<hostVars, waiting, evidence>>
    BY <1>2, <1>6, <2>1, <2>2 DEF AskActive, Op, At
  <2>4. stage \in IF Op(c) = "preflight" THEN {"resources"}
                  ELSE IF Op(c) = "apache-stop-preflight" \/ helper[c].acted THEN {"printed"}
                  ELSE {"act", "failed"}
    OBVIOUS
  <2> HIDE DEF stage
  <2> QED
    BY <2>2, <2>3, <2>4 DEF At, Moves, hostVars
<1>7. CASE Systemctl(c)
  <2>1. Step(c, [helper[c] EXCEPT !.acted = TRUE, !.stage = "unit"])
    BY <1>7 DEF Systemctl
  <2>3. helper'[c] = [helper[c] EXCEPT !.acted = TRUE, !.stage = "unit"]
    BY <1>2, <2>1
  <2>2. helper'[c].op = helper[c].op /\ helper'[c].acted /\ helper'[c].stage = "unit"
    BY <1>1, <2>3 DEF Process
  <2> QED
    BY <1>2, <1>7, <2>1, <2>2 DEF Systemctl, Op, At, Moves
<1>8. CASE SystemctlTimesOut(c)
  BY <1>1, <1>2, <1>8 DEF SystemctlTimesOut, To, Process, Op, At, Moves
<1>9. CASE ReadResources(c)
  <2> DEFINE found == Seen(c, {"root_space", "memory", "load"})
  <2>1. Step(c, [helper[c] EXCEPT !.found = found, !.stage = "printed"])
    BY <1>9 DEF ReadResources
  <2>2. /\ helper'[c].op = helper[c].op /\ helper'[c].acted = helper[c].acted
        /\ helper'[c].stage = "printed"
    <3> HIDE DEF found
    <3>1. helper'[c] = [helper[c] EXCEPT !.found = found, !.stage = "printed"]
      BY <1>2, <2>1
    <3> QED
      BY <1>1, <3>1 DEF Process
  <2> QED
    BY <1>2, <1>9, <2>1, <2>2 DEF ReadResources, Op, At, Moves, hostVars
<1>10. CASE HelperFails(c)
  BY <1>1, <1>2, <1>10 DEF HelperFails, To, Process, Op, At, Moves, hostVars
<1> QED
  BY <1>3, <1>4, <1>5, <1>6, <1>7, <1>8, <1>9, <1>10 DEF HelperStep

LEMMA ReaderStep ==
  ASSUME HelperTypeOK, ReaderInv, HelperStep("preflight")
  PROVE  /\ ReaderInv'
         /\ UNCHANGED <<helper["scenario"], active, ours, jobs, waiting, evidence>>
<1>1. "preflight" \in Callers /\ "scenario" \in Callers \ {"preflight"}
  BY DEF Callers
<1>2. ~At("preflight", "act")
  BY DEF ReaderInv
<1> QED
  BY <1>1, <1>2, HelperMoves DEF ReaderInv, At, Op, Moves, Looking

LEMMA OthersStep ==
  ASSUME CallInv, ReaderInv', helper'["scenario"] = helper["scenario"],
         UNCHANGED <<jobs, evidence>>,
         "scenario" \in waiting' <=> "scenario" \in waiting
  PROVE  CallInv'
  BY DEF CallInv, ActorInv, JobsInv, WaitInv, Op, At

LEMMA ActorStep ==
  ASSUME HelperTypeOK, CallInv, HelperStep("scenario") PROVE CallInv'
<1>1. "scenario" \in Callers /\ "preflight" \in Callers \ {"scenario"}
  BY DEF Callers
<1>2. jobs = {}
  BY <1>1, HelperMoves DEF CallInv, JobsInv, At, Looking, Moves
<1>3. ReaderInv'
  BY <1>1, HelperMoves DEF CallInv, ReaderInv, At, Op
<1>4. ActorInv'
  BY <1>1, HelperMoves DEF CallInv, ActorInv, At, Op, Moves, ApacheOps, Acting, Looking
<1>5. JobsInv'
  BY <1>1, <1>2, HelperMoves DEF CallInv, JobsInv, ActorInv, At, Op, Moves, Acting
<1>6. WaitInv'
  BY <1>1, HelperMoves DEF CallInv, WaitInv, Op
<1> QED
  BY <1>3, <1>4, <1>5, <1>6 DEF CallInv

LEMMA JobStep ==
  ASSUME HelperTypeOK, CallInv, NEW op \in jobs, JobLands(op)
  PROVE  /\ CallInv' /\ op = Op("scenario") /\ jobs = {op} /\ jobs' = {}
         /\ Op("scenario")' = Op("scenario")
         /\ helper'["scenario"].stage = helper["scenario"].stage
         /\ UNCHANGED evidence
         /\ \/ TakesEffect(op) /\ helper'["scenario"].acted
            \/ UNCHANGED <<active, ours>> /\ helper'["scenario"].acted = helper["scenario"].acted
<1>1. op = Op("scenario") /\ jobs = {op} /\ jobs' = {}
  BY DEF CallInv, JobsInv, JobLands
<1>2. helper["scenario"] \in Process
  BY DEF HelperTypeOK, Callers
<1>3. \/ /\ TakesEffect(op)
         /\ helper'["scenario"] = [helper["scenario"] EXCEPT !.acted = TRUE]
      \/ UNCHANGED <<active, ours>> /\ helper'["scenario"] = helper["scenario"]
  BY DEF JobLands, HelperTypeOK, Callers
<1>4. /\ helper'["scenario"].op = helper["scenario"].op
      /\ helper'["scenario"].stage = helper["scenario"].stage
      /\ helper'["preflight"] = helper["preflight"]
  <2>1. helper'["preflight"] = helper["preflight"]
    BY DEF JobLands, HelperTypeOK, Callers
  <2> QED
    BY <1>2, <1>3, <2>1 DEF Process
<1>5. \/ TakesEffect(op) /\ helper'["scenario"].acted
      \/ UNCHANGED <<active, ours>> /\ helper'["scenario"].acted = helper["scenario"].acted
  BY <1>2, <1>3 DEF Process
<1>6. UNCHANGED <<waiting, evidence>>
  BY DEF JobLands
<1>7. ReaderInv' /\ ActorInv'
  BY <1>1, <1>4 DEF CallInv, ReaderInv, ActorInv, JobsInv, At, Op, Acting, ApacheOps
<1>8. JobsInv' /\ WaitInv'
  BY <1>1, <1>4, <1>6 DEF CallInv, JobsInv, WaitInv, Op
<1> QED
  BY <1>1, <1>4, <1>5, <1>6, <1>7, <1>8 DEF CallInv, Op

LEMMA ScenarioKeeps ==
  ASSUME HelperTypeOK, CallInv, ScenarioStep PROVE CallInv'
<1>1. ASSUME NEW op \in ApacheOps, Ask(op) PROVE CallInv'
  <2>1. CASE FilesAreUnsafe
    BY <1>1, <2>1 DEF Ask, CallInv, ReaderInv, ActorInv, JobsInv, WaitInv, Op, At, hostVars
  <2>2. CASE ~FilesAreUnsafe
    <3>1. /\ helper'["scenario"] = Serving(op) /\ helper'["preflight"] = helper["preflight"]
          /\ Op("scenario") = "none" /\ evidence = "none" /\ UNCHANGED <<jobs, evidence>>
          /\ waiting' = waiting \cup {"scenario"}
      BY <1>1, <2>2, OneHelperSteps DEF Ask, Callers, hostVars
    <3>2. Serving(op).op = op /\ Serving(op).stage = "serve" /\ ~Serving(op).acted
      BY DEF Serving, Gone
    <3>3. jobs = {}
      BY <3>1 DEF CallInv, JobsInv, Acting
    <3> QED
      BY <3>1, <3>2, <3>3 DEF CallInv, ReaderInv, ActorInv, JobsInv, WaitInv, Op, At, ApacheOps
  <2> QED
    BY <2>1, <2>2
<1>2. CASE Answered \/ CallLost
  BY <1>2 DEF Answered, CallLost, Printed, CallInv, ReaderInv, ActorInv, JobsInv, WaitInv,
              Op, At, hostVars
<1> QED
  BY <1>1, <1>2 DEF ScenarioStep

LEMMA CallInvStep == HelperIInv /\ TargetStep => CallInv'
<1> SUFFICES ASSUME HelperTypeOK, CallInv, TargetStep PROVE CallInv'
  BY DEF HelperIInv
<1>1. CASE HelperStep("preflight")
  BY <1>1, ReaderStep, OthersStep DEF CallInv
<1>2. CASE HelperStep("scenario")
  BY <1>2, ActorStep
<1>3. ASSUME NEW op \in jobs, JobLands(op) PROVE CallInv'
  BY <1>3, JobStep
<1>4. CASE ScenarioStep
  BY <1>4, ScenarioKeeps
<1>5. CASE HostChanges
  BY <1>5, OthersStep DEF HostChanges, CallInv, ReaderInv, Op, At
<1> QED
  BY <1>1, <1>2, <1>3, <1>4, <1>5 DEF TargetStep, Callers

-----------------------------------------------------------------------------
(* The calls of ApacheTarget *)

\* The values that the refinement mapping gives the abstract variables.
Calls == IF Op("scenario") = "apache-stop"
            /\ (helper["scenario"].acted \/ evidence # "none")
         THEN 1 ELSE 0
StoppedBy == IF ours THEN {"scenario"} ELSE {}
LateStops == IF Late("apache-stop") THEN {"scenario"} ELSE {}
Counted == [e \in {"scenario"} |->
              IF Op(e) = "apache-stop" /\ (helper[e].acted \/ evidence # "none")
              THEN 1 ELSE 0]

LEMMA CountedIsCalls ==
  /\ Counted = [e \in {"scenario"} |-> Calls]
  /\ Counted' = [e \in {"scenario"} |-> Calls']
  BY DEF Counted, Calls

LEMMA LateIsBoolean ==
  ASSUME NEW op PROVE Late(op) \in BOOLEAN /\ Late(op)' \in BOOLEAN
  BY DEF Late

\* What a stop does to an inactive and to an active service.
LEMMA StopEffect ==
  ASSUME active \in BOOLEAN, ours \in BOOLEAN, TakesEffect("apache-stop")
  PROVE  \/ active /\ active' = FALSE /\ StoppedBy' = {"scenario"}
         \/ ~active /\ active' = active /\ StoppedBy' = StoppedBy
<1>1. active' = FALSE /\ (ours' <=> ours \/ active)
  BY DEF TakesEffect
<1> QED
  BY <1>1 DEF StoppedBy

LEMMA Unseen ==
  ASSUME UNCHANGED <<active, ours>>, Calls' = Calls,
         Late("apache-stop")' = Late("apache-stop"),
         Late("apache-start")' = Late("apache-start")
  PROVE  UNCHANGED Abstract!targetVars
<1>1. Counted' = Counted
  BY CountedIsCalls
<1> QED
  BY <1>1 DEF Abstract!targetVars, Counted

\* The call comes with its effect, without one, or with one to come.
LEMMA StopIsCalled ==
  ASSUME Calls = 0, Calls' = 1, active \in BOOLEAN, ours \in BOOLEAN,
         Late("apache-start")' = Late("apache-start"), ~Late("apache-stop"),
         \/ TakesEffect("apache-stop") /\ ~Late("apache-stop")'
         \/ UNCHANGED <<active, ours>>
  PROVE  Abstract!StopCall("scenario", FALSE)
<1>1. Counted' = [Counted EXCEPT !["scenario"] = IF @ = 0 THEN 1 ELSE 2]
  BY CountedIsCalls
<1>2. LateStops = {} /\ LateStops' \in {{}, {"scenario"}}
  BY DEF LateStops
<1>3. CASE TakesEffect("apache-stop") /\ ~Late("apache-stop")' /\ active
  <2>1. active' = FALSE /\ StoppedBy' = {"scenario"} /\ LateStops' = LateStops
    BY <1>2, <1>3, StopEffect DEF LateStops
  <2> QED
    BY <1>1, <1>3, <2>1
       DEF Abstract!StopCall, Abstract!StopTakesEffect, StoppedBy, LateStops, Counted
<1>4. CASE UNCHANGED <<active, ours>> \/ (TakesEffect("apache-stop") /\ ~active)
  <2>1. active' = active /\ StoppedBy' = StoppedBy
    <3>1. CASE UNCHANGED <<active, ours>>
      BY <3>1 DEF StoppedBy
    <3>2. CASE TakesEffect("apache-stop") /\ ~active
      BY <3>2, StopEffect
    <3> QED
      BY <1>4, <3>1, <3>2
  <2>2. LateStops' = LateStops \/ LateStops' = LateStops \cup {"scenario"}
    BY <1>2
  <2> QED
    BY <1>1, <2>1, <2>2 DEF Abstract!StopCall, StoppedBy, LateStops, Counted
<1> QED
  BY <1>3, <1>4

LEMMA StartIsCalled ==
  ASSUME Calls' = Calls, ~Late("apache-stop"), ~Late("apache-stop")', ~Late("apache-start"),
         \/ TakesEffect("apache-start") /\ ~Late("apache-start")'
         \/ UNCHANGED <<active, ours>>
  PROVE  Abstract!StartCall(FALSE)
<1>1. Counted' = Counted /\ LateStops' = LateStops
  BY CountedIsCalls DEF LateStops
<1>2. CASE TakesEffect("apache-start") /\ ~Late("apache-start")'
  <2>1. active' = TRUE /\ StoppedBy' = {}
    BY <1>2 DEF TakesEffect, StoppedBy
  <2>2. Late("apache-start")' = Late("apache-start")
    BY <1>2, LateIsBoolean
  <2> QED
    BY <1>1, <2>1, <2>2
       DEF Abstract!StartCall, Abstract!StartTakesEffect, StoppedBy, LateStops, Counted
<1>3. CASE UNCHANGED <<active, ours>>
  <2>1. Late("apache-start")' = Late("apache-start") \/ Late("apache-start")' = TRUE
    BY LateIsBoolean
  <2> QED
    BY <1>1, <1>3, <2>1 DEF Abstract!StartCall, StoppedBy, LateStops, Counted
<1> QED
  BY <1>2, <1>3

LEMMA StopLands ==
  ASSUME Calls' = Calls, Late("apache-stop"), ~Late("apache-stop")',
         active \in BOOLEAN, ours \in BOOLEAN,
         ~Late("apache-start"), ~Late("apache-start")',
         TakesEffect("apache-stop") \/ UNCHANGED <<active, ours>>
  PROVE  Abstract!LateStopLands("scenario")
<1>1. Counted' = Counted
  BY CountedIsCalls
<1>2. LateStops = {"scenario"} /\ LateStops' = {}
  BY DEF LateStops
<1>3. \/ active /\ active' = FALSE /\ StoppedBy' = {"scenario"}
      \/ active' = active /\ StoppedBy' = StoppedBy
  <2>1. CASE UNCHANGED <<active, ours>>
    BY <2>1 DEF StoppedBy
  <2>2. CASE TakesEffect("apache-stop")
    BY <2>2, StopEffect
  <2> QED
    BY <2>1, <2>2
<1>4. Late("apache-start")' = Late("apache-start")
  BY LateIsBoolean
<1> QED
  BY <1>1, <1>2, <1>3, <1>4
     DEF Abstract!LateStopLands, Abstract!StopTakesEffect, StoppedBy, LateStops, Counted

LEMMA StartLands ==
  ASSUME Calls' = Calls, Late("apache-start"), ~Late("apache-start")',
         ~Late("apache-stop"), ~Late("apache-stop")',
         TakesEffect("apache-start") \/ UNCHANGED <<active, ours>>
  PROVE  Abstract!LateStartLands
<1>1. Counted' = Counted /\ LateStops' = LateStops
  BY CountedIsCalls DEF LateStops
<1>2. \/ active' = TRUE /\ StoppedBy' = {}
      \/ active' = active /\ StoppedBy' = StoppedBy
  BY DEF TakesEffect, StoppedBy
<1>3. Late("apache-start") = TRUE /\ Late("apache-start")' = FALSE
  BY LateIsBoolean
<1> QED
  BY <1>1, <1>2, <1>3
     DEF Abstract!LateStartLands, Abstract!StartTakesEffect, StoppedBy, LateStops, Counted

\* The effect comes at most once: with the call, or late if the evidence came
\* first.
LEMMA EffectRefines ==
  ASSUME active \in BOOLEAN, ours \in BOOLEAN,
         Op("scenario") \in Acting, Op("scenario")' = Op("scenario"), UNCHANGED evidence,
         ~helper["scenario"].acted, helper'["scenario"].acted, MayStillAct,
         TakesEffect(Op("scenario"))
  PROVE  AbstractStep
<1>1. CASE Op("scenario") = "apache-stop"
  <2>1. ~Late("apache-start") /\ ~Late("apache-start")' /\ ~Late("apache-stop")'
    BY <1>1 DEF Late
  <2>2. CASE evidence = "none"
    <3>1. Calls = 0 /\ Calls' = 1 /\ ~Late("apache-stop")
      BY <1>1, <2>2 DEF Calls, Late, Op
    <3>2. Abstract!StopCall("scenario", FALSE)
      BY <1>1, <2>1, <3>1, StopIsCalled, LateIsBoolean
    <3> QED
      BY <3>2 DEF AbstractStep
  <2>3. CASE evidence # "none"
    <3>1. Calls' = Calls /\ Late("apache-stop")
      BY <1>1, <2>3 DEF Calls, Late, Op
    <3>2. Abstract!LateStopLands("scenario")
      BY <1>1, <2>1, <3>1, StopLands
    <3> QED
      BY <3>2 DEF AbstractStep, Abstract!TargetChanges
  <2> QED
    BY <2>2, <2>3
<1>2. CASE Op("scenario") = "apache-start"
  <2>1. /\ ~Late("apache-stop") /\ ~Late("apache-stop")' /\ ~Late("apache-start")'
        /\ Calls' = Calls
    BY <1>2 DEF Late, Calls, Op
  <2>2. CASE evidence = "none"
    <3>1. ~Late("apache-start")
      BY <2>2 DEF Late
    <3>2. Abstract!StartCall(FALSE)
      BY <1>2, <2>1, <3>1, StartIsCalled
    <3> QED
      BY <3>2 DEF AbstractStep
  <2>3. CASE evidence # "none"
    <3>1. Late("apache-start")
      BY <1>2, <2>3 DEF Late
    <3>2. Abstract!LateStartLands
      BY <1>2, <2>1, <3>1, StartLands
    <3> QED
      BY <3>2 DEF AbstractStep, Abstract!TargetChanges
  <2> QED
    BY <2>2, <2>3
<1> QED
  BY <1>1, <1>2 DEF Acting

\* Without an effect, all that can be seen is that a late one will not come.
LEMMA FadingRefines ==
  ASSUME active \in BOOLEAN, ours \in BOOLEAN, UNCHANGED <<active, ours, evidence>>,
         Op("scenario")' = Op("scenario"),
         helper'["scenario"].acted = helper["scenario"].acted,
         MayStillAct' => MayStillAct
  PROVE  AbstractStep \/ UNCHANGED Abstract!targetVars
<1>1. Calls' = Calls
  BY DEF Calls, Op
<1>2. \A op : Late(op)' => Late(op)
  BY DEF Late
<1>3. ~(Late("apache-stop") /\ Late("apache-start"))
  BY DEF Late
<1>4. CASE Late("apache-stop") /\ ~Late("apache-stop")'
  <2>1. Abstract!LateStopLands("scenario")
    BY <1>1, <1>2, <1>3, <1>4, StopLands
  <2> QED
    BY <2>1 DEF AbstractStep, Abstract!TargetChanges
<1>5. CASE Late("apache-start") /\ ~Late("apache-start")'
  <2>1. Abstract!LateStartLands
    BY <1>1, <1>2, <1>3, <1>5, StartLands
  <2> QED
    BY <2>1 DEF AbstractStep, Abstract!TargetChanges
<1>6. CASE Late("apache-stop")' = Late("apache-stop") /\ Late("apache-start")' = Late("apache-start")
  BY <1>1, <1>6, Unseen
<1> QED
  BY <1>2, <1>4, <1>5, <1>6, LateIsBoolean

\* The evidence comes, before the effect or after it.
LEMMA EvidenceRefines ==
  ASSUME active \in BOOLEAN, ours \in BOOLEAN, UNCHANGED <<active, ours, helper>>,
         evidence = "none", evidence' # "none"
  PROVE  AbstractStep \/ UNCHANGED Abstract!targetVars
<1>1. \A op : ~Late(op)
  BY DEF Late
<1>2. Op("scenario")' = Op("scenario")
  BY DEF Op
<1>3. CASE Op("scenario") = "apache-stop" /\ ~helper["scenario"].acted
  <2>1. Calls = 0 /\ Calls' = 1 /\ ~Late("apache-start")'
    BY <1>2, <1>3 DEF Calls, Late, Op
  <2>2. Abstract!StopCall("scenario", FALSE)
    BY <1>1, <2>1, StopIsCalled, LateIsBoolean
  <2> QED
    BY <2>2 DEF AbstractStep
<1>4. CASE Op("scenario") = "apache-start" /\ ~helper["scenario"].acted
  <2>1. Calls' = Calls /\ ~Late("apache-stop")'
    BY <1>2, <1>4 DEF Calls, Late, Op
  <2>2. Abstract!StartCall(FALSE)
    BY <1>1, <2>1, StartIsCalled
  <2> QED
    BY <2>2 DEF AbstractStep
<1>5. CASE helper["scenario"].acted \/ Op("scenario") \notin Acting
  <2>1. Calls' = Calls /\ ~Late("apache-stop")' /\ ~Late("apache-start")'
    BY <1>2, <1>5 DEF Calls, Late, Op, Acting
  <2> QED
    BY <1>1, <2>1, Unseen, LateIsBoolean
<1> QED
  BY <1>3, <1>4, <1>5 DEF Acting

LEMMA ActorRefines ==
  ASSUME HelperIInv, HelperStep("scenario")
  PROVE  AbstractStep \/ UNCHANGED Abstract!targetVars
<1>0. "scenario" \in Callers
  BY DEF Callers
<1>1. /\ active \in BOOLEAN /\ ours \in BOOLEAN /\ jobs = {}
      /\ At("scenario", "act") => Op("scenario") \in Acting /\ ~helper["scenario"].acted
      /\ UNCHANGED evidence /\ Op("scenario")' = Op("scenario")
  BY <1>0, HelperMoves
     DEF HelperIInv, HelperTypeOK, CallInv, ActorInv, JobsInv, At, Moves, Looking
<1>2. \/ /\ At("scenario", "act") /\ TakesEffect(Op("scenario"))
         /\ helper'["scenario"].acted
      \/ /\ UNCHANGED <<active, ours>>
         /\ helper'["scenario"].acted = helper["scenario"].acted
         /\ MayStillAct' => MayStillAct
  BY <1>0, <1>1, HelperMoves DEF HelperIInv, Moves, MayStillAct, At, Looking
<1>3. CASE /\ At("scenario", "act") /\ TakesEffect(Op("scenario"))
           /\ helper'["scenario"].acted
  BY <1>1, <1>3, EffectRefines DEF MayStillAct
<1> QED
  BY <1>1, <1>2, <1>3, FadingRefines

LEMMA JobRefines ==
  ASSUME HelperIInv, NEW op \in jobs, JobLands(op)
  PROVE  AbstractStep \/ UNCHANGED Abstract!targetVars
<1>1. HelperTypeOK /\ CallInv /\ active \in BOOLEAN /\ ours \in BOOLEAN
  BY DEF HelperIInv, HelperTypeOK
<1>2. Op("scenario") \in Acting /\ ~helper["scenario"].acted
  BY <1>1 DEF CallInv, JobsInv
<1>3. MayStillAct /\ op = Op("scenario")
  BY <1>1, JobStep DEF MayStillAct
<1>4. MayStillAct' => MayStillAct
  BY <1>3
<1>5. CASE TakesEffect(op) /\ helper'["scenario"].acted
  BY <1>1, <1>2, <1>3, <1>5, JobStep, EffectRefines
<1>6. CASE UNCHANGED <<active, ours>> /\ helper'["scenario"].acted = helper["scenario"].acted
  BY <1>1, <1>4, <1>6, JobStep, FadingRefines
<1> QED
  BY <1>1, <1>5, <1>6, JobStep

LEMMA ScenarioRefines ==
  ASSUME HelperIInv, ScenarioStep
  PROVE  AbstractStep \/ UNCHANGED Abstract!targetVars
<1>1. active \in BOOLEAN /\ ours \in BOOLEAN /\ CallInv /\ HelperTypeOK
  BY DEF HelperIInv, HelperTypeOK
<1>2. ASSUME NEW op \in ApacheOps, Ask(op)
      PROVE  AbstractStep \/ UNCHANGED Abstract!targetVars
  <2>1. /\ UNCHANGED <<active, ours>> /\ Op("scenario") = "none" /\ evidence = "none"
        /\ ~helper["scenario"].acted
    BY <1>1, <1>2 DEF Ask, hostVars, CallInv, ActorInv
  <2>2. \/ UNCHANGED <<helper, jobs>>
        \/ evidence' = "none" /\ ~helper'["scenario"].acted
    <3>1. CASE FilesAreUnsafe
      BY <1>2, <3>1 DEF Ask, hostVars
    <3>2. CASE ~FilesAreUnsafe
      <4>1. helper'["scenario"] = Serving(op) /\ evidence' = evidence
        BY <1>1, <1>2, <3>2, OneHelperSteps DEF Ask, Callers
      <4> QED
        BY <2>1, <4>1 DEF Serving, Gone
    <3> QED
      BY <3>1, <3>2
  <2>3. Calls = 0 /\ ~Late("apache-stop") /\ ~Late("apache-start")
    BY <2>1 DEF Calls, Late
  <2>4. Calls' = 0 /\ ~Late("apache-stop")' /\ ~Late("apache-start")'
    BY <2>1, <2>2 DEF Calls, Late, Op
  <2> QED
    BY <2>1, <2>3, <2>4, Unseen, LateIsBoolean
<1>3. CASE Answered \/ CallLost
  <2>1. /\ UNCHANGED <<active, ours, helper>>
        /\ evidence = "none" /\ evidence' # "none"
    BY <1>1, <1>3 DEF Answered, CallLost, Printed, hostVars, CallInv, WaitInv
  <2> QED
    BY <1>1, <2>1, EvidenceRefines
<1> QED
  BY <1>2, <1>3 DEF ScenarioStep

LEMMA HostRefines ==
  ASSUME HelperIInv, HostChanges
  PROVE  AbstractStep \/ UNCHANGED Abstract!targetVars
<1>1. UNCHANGED <<jobs, helper, evidence>>
  BY DEF HostChanges
<1>2. Calls' = Calls /\ \A op : Late(op)' = Late(op)
  BY <1>1 DEF Calls, Late, MayStillAct, At, Op
<1>3. Counted' = Counted /\ LateStops' = LateStops
  BY <1>2, CountedIsCalls DEF LateStops
<1>4. CASE UNCHANGED <<active, ours>>
  BY <1>2, <1>4, Unseen
<1>5. CASE active /\ active' = FALSE /\ ours' = ours
  <2>1. Abstract!OutsideStop
    BY <1>2, <1>3, <1>5 DEF Abstract!OutsideStop, Counted, LateStops
  <2> QED
    BY <2>1 DEF AbstractStep, Abstract!TargetChanges
<1>6. CASE ~active /\ active' = TRUE /\ ours' = FALSE
  <2>1. Abstract!OutsideStart
    BY <1>2, <1>3, <1>6
       DEF Abstract!OutsideStart, Abstract!StartTakesEffect, Counted, LateStops
  <2> QED
    BY <2>1 DEF AbstractStep, Abstract!TargetChanges
<1> QED
  BY <1>4, <1>5, <1>6 DEF HostChanges

\* Every step of the helpers, of systemd, of the scenario's client and of the
\* host is a step of ApacheTarget or is not seen there.
LEMMA TargetStepRefines ==
  ASSUME HelperIInv, TargetStep
  PROVE  AbstractStep \/ UNCHANGED Abstract!targetVars
<1>1. CASE HelperStep("preflight")
  <2>1. UNCHANGED <<helper["scenario"], active, ours, jobs, evidence>>
    BY <1>1, ReaderStep DEF HelperIInv, CallInv
  <2> QED
    BY <2>1, FadingRefines DEF HelperIInv, HelperTypeOK, Op, At, MayStillAct
<1>2. CASE HelperStep("scenario")
  BY <1>2, ActorRefines
<1>3. ASSUME NEW op \in jobs, JobLands(op)
      PROVE  AbstractStep \/ UNCHANGED Abstract!targetVars
  BY <1>3, JobRefines
<1>4. CASE ScenarioStep
  BY <1>4, ScenarioRefines
<1>5. CASE HostChanges
  BY <1>5, HostRefines
<1> QED
  BY <1>1, <1>2, <1>3, <1>4, <1>5 DEF TargetStep, Callers

LEMMA NothingHappens ==
  ASSUME UNCHANGED <<hostVars, helper, evidence>> PROVE UNCHANGED Abstract!targetVars
<1>1. Calls' = Calls /\ \A op : Late(op)' = Late(op)
  BY DEF Calls, Late, MayStillAct, At, Op, hostVars
<1> QED
  BY <1>1, Unseen DEF hostVars

-----------------------------------------------------------------------------

\* The scenario's call, made beside nothing else, is a call of ApacheTarget
\* (apache_control, execute).
THEOREM CallImplementsTarget == HelperSpec => HelperImplementsTarget
<1>1. HelperInit => HelperIInv
  BY HelperTypeInit, CallInvInit DEF HelperIInv
<1>2. HelperIInv /\ [TargetStep]_helperVars => HelperIInv'
  <2> SUFFICES ASSUME HelperIInv, [TargetStep]_helperVars PROVE HelperIInv'
    OBVIOUS
  <2>1. CASE TargetStep
    BY <2>1, HelperTypeStep, CallInvStep DEF HelperIInv
  <2>2. CASE UNCHANGED helperVars
    BY <2>2 DEF helperVars, hostVars, HelperIInv, HelperTypeOK, CallInv, ReaderInv, ActorInv,
                JobsInv, WaitInv, At, Op
  <2> QED
    BY <2>1, <2>2
<1>3. HelperIInv /\ [TargetStep]_helperVars => [AbstractStep]_(Abstract!targetVars)
  <2> SUFFICES ASSUME HelperIInv, [TargetStep]_helperVars
               PROVE  AbstractStep \/ UNCHANGED Abstract!targetVars
    OBVIOUS
  <2>1. CASE UNCHANGED helperVars
    BY <2>1, NothingHappens DEF helperVars
  <2> QED
    BY <2>1, TargetStepRefines
<1> QED
  BY <1>1, <1>2, <1>3, PTL DEF HelperSpec, HelperImplementsTarget

=============================================================================
