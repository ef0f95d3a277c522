--------------------------- MODULE HeartbeatProofs --------------------------
(***************************************************************************)
(* What the heartbeat promises, for every interval, maximum age, tick and  *)
(* clock: the health command calls the agent healthy only on the word of a *)
(* recent process, a live process is never called unhealthy on account of  *)
(* its heartbeat, and an ended one is never called healthy.                *)
(*                                                                         *)
(* The invariant follows the heartbeat through the loop: how old the       *)
(* published one may be at each phase (LoopInv), how far its age on the    *)
(* clock may lag behind real time (ClockInv), and that an orderly exit     *)
(* leaves no "ready" behind (ExitInv).                                     *)
(***************************************************************************)
EXTENDS Heartbeat, TLAPS

USE TimingConstants, StorageConditions DEF TimingConstants, StorageConditions

-----------------------------------------------------------------------------
(* Types *)

\* The flags apart from the numbers: the provers treat them differently.
Flags == published \in BOOLEAN /\ stop \in BOOLEAN /\ temp \in BOOLEAN

Values ==
    /\ phase \in Phases
    /\ purpose \in {"ready", "stopped"}
    /\ waited \in Nat
    /\ uptime \in Int
    /\ outcome \in Outcomes
    /\ file \in {"missing", "partial", "ready", "stopped"}
    /\ age \in Int /\ stamp \in Int
    /\ strays \in Nat
    /\ storage \in StorageKinds
    /\ skew \in 0..MaxSkew
    /\ silence \in Nat
    /\ crashes \in 0..MaxCrashes

LEMMA TypeParts == HeartbeatTypeOK <=> Flags /\ Values
  BY DEF HeartbeatTypeOK, Flags, Values

LEMMA HeartbeatTypeInit == HeartbeatInit => HeartbeatTypeOK
<1> SUFFICES ASSUME HeartbeatInit PROVE Flags /\ Values
  BY TypeParts
<1>1. Flags
  BY DEF HeartbeatInit, Flags
<1>2. Values
  BY DEF HeartbeatInit, Values, Phases, Writing, Outcomes, AgeCap
<1> QED
  BY <1>1, <1>2

LEMMA FlagsStep == Flags /\ [HeartbeatNext]_heartbeatVars => Flags'
<1> SUFFICES ASSUME Flags, [HeartbeatNext]_heartbeatVars PROVE Flags'
  OBVIOUS
<1> USE DEF Flags, Proceed, Ends, fileVars, worldVars, processVars
<1>1. CASE Create
  BY <1>1 DEF Create
<1>2. CASE CreateFails
  BY <1>2 DEF CreateFails, WriteFails
<1>3. CASE Fill
  BY <1>3 DEF Fill
<1>4. CASE FillFails
  BY <1>4 DEF FillFails, WriteFails
<1>5. CASE Replace
  BY <1>5 DEF Replace
<1>6. CASE ReplaceFails
  BY <1>6 DEF ReplaceFails, WriteFails
<1>7. CASE Invalidate
  BY <1>7 DEF Invalidate
<1>8. CASE WaitEnds
  BY <1>8 DEF WaitEnds
<1>9. CASE StopSeen
  BY <1>9 DEF StopSeen, StartWrite
<1>10. CASE TickEnds
  BY <1>10 DEF TickEnds, StartWrite
<1>11. CASE Start
  BY <1>11 DEF Start
<1>12. CASE Signal
  BY <1>12 DEF Signal
<1>13. CASE Crash
  BY <1>13 DEF Crash
<1>14. CASE StorageChanges
  BY <1>14 DEF StorageChanges
<1>15. CASE Elapse
  BY <1>15 DEF Elapse
<1>16. CASE ClockSetBack
  BY <1>16 DEF ClockSetBack
<1>17. CASE UNCHANGED heartbeatVars
  BY <1>17 DEF heartbeatVars
<1> QED
  BY <1>1, <1>2, <1>3, <1>4, <1>5, <1>6, <1>7, <1>8, <1>9, <1>10, <1>11, <1>12,
     <1>13, <1>14, <1>15, <1>16, <1>17 DEF HeartbeatNext, ProcessStep

LEMMA ValuesStep == Values /\ [HeartbeatNext]_heartbeatVars => Values'
<1> SUFFICES ASSUME Values, [HeartbeatNext]_heartbeatVars PROVE Values'
  OBVIOUS
<1> USE DEF Values, Phases, Writing, Outcomes, Proceed, Ends, fileVars, worldVars, processVars
<1>1. CASE Create
  BY <1>1 DEF Create
<1>2. CASE CreateFails
  BY <1>2 DEF CreateFails, WriteFails, Later, StrayCap
<1>3. CASE Fill
  BY <1>3 DEF Fill
<1>4. CASE FillFails
  BY <1>4 DEF FillFails, WriteFails, Later, StrayCap
<1>5. CASE Replace
  BY <1>5 DEF Replace
<1>6. CASE ReplaceFails
  BY <1>6 DEF ReplaceFails, WriteFails, Later, StrayCap
<1>7. CASE Invalidate
  BY <1>7 DEF Invalidate
<1>8. CASE WaitEnds
  BY <1>8 DEF WaitEnds
<1>9. CASE StopSeen
  <2>1. CASE uptime >= 0
    BY <1>9, <2>1 DEF StopSeen, StartWrite
  <2>2. CASE ~(uptime >= 0)
    BY <1>9, <2>2 DEF StopSeen, StartWrite
  <2> QED
    BY <2>1, <2>2
<1>10. CASE TickEnds
  <2>1. CASE uptime >= 0
    BY <1>10, <2>1 DEF TickEnds, StartWrite
  <2>2. CASE ~(uptime >= 0)
    BY <1>10, <2>2 DEF TickEnds, StartWrite
  <2> QED
    BY <2>1, <2>2
<1>11. CASE Start
  BY <1>11 DEF Start
<1>12. CASE Signal
  BY <1>12 DEF Signal
<1>13. CASE Crash
  BY <1>13 DEF Crash, Later, StrayCap
<1>14. CASE StorageChanges
  BY <1>14 DEF StorageChanges
<1>15. CASE Elapse
  BY <1>15 DEF Elapse, Later, AgeCap, UptimeCap
<1>16. CASE ClockSetBack
  BY <1>16 DEF ClockSetBack
<1>17. CASE UNCHANGED heartbeatVars
  BY <1>17 DEF heartbeatVars
<1> QED
  BY <1>1, <1>2, <1>3, <1>4, <1>5, <1>6, <1>7, <1>8, <1>9, <1>10, <1>11, <1>12,
     <1>13, <1>14, <1>15, <1>16, <1>17 DEF HeartbeatNext, ProcessStep

\* Every step keeps every variable of the runtime in its type.
LEMMA HeartbeatTypeStep ==
  HeartbeatTypeOK /\ [HeartbeatNext]_heartbeatVars => HeartbeatTypeOK'
<1>1. HeartbeatTypeOK' <=> Flags' /\ Values'
  BY DEF HeartbeatTypeOK, Flags, Values
<1> QED
  BY <1>1, TypeParts, FlagsStep, ValuesStep

\* The runtime and its heartbeat stay within their types
\* (PassiveRuntime.run, FileHeartbeatRepository).
THEOREM HeartbeatTypeCorrect == HeartbeatSpec => []HeartbeatTypeOK
<1>1. HeartbeatInit => HeartbeatTypeOK
  BY HeartbeatTypeInit
<1>2. HeartbeatTypeOK /\ [HeartbeatNext]_heartbeatVars => HeartbeatTypeOK'
  BY HeartbeatTypeStep
<1> QED
  BY <1>1, <1>2, PTL DEF HeartbeatSpec

-----------------------------------------------------------------------------
(* The inductive invariant *)

LEMMA HeartbeatIInvInit == HeartbeatInit => HeartbeatIInv
  BY HeartbeatTypeInit
     DEF HeartbeatInit, HeartbeatIInv, PhaseInv, ClockInv, LoopInv, ExitInv,
         InLoop, Writing, AgeCap

\* Writing, waiting and ticking: the process's own steps.
LEMMA ProcessStepKeepsIInv ==
  HeartbeatIInv /\ ProcessStep => (PhaseInv /\ ClockInv /\ LoopInv /\ ExitInv)'
<1> SUFFICES ASSUME HeartbeatIInv, ProcessStep
             PROVE  (PhaseInv /\ ClockInv /\ LoopInv /\ ExitInv)'
  OBVIOUS
<1> USE DEF HeartbeatIInv, HeartbeatTypeOK, PhaseInv, ClockInv, LoopInv, ExitInv,
            InLoop, OldestAge, OutOfReach, TimeLimit, Phases, Writing, Outcomes,
            Proceed, Ends, fileVars, worldVars, processVars
<1>1. CASE Create
  BY <1>1 DEF Create
<1>2. CASE CreateFails
  BY <1>2 DEF CreateFails, WriteFails
<1>3. CASE Fill
  BY <1>3 DEF Fill
<1>4. CASE FillFails
  BY <1>4 DEF FillFails, WriteFails
<1>5. CASE Replace
  BY <1>5 DEF Replace
<1>6. CASE ReplaceFails
  BY <1>6 DEF ReplaceFails, WriteFails
<1>7. CASE Invalidate
  BY <1>7 DEF Invalidate
<1>8. CASE WaitEnds
  BY <1>8 DEF WaitEnds
<1>9. CASE StopSeen
  <2>1. CASE uptime >= 0
    BY <1>9, <2>1 DEF StopSeen, StartWrite
  <2>2. CASE ~(uptime >= 0)
    BY <1>9, <2>2 DEF StopSeen, StartWrite
  <2> QED
    BY <2>1, <2>2
<1>10. CASE TickEnds
  <2>1. CASE uptime >= 0
    BY <1>10, <2>1 DEF TickEnds, StartWrite
  <2>2. CASE ~(uptime >= 0)
    BY <1>10, <2>2 DEF TickEnds, StartWrite
  <2> QED
    BY <2>1, <2>2
<1> QED
  BY <1>1, <1>2, <1>3, <1>4, <1>5, <1>6, <1>7, <1>8, <1>9, <1>10 DEF ProcessStep

\* Starts, signals, crashes, time and the clock.
LEMMA OtherStepKeepsIInv ==
  HeartbeatIInv /\ [HeartbeatNext]_heartbeatVars /\ ~ProcessStep =>
      (PhaseInv /\ ClockInv /\ LoopInv /\ ExitInv)'
<1> SUFFICES ASSUME HeartbeatIInv, [HeartbeatNext]_heartbeatVars, ~ProcessStep
             PROVE  (PhaseInv /\ ClockInv /\ LoopInv /\ ExitInv)'
  OBVIOUS
<1> USE DEF HeartbeatIInv, HeartbeatTypeOK, PhaseInv, ClockInv, LoopInv, ExitInv,
            InLoop, OldestAge, OutOfReach, TimeLimit, Phases, Writing, Outcomes,
            Proceed, Ends, fileVars, worldVars, processVars
<1>1. CASE Start
  BY <1>1 DEF Start
<1>2. CASE Signal
  BY <1>2 DEF Signal
<1>3. CASE Crash
  BY <1>3 DEF Crash
<1>4. CASE StorageChanges
  BY <1>4 DEF StorageChanges
<1>5. CASE Elapse
  BY <1>5 DEF Elapse, Later, AgeCap, UptimeCap
<1>6. CASE ClockSetBack
  BY <1>6 DEF ClockSetBack
<1>7. CASE UNCHANGED heartbeatVars
  BY <1>7 DEF heartbeatVars
<1> QED
  BY <1>1, <1>2, <1>3, <1>4, <1>5, <1>6, <1>7 DEF HeartbeatNext

\* The invariant behind the three promises below.
THEOREM HeartbeatInvariant == HeartbeatSpec => []HeartbeatIInv
<1>1. HeartbeatInit => HeartbeatIInv
  BY HeartbeatIInvInit
<1>2. HeartbeatIInv /\ [HeartbeatNext]_heartbeatVars => HeartbeatIInv'
  BY HeartbeatTypeStep, ProcessStepKeepsIInv, OtherStepKeepsIInv DEF HeartbeatIInv
<1> QED
  BY <1>1, <1>2, PTL DEF HeartbeatSpec

-----------------------------------------------------------------------------
(* The promises *)

\* Healthy means recent: whatever fails, crashes or is set back, a heartbeat
\* the health command accepts was published within the maximum age, give or
\* take the clock (_heartbeat_failure).
THEOREM HealthyIsRecentAlways == HeartbeatSpec => []HealthyIsRecent
<1>1. HeartbeatIInv => HealthyIsRecent
  BY DEF HeartbeatIInv, HeartbeatTypeOK, ClockInv, OutOfReach, HealthyIsRecent,
         Healthy, HeartbeatPasses, Fresh
<1> QED
  BY <1>1, HeartbeatInvariant, PTL

\* A live process is not reported unhealthy for its heartbeat, whenever a
\* wait, a tick and two writes fit into the maximum age and the clock is set
\* back by no more than an interval (PassiveRuntime.run, _heartbeat_failure).
THEOREM LiveIsHealthyAlways ==
  ASSUME TickFits, SkewIsTolerated
  PROVE  HeartbeatSpec => []LiveIsHealthy
<1>1. HeartbeatIInv => LiveIsHealthy
  BY DEF HeartbeatIInv, HeartbeatTypeOK, PhaseInv, ClockInv, LoopInv, OldestAge,
         TimeLimit, Writing, LiveIsHealthy, InLoop, HeartbeatPasses, Fresh,
         TickFits, SkewIsTolerated
<1> QED
  BY <1>1, HeartbeatInvariant, PTL

\* An orderly exit leaves nothing that reads as healthy
\* (PassiveRuntime.run, _invalidate_after_failure).
THEOREM ExitIsUnhealthyAlways == HeartbeatSpec => []ExitIsUnhealthy
<1>1. HeartbeatIInv => ExitIsUnhealthy
  BY DEF HeartbeatIInv, ExitInv, ExitIsUnhealthy, Healthy, HeartbeatPasses
<1> QED
  BY <1>1, HeartbeatInvariant, PTL

\* A temporary file is left behind by a crash, or by a write whose clean-up can
\* fail too, and by nothing else (write).
THEOREM StraysComeFromCrashesAlways == HeartbeatSpec => StraysComeFromCrashes
<1>1. ASSUME HeartbeatIInv, HeartbeatNext, strays' # strays
      PROVE  crashes' # crashes \/ UnlinkMayFail
  <2>1. CASE WriteFails
    BY <1>1, <2>1 DEF WriteFails
  <2>2. CASE Crash
    <3>1. crashes \in Nat
      BY <1>1 DEF HeartbeatIInv, HeartbeatTypeOK
    <3> QED
      BY <2>2, <3>1 DEF Crash
  <2>3. CASE ProcessStep /\ ~WriteFails
    BY <1>1, <2>3 DEF ProcessStep, Create, CreateFails, Fill, FillFails, Replace,
       ReplaceFails, Invalidate, WaitEnds, StopSeen, TickEnds, StartWrite, fileVars
  <2>4. CASE Start \/ Signal \/ StorageChanges \/ Elapse \/ ClockSetBack
    BY <1>1, <2>4 DEF Start, Signal, StorageChanges, Elapse, ClockSetBack, fileVars
  <2> QED
    BY <1>1, <2>1, <2>2, <2>3, <2>4 DEF HeartbeatNext
<1>2. HeartbeatIInv /\ [HeartbeatNext]_heartbeatVars =>
         [strays' # strays => crashes' # crashes \/ UnlinkMayFail]_heartbeatVars
  BY <1>1
<1> QED
  BY <1>2, HeartbeatInvariant, PTL DEF HeartbeatSpec, StraysComeFromCrashes

=============================================================================
