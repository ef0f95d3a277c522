----------------------------- MODULE Heartbeat ------------------------------
(***************************************************************************)
(* The runtime loop and its heartbeat file, read by the health command in  *)
(* another process.  PassiveRuntime.run publishes a heartbeat, waits, runs *)
(* one supervisor tick and publishes again; a heartbeat is written to a    *)
(* temporary file, flushed and renamed over the previous one, and when     *)
(* that fails the previous one is removed and the process ends.  Storage   *)
(* may fail, the process may crash at any step, and the system clock, by   *)
(* which alone the health command judges, may be set back.                 *)
(*                                                                         *)
(* No timestamp is kept: "age", "stamp" and "uptime" are what the system   *)
(* clock says has passed since the three timestamps of the code, so they   *)
(* go backwards with it; "silence" is the time that has really passed.     *)
(***************************************************************************)
EXTENDS Integers

CONSTANTS
    Interval,      \* heartbeat_interval_seconds
    MaxAge,        \* heartbeat_max_age_seconds
    MaxTick,       \* a supervisor tick takes at most this long
    MaxWrite,      \* writing a heartbeat takes at most this long
    MaxSkew,       \* the clock is set back by at most this much in all
    MaxCrashes,    \* how often the process may crash (bound)
    StorageKinds   \* conditions the data directory may be in

ASSUME TimingConstants ==
    /\ Interval \in Nat /\ MaxAge \in Nat
    /\ MaxTick \in Nat /\ MaxWrite \in Nat
    /\ MaxSkew \in Nat /\ MaxCrashes \in Nat

\* validate_heartbeat_timing of config.py.
TimingIsValid == Interval > 0 /\ MaxAge >= 2 * Interval

ASSUME HeartbeatTiming == TimingIsValid

\* "full": writing may fail; "readonly": nothing can be changed;
\* "broken": any operation may fail.
ASSUME StorageConditions ==
    "ok" \in StorageKinds /\ StorageKinds \subseteq {"ok", "full", "readonly", "broken"}

VARIABLES
    phase,         \* what the process is doing
    purpose,       \* the status the write in progress will publish
    waited,        \* time spent in this phase; in a write, since its timestamp
    uptime,        \* clock time since process_started_at
    published,     \* has this process published a heartbeat?
    stop,          \* the stop event
    outcome,       \* how the last process ended
    file,          \* the status in agent-status.json, or "missing"
    age,           \* clock time since the file's last_heartbeat_at
    temp,          \* does the write in progress have a temporary file?
    stamp,         \* clock time since the timestamp of the write in progress
    strays,        \* temporary files nobody will remove
    storage,       \* the condition of the data directory
    skew,          \* how far the clock has been set back
    silence,       \* real time since the timestamp of the last "ready" published
    crashes        \* crashes so far

processVars == <<phase, purpose, waited, uptime, published, stop, outcome>>
fileVars    == <<file, age, temp, stamp, strays>>
worldVars   == <<storage, skew, crashes>>
heartbeatVars == <<processVars, fileVars, worldVars, silence>>

\* Beyond these, larger values make no difference to any check.
AgeCap    == MaxAge + MaxSkew + 1
UptimeCap == MaxSkew
StrayCap  == MaxCrashes + 1

Later(count, cap) == IF count < cap THEN count + 1 ELSE count

Writing == {"create", "fill", "replace"}
Phases  == Writing \cup {"off", "invalidate", "wait", "tick"}

\* What an exit says: run returned 0; it returned 1 having removed the
\* heartbeat; it returned 1 and could not remove it; it raised; killed.
Outcomes == {"none", "clean", "failed", "unrevoked", "raised", "crashed"}

HeartbeatTypeOK ==
    /\ phase \in Phases
    /\ purpose \in {"ready", "stopped"}
    /\ waited \in Nat
    /\ uptime \in Int
    /\ published \in BOOLEAN /\ stop \in BOOLEAN
    /\ outcome \in Outcomes
    /\ file \in {"missing", "partial", "ready", "stopped"}
    /\ age \in Int /\ stamp \in Int
    /\ temp \in BOOLEAN
    /\ strays \in Nat
    /\ storage \in StorageKinds
    /\ skew \in 0..MaxSkew
    /\ silence \in Nat
    /\ crashes \in 0..MaxCrashes

HeartbeatInit ==
    /\ phase = "off" /\ purpose = "ready" /\ waited = 0 /\ uptime = 0
    /\ published = FALSE /\ stop = FALSE /\ outcome = "none"
    /\ file = "missing" /\ age = AgeCap
    /\ temp = FALSE /\ stamp = 0 /\ strays = 0
    /\ storage = "ok" /\ skew = 0 /\ silence = AgeCap /\ crashes = 0

-----------------------------------------------------------------------------
(* The health command *)

\* Mutant: a heartbeat that is too old is not noticed.
FreshWhenNotFuture == age >= -Interval

Fresh == age >= -Interval /\ age <= MaxAge

HeartbeatPasses == file = "ready" /\ Fresh

\* evaluate_health: the data directory is writable and the heartbeat passes.
Healthy == storage # "readonly" /\ HeartbeatPasses

-----------------------------------------------------------------------------
(* Writing a heartbeat *)

\* An operation that writes, and one that removes a file.
WriteMayWork  == storage # "readonly"
WriteMayFail  == storage # "ok"
UnlinkMayWork == storage # "readonly"
UnlinkMayFail == storage \in {"readonly", "broken"}

Proceed(next) == phase' = next /\ waited' = 0

\* The process ends.
Ends(how) ==
    /\ Proceed("off")
    /\ outcome' = how
    /\ UNCHANGED <<purpose, uptime, published, stop>>

\* The Heartbeat model refuses a timestamp before process_started_at, and
\* _write_heartbeat builds it outside its try: run raises.
StartWrite(status) ==
    IF uptime >= 0
    THEN /\ Proceed("create")
         /\ purpose' = status
         /\ stamp' = 0
         /\ UNCHANGED <<uptime, published, stop, outcome, file, age, temp, strays>>
    ELSE Ends("raised") /\ UNCHANGED fileVars

\* A failed step removes its temporary file if it can.
WriteFails ==
    /\ WriteMayFail
    /\ Proceed("invalidate")
    /\ temp' = FALSE
    /\ stamp' = 0
    /\ \/ UnlinkMayWork /\ UNCHANGED strays
       \/ UnlinkMayFail /\ strays' \in {strays, Later(strays, StrayCap)}
    /\ UNCHANGED <<purpose, uptime, published, stop, outcome, file, age, worldVars, silence>>

\* mkstemp and chmod: the file is there before chmod can fail.
Create ==
    /\ phase = "create"
    /\ WriteMayWork
    /\ phase' = "fill"
    /\ temp' = TRUE
    /\ UNCHANGED <<purpose, waited, uptime, published, stop, outcome, file, age,
                   stamp, strays, worldVars, silence>>

CreateFails == phase = "create" /\ WriteFails

\* Mutant: the heartbeat is written into the file the health command reads.
FillInPlace ==
    /\ phase = "fill"
    /\ WriteMayWork
    /\ phase' = "replace"
    /\ file' = "partial"
    /\ UNCHANGED <<purpose, waited, uptime, published, stop, outcome, age, temp,
                   stamp, strays, worldVars, silence>>

\* json.dump, flush and fsync.
Fill ==
    /\ phase = "fill"
    /\ WriteMayWork
    /\ phase' = "replace"
    /\ UNCHANGED <<purpose, waited, uptime, published, stop, outcome, fileVars,
                   worldVars, silence>>

FillFails == phase = "fill" /\ WriteFails

\* os.replace publishes the heartbeat; after "stopped" run returns 0.
Replace ==
    /\ phase = "replace"
    /\ WriteMayWork
    /\ file' = purpose
    /\ age' = stamp
    /\ temp' = FALSE
    /\ stamp' = 0
    /\ silence' = IF purpose = "ready" THEN waited ELSE silence
    /\ IF purpose = "ready"
       THEN /\ Proceed("wait")
            /\ published' = TRUE
            /\ UNCHANGED <<purpose, uptime, stop, outcome>>
       ELSE Ends("clean")
    /\ UNCHANGED <<strays, worldVars>>

ReplaceFails == phase = "replace" /\ WriteFails

\* Mutant: run returns 1 and leaves the previous heartbeat where it is.
InvalidateForgotten ==
    /\ phase = "invalidate"
    /\ Ends("failed")
    /\ UNCHANGED <<fileVars, worldVars, silence>>

\* Mutant: the heartbeat is marked degraded instead of being removed.
InvalidateAsDegraded ==
    /\ phase = "invalidate"
    /\ file' = "degraded"
    /\ Ends("failed")
    /\ UNCHANGED <<age, temp, stamp, strays, worldVars, silence>>

\* _invalidate_after_failure, and run returns 1.
Invalidate ==
    /\ phase = "invalidate"
    /\ \/ /\ UnlinkMayWork
          /\ file' = "missing"
          /\ Ends("failed")
          /\ UNCHANGED <<age, temp, stamp, strays>>
       \/ /\ UnlinkMayFail
          /\ Ends("unrevoked")
          /\ UNCHANGED fileVars
    /\ UNCHANGED <<worldVars, silence>>

-----------------------------------------------------------------------------
(* The loop *)

\* A process starts, or is restarted, and publishes its first heartbeat.
Start ==
    /\ phase = "off"
    /\ uptime' = 0 /\ published' = FALSE /\ stop' = FALSE /\ outcome' = "none"
    /\ Proceed("create")
    /\ purpose' = "ready"
    /\ stamp' = 0
    /\ UNCHANGED <<file, age, temp, strays, worldVars, silence>>

\* Mutant: the wait is not cut short by the stop event.
WaitEndsIgnoringStop ==
    /\ phase = "wait"
    /\ waited = Interval
    /\ Proceed("tick")
    /\ UNCHANGED <<purpose, uptime, published, stop, outcome, fileVars, worldVars, silence>>

\* wait_for_stop times out: the next tick.
WaitEnds ==
    /\ phase = "wait"
    /\ waited = Interval
    /\ ~stop
    /\ Proceed("tick")
    /\ UNCHANGED <<purpose, uptime, published, stop, outcome, fileVars, worldVars, silence>>

\* It returns because the stop event is set.
StopSeen ==
    /\ phase = "wait"
    /\ stop
    /\ StartWrite("stopped")
    /\ UNCHANGED <<worldVars, silence>>

\* The tick returns or raises; either way the loop goes on.
TickEnds ==
    /\ phase = "tick"
    /\ StartWrite("ready")
    /\ UNCHANGED <<worldVars, silence>>

\* The signal handler.
Signal ==
    /\ phase # "off"
    /\ ~stop
    /\ stop' = TRUE
    /\ UNCHANGED <<phase, purpose, waited, uptime, published, outcome, fileVars,
                   worldVars, silence>>

-----------------------------------------------------------------------------
(* The surroundings *)

Crash ==
    /\ phase # "off"
    /\ crashes < MaxCrashes
    /\ crashes' = crashes + 1
    /\ strays' = IF temp THEN Later(strays, StrayCap) ELSE strays
    /\ temp' = FALSE
    /\ stamp' = 0
    /\ Ends("crashed")
    /\ UNCHANGED <<file, age, storage, skew, silence>>

StorageChanges ==
    /\ storage' \in StorageKinds \ {storage}
    /\ UNCHANGED <<processVars, fileVars, skew, crashes, silence>>

\* How long a phase may last.
TimeLimit ==
    CASE phase = "wait"     -> Interval
      [] phase = "tick"     -> MaxTick
      [] phase \in Writing  -> MaxWrite
      [] OTHER              -> 0

Elapse ==
    /\ \/ phase = "off" /\ UNCHANGED waited
       \/ waited < TimeLimit /\ waited' = waited + 1
    /\ age' = Later(age, AgeCap)
    /\ stamp' = IF phase \in Writing THEN Later(stamp, AgeCap) ELSE stamp
    /\ silence' = Later(silence, AgeCap)
    /\ uptime' = Later(uptime, UptimeCap)
    /\ UNCHANGED <<phase, purpose, published, stop, outcome, file, temp, strays, worldVars>>

ClockSetBack ==
    \E k \in 1..(MaxSkew - skew) :
        /\ skew' = skew + k
        /\ age' = age - k
        /\ stamp' = IF phase \in Writing THEN stamp - k ELSE stamp
        /\ uptime' = uptime - k
        /\ UNCHANGED <<phase, purpose, waited, published, stop, outcome, file, temp,
                       strays, storage, crashes, silence>>

ProcessStep ==
    \/ Create \/ CreateFails \/ Fill \/ FillFails \/ Replace \/ ReplaceFails
    \/ Invalidate \/ WaitEnds \/ StopSeen \/ TickEnds

HeartbeatNext ==
    \/ ProcessStep \/ Start \/ Signal
    \/ Crash \/ StorageChanges \/ Elapse \/ ClockSetBack

HeartbeatSpec == HeartbeatInit /\ [][HeartbeatNext]_heartbeatVars

\* The process runs while it lives, and time passes.
HeartbeatFairSpec ==
    HeartbeatSpec /\ WF_heartbeatVars(ProcessStep) /\ WF_heartbeatVars(Elapse)

-----------------------------------------------------------------------------
(* Properties *)

\* Whatever crashes, fails or hangs, the health command reports "healthy"
\* only if a process said it was ready no longer ago than the maximum age,
\* give or take what the clock was set back (_heartbeat_failure).
HealthyIsRecent == Healthy => silence <= MaxAge + skew

\* A process in its loop is never reported unhealthy on account of its
\* heartbeat, at any point of a write and however long within its bound the
\* supervisor tick before it took (run, write, _heartbeat_failure).  It takes
\* a maximum age that leaves room for a wait, a tick and two writes; the code
\* asks only for two intervals.
TickFits        == Interval + MaxTick + 2 * MaxWrite <= MaxAge
SkewIsTolerated == MaxSkew <= Interval

InLoop == published /\ purpose = "ready" /\ phase \in Writing \cup {"wait", "tick"}

LiveIsHealthy == InLoop => HeartbeatPasses

\* After run has returned 0, or 1 with the heartbeat removed, no health
\* command calls the agent healthy until another process is ready
\* (run, _invalidate_after_failure).
ExitIsUnhealthy == phase = "off" /\ outcome \in {"clean", "failed"} => ~Healthy

\* Temporary files pile up only with crashes, as long as a failed write can
\* remove its own (write).
StraysComeFromCrashes ==
    [][ strays' # strays => crashes' # crashes \/ UnlinkMayFail ]_heartbeatVars

\* A stop request ends the process, in whatever phase it arrives.
StopIsServed == (stop /\ phase # "off") ~> (phase = "off")

-----------------------------------------------------------------------------
(* The inductive invariant behind the safety properties *)

\* Every timed phase keeps to its limit.
PhaseInv ==
    /\ phase \in Writing \cup {"wait", "tick"} => waited <= TimeLimit
    /\ phase \in {"wait", "tick"} => published /\ purpose = "ready"

\* The clock may lag behind real time, by what it was set back and no more;
\* ages at their cap stay out of reach of the checks.
OutOfReach(time) == time > MaxAge + MaxSkew - skew

ClockInv ==
    /\ age >= -skew
    /\ stamp >= -skew
    /\ phase \in Writing => stamp <= waited
    /\ phase \in Writing => OutOfReach(stamp) \/ waited <= stamp + skew
    /\ file = "ready" => OutOfReach(age) \/ silence <= age + skew

\* How old the published heartbeat may be at each point of the loop.
OldestAge ==
    CASE phase = "wait"    -> MaxWrite + waited
      [] phase = "tick"    -> MaxWrite + Interval + waited
      [] phase \in Writing -> MaxWrite + Interval + MaxTick + waited
      [] OTHER             -> 0

LoopInv == InLoop => file = "ready" /\ age <= OldestAge

ExitInv == phase = "off" /\ outcome \in {"clean", "failed"} => file # "ready"

HeartbeatIInv == HeartbeatTypeOK /\ PhaseInv /\ ClockInv /\ LoopInv /\ ExitInv

=============================================================================
