----------------------------- MODULE RemoteCall -----------------------------
(***************************************************************************)
(* One SSH call: OpenSshTransport.execute and _run_bounded.  The call      *)
(* starts a client in a process group of its own, reads its two streams    *)
(* and waits for it at the same time, under a deadline, an output limit    *)
(* and the caller's cancellation; any of the three makes _stop_and_reap    *)
(* terminate the group, kill it after a grace period, and collect the      *)
(* three tasks.  The client may write, fork, exit or ignore SIGTERM at any *)
(* point.                                                                  *)
(***************************************************************************)
EXTENDS Integers

CONSTANTS
    Timeout,       \* ssh_command_timeout_seconds
    Grace,         \* TERMINATION_GRACE_SECONDS
    Limit,         \* MAX_STREAM_BYTES, in chunks read at once
    ReplyLength,   \* the length of a well-formed reply
    MaxOutput,     \* how much the client writes to a stream at most (bound)
    MaxCancels,    \* how often the caller cancels (bound)
    Forks          \* may the client start a child in its process group?

ASSUME CallConstants ==
    /\ Timeout \in Nat /\ Grace \in Nat /\ Limit \in Nat
    /\ ReplyLength \in 1..Limit /\ MaxOutput \in Nat
    /\ MaxCancels \in Nat /\ Forks \in BOOLEAN

Streams == {"stdout", "stderr"}
Tasks   == Streams \cup {"wait"}

VARIABLES
    phase,      \* where execute is
    cause,      \* why the call was stopped, or "none"
    result,     \* what execute returned or raised
    client,     \* the SSH client: running, exited, or collected by the loop
    child,      \* a process the client left in its group
    code,       \* the client's exit status: "zero", "nonzero" or "none" yet
    sent, got,  \* chunks written to and read from each stream
    task,       \* the reader of each stream, and process.wait()
    clock,      \* time spent in this phase
    signals,    \* how often the process group was signalled
    cancels     \* cancellations so far

clientVars == <<client, child, code, sent>>
callVars == <<phase, cause, result, clientVars, got, task, clock, signals, cancels>>

Phases  == {"idle", "gather", "grace", "killed", "join", "returned"}
Causes  == {"none", "connection_timeout", "output_limit_exceeded", "cancelled"}
Results == {"none", "answer", "helper_protocol_invalid", "client_failed", "not_started",
            "interrupted"} \cup Causes

CallTypeOK ==
    /\ phase \in Phases /\ cause \in Causes /\ result \in Results
    /\ client \in {"none", "running", "exited", "collected"}
    /\ child \in {"none", "running", "gone"}
    /\ code \in {"none", "zero", "nonzero"}
    /\ sent \in [Streams -> 0..MaxOutput]
    /\ got \in [Streams -> Nat]
    /\ task \in [Tasks -> {"running", "done", "failed", "cancelling", "cancelled"}]
    /\ clock \in Nat /\ signals \in Nat /\ cancels \in 0..MaxCancels

CallInit ==
    /\ phase = "idle" /\ cause = "none" /\ result = "none"
    /\ client = "none" /\ child = "none" /\ code = "none"
    /\ sent = [s \in Streams |-> 0] /\ got = [s \in Streams |-> 0]
    /\ task = [t \in Tasks |-> "done"]
    /\ clock = 0 /\ signals = 0 /\ cancels = 0

-----------------------------------------------------------------------------
(* The client and its process group *)

GroupRuns == client = "running" \/ child = "running"

ClientWrites(s) ==
    /\ GroupRuns
    /\ sent[s] < MaxOutput
    /\ sent' = [sent EXCEPT ![s] = @ + 1]
    /\ UNCHANGED <<phase, cause, result, client, child, code, got, task, clock, signals, cancels>>

ClientForks ==
    /\ Forks
    /\ client = "running" /\ child = "none"
    /\ child' = "running"
    /\ UNCHANGED <<phase, cause, result, client, code, sent, got, task, clock, signals, cancels>>

ClientExits ==
    /\ client = "running"
    /\ client' = "exited"
    /\ code' \in {"zero", "nonzero"}
    /\ UNCHANGED <<phase, cause, result, child, sent, got, task, clock, signals, cancels>>

ChildExits ==
    /\ child = "running"
    /\ child' = "gone"
    /\ UNCHANGED <<phase, cause, result, client, code, sent, got, task, clock, signals, cancels>>

\* The event loop collects the client: from here on returncode is set, and
\* the process number may belong to somebody else.
Collect ==
    /\ client = "exited"
    /\ client' = "collected"
    /\ UNCHANGED <<phase, cause, result, child, code, sent, got, task, clock, signals, cancels>>

-----------------------------------------------------------------------------
(* Running *)

\* create_subprocess_exec and the three tasks.
StartClient ==
    /\ phase = "idle"
    /\ phase' = "gather"
    /\ client' = "running"
    /\ task' = [t \in Tasks |-> "running"]
    /\ UNCHANGED <<cause, result, child, code, sent, got, clock, signals, cancels>>

\* Mutant: an error of the operating system is raised as it is.
StartFailsUnclassified ==
    /\ phase = "idle"
    /\ phase' = "returned"
    /\ result' = "os_error"
    /\ UNCHANGED <<cause, clientVars, got, task, clock, signals, cancels>>

\* The client is missing or cannot be started.
StartFails ==
    /\ phase = "idle"
    /\ phase' = "returned"
    /\ result' = "not_started"
    /\ UNCHANGED <<cause, clientVars, got, task, clock, signals, cancels>>

\* Mutant: the limit is not looked at.
ReadUnbounded(s) ==
    /\ task[s] = "running"
    /\ got[s] < sent[s]
    /\ got' = [got EXCEPT ![s] = @ + 1]
    /\ UNCHANGED <<phase, cause, result, clientVars, task, clock, signals, cancels>>

\* _read_bounded takes the next chunk.
Read(s) ==
    /\ task[s] = "running"
    /\ got[s] < sent[s]
    /\ got' = [got EXCEPT ![s] = @ + 1]
    /\ task' = IF got[s] + 1 > Limit THEN [task EXCEPT ![s] = "failed"] ELSE task
    /\ UNCHANGED <<phase, cause, result, clientVars, clock, signals, cancels>>

\* It sees the end of the stream once nobody can write to it.
ReadEnd(s) ==
    /\ task[s] = "running"
    /\ got[s] = sent[s] /\ ~GroupRuns
    /\ task' = [task EXCEPT ![s] = "done"]
    /\ UNCHANGED <<phase, cause, result, clientVars, got, clock, signals, cancels>>

WaitEnds ==
    /\ task["wait"] = "running"
    /\ client = "collected"
    /\ task' = [task EXCEPT !["wait"] = "done"]
    /\ UNCHANGED <<phase, cause, result, clientVars, got, clock, signals, cancels>>

\* _decode_response takes one document and nothing after it.
Decodes == got["stdout"] = ReplyLength

Answer ==
    IF code = "zero"
    THEN {"helper_protocol_invalid"} \cup (IF Decodes THEN {"answer"} ELSE {})
    ELSE {"client_failed"}

\* Mutant: the call is over when the client is.
GatherDoneOnExit ==
    /\ phase = "gather"
    /\ task["wait"] = "done"
    /\ phase' = "returned"
    /\ result' \in Answer
    /\ UNCHANGED <<cause, clientVars, got, task, clock, signals, cancels>>

\* gather returns, and execute judges what it returned.
GatherDone ==
    /\ phase = "gather"
    /\ \A t \in Tasks : task[t] = "done"
    /\ phase' = "returned"
    /\ result' \in Answer
    /\ UNCHANGED <<cause, clientVars, got, task, clock, signals, cancels>>

-----------------------------------------------------------------------------
(* Stopping *)

Cancelling == [t \in Tasks |-> IF task[t] = "running" THEN "cancelling" ELSE task[t]]

\* Mutant: the group is signalled although the client was collected.
StopAlways(why) ==
    /\ phase = "gather"
    /\ phase' = "grace"
    /\ cause' = why
    /\ task' = Cancelling
    /\ clock' = 0
    /\ signals' = signals + 1
    /\ UNCHANGED <<result, clientVars, got>>

\* The beginning of _stop_and_reap: SIGTERM, which a process may ignore.
Stop(why) ==
    /\ phase = "gather"
    /\ phase' = "grace"
    /\ cause' = why
    /\ task' = Cancelling
    /\ clock' = 0
    /\ signals' = IF client # "collected" THEN signals + 1 ELSE signals
    /\ UNCHANGED <<result, clientVars, got>>

Deadline ==
    /\ clock = Timeout
    /\ Stop("connection_timeout")
    /\ UNCHANGED cancels

LimitExceeded ==
    /\ \E s \in Streams : task[s] = "failed"
    /\ Stop("output_limit_exceeded")
    /\ UNCHANGED cancels

Cancel ==
    /\ cancels < MaxCancels
    /\ cancels' = cancels + 1
    /\ Stop("cancelled")

\* A cancellation during _stop_and_reap leaves execute as it is.
CancelAgain ==
    /\ phase \in {"grace", "killed", "join"}
    /\ cancels < MaxCancels
    /\ cancels' = cancels + 1
    /\ phase' = "returned"
    /\ result' = "interrupted"
    /\ UNCHANGED <<cause, clientVars, got, task, clock, signals>>

\* process.wait() returns within the grace period, or after the kill.
Reaped ==
    /\ phase \in {"grace", "killed"}
    /\ client = "collected"
    /\ phase' = "join"
    /\ UNCHANGED <<cause, result, clientVars, got, task, clock, signals, cancels>>

\* Mutant: after the grace period the client is waited for, and not killed.
GraceOverPatiently ==
    /\ phase = "grace"
    /\ clock = Grace
    /\ phase' = "killed"
    /\ UNCHANGED <<cause, result, clientVars, got, task, clock, signals, cancels>>

\* Mutant: after the grace period the call returns.
GraceOverGivesUp ==
    /\ phase = "grace"
    /\ clock = Grace
    /\ phase' = "join"
    /\ UNCHANGED <<cause, result, clientVars, got, task, clock, signals, cancels>>

\* The grace period is over: SIGKILL to the whole group.
GraceOver ==
    /\ phase = "grace"
    /\ clock = Grace
    /\ phase' = "killed"
    /\ IF client # "collected"
       THEN /\ signals' = signals + 1
            /\ client' = "exited"
            /\ code' = IF client = "running" THEN "nonzero" ELSE code
            /\ child' = IF child = "running" THEN "gone" ELSE child
       ELSE UNCHANGED <<signals, client, code, child>>
    /\ UNCHANGED <<cause, result, sent, got, task, clock, cancels>>

\* A cancelled task runs once more.
Unwind(t) ==
    /\ task[t] = "cancelling"
    /\ task' = [task EXCEPT ![t] = "cancelled"]
    /\ UNCHANGED <<phase, cause, result, clientVars, got, clock, signals, cancels>>

\* The last gather of _stop_and_reap, and the error for the caller.
Joined ==
    /\ phase = "join"
    /\ \A t \in Tasks : task[t] \notin {"running", "cancelling"}
    /\ phase' = "returned"
    /\ result' = cause
    /\ UNCHANGED <<cause, clientVars, got, task, clock, signals, cancels>>

-----------------------------------------------------------------------------

Elapse ==
    /\ \/ phase = "gather" /\ clock < Timeout
       \/ phase = "grace"  /\ clock < Grace
    /\ clock' = clock + 1
    /\ UNCHANGED <<phase, cause, result, clientVars, got, task, signals, cancels>>

ClientStep ==
    \/ \E s \in Streams : ClientWrites(s)
    \/ ClientForks \/ ClientExits \/ ChildExits

LoopStep ==
    \/ StartClient \/ StartFails \/ Collect
    \/ \E s \in Streams : Read(s) \/ ReadEnd(s)
    \/ WaitEnds \/ GatherDone
    \/ Deadline \/ LimitExceeded
    \/ Reaped \/ GraceOver \/ (\E t \in Tasks : Unwind(t)) \/ Joined

CallNext == ClientStep \/ LoopStep \/ Cancel \/ CancelAgain \/ Elapse

CallSpec == CallInit /\ [][CallNext]_callVars

\* The event loop runs what is ready, and time passes; nothing is assumed of
\* the client.
CallFairSpec == CallSpec /\ WF_callVars(LoopStep) /\ WF_callVars(Elapse)

-----------------------------------------------------------------------------
(* Properties *)

Returned == phase = "returned" /\ result # "interrupted"

\* However the call ends, with the client dead, deaf to SIGTERM or still
\* writing, the client has been collected and no task is left behind
\* (_run_bounded, _stop_and_reap); only a cancellation of the stopping
\* itself may leave them.
ReturnedIsReaped ==
    Returned => /\ client \in {"none", "collected"}
                /\ \A t \in Tasks : task[t] \in {"done", "failed", "cancelled"}

\* An answer is never read from part of the output: both streams were read to
\* their end, within the limit, from a client that ended well
\* (_run_bounded, _decode_response).
AnswerIsWhole ==
    result = "answer" =>
        /\ code = "zero" /\ ~GroupRuns
        /\ \A s \in Streams : got[s] = sent[s] /\ got[s] <= Limit

\* Never more than one chunk beyond the limit is held, whatever the client
\* writes and whichever stop comes first (_read_bounded).
MemoryIsBounded == \A s \in Streams : got[s] <= Limit + 1

\* A process group is signalled only while its leader is uncollected and its
\* number therefore still its own (_stop_and_reap, _signal_process_group).
SignalsOwnGroup == [][ signals' # signals => client # "collected" ]_callVars

\* Every call ends, whatever the client does.
CallEnds == phase = "gather" ~> phase = "returned"

-----------------------------------------------------------------------------
(* The inductive invariant behind the safety properties *)

TaskInv ==
    /\ phase = "gather" => \A t \in Tasks : task[t] \in {"running", "done", "failed"}
    /\ phase \in {"grace", "killed", "join"} => \A t \in Tasks : task[t] # "running"
    /\ phase = "idle" => \A t \in Tasks : task[t] = "done"

ReadInv ==
    \A s \in Streams :
        /\ got[s] <= sent[s]
        /\ task[s] # "failed" => got[s] <= Limit
        /\ task[s] = "failed" => got[s] = Limit + 1
        /\ task[s] = "done" /\ client # "none" => got[s] = sent[s] /\ ~GroupRuns

ClientInv ==
    /\ client = "none" <=> phase = "idle" \/ result = "not_started"
    /\ client = "none" => child = "none" /\ \A s \in Streams : sent[s] = 0 /\ got[s] = 0
    /\ phase = "join" => client = "collected"
    /\ task["wait"] = "done" /\ client # "none" => client = "collected"

ResultInv ==
    /\ phase # "returned" => result = "none"
    /\ phase = "returned" => result # "none"
    /\ phase \in {"grace", "killed", "join"} => cause # "none"
    /\ result = "not_started" => phase = "returned"

CallIInv ==
    /\ CallTypeOK /\ TaskInv /\ ReadInv /\ ClientInv /\ ResultInv
    /\ ReturnedIsReaped /\ AnswerIsWhole

-----------------------------------------------------------------------------
(* Progress, in as far as it can be said without fairness *)

\* Whatever the client does, a call that has not returned is never stuck: there
\* is always something the event loop or the clock can do (_run_bounded,
\* _stop_and_reap).
CallGoesOn ==
    /\ phase = "gather" => clock <= Timeout
    /\ phase = "grace" => clock <= Grace
    /\ phase = "killed" => client \in {"exited", "collected"}
    /\ phase = "join" =>
          \/ \E t \in Tasks : task[t] = "cancelling"
          \/ \A t \in Tasks : task[t] \notin {"running", "cancelling"}

\* How much is left to do: stages, time, the client's end, tasks, and chunks.
StagesLeft == [idle |-> 13, gather |-> 4, grace |-> 3, killed |-> 2, join |-> 1, returned |-> 0]

TimeLeft == IF phase = "idle" THEN Timeout + Grace
            ELSE IF phase = "gather" THEN (Timeout - clock) + Grace
            ELSE IF phase = "grace" THEN Grace - clock ELSE 0

ClientLeft == IF client = "running" THEN 2 ELSE IF client = "exited" THEN 1 ELSE 0

TaskLeft(t) == IF task[t] = "running" THEN 2 ELSE IF task[t] = "cancelling" THEN 1 ELSE 0

WorkLeft ==
    StagesLeft[phase] + TimeLeft + ClientLeft
    + (TaskLeft("stdout") + TaskLeft("stderr") + TaskLeft("wait"))
    + ((Limit + 1 - got["stdout"]) + (Limit + 1 - got["stderr"]))

\* Every step of the loop, of the clock or of the caller uses some of it up and
\* nothing the client does adds to it: a call takes at most Timeout + Grace
\* units of time, and at most Timeout + Grace + 2 * Limit + 15 steps, however
\* much the client writes and however it ends (_run_bounded, _read_bounded,
\* _stop_and_reap).
WorkShrinks ==
    /\ WorkLeft \in Nat
    /\ WorkLeft' <= WorkLeft
    /\ LoopStep \/ Elapse \/ Cancel \/ CancelAgain => WorkLeft' < WorkLeft

CallIsBounded == [][WorkShrinks]_callVars

=============================================================================
