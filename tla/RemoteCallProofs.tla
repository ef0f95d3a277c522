-------------------------- MODULE RemoteCallProofs --------------------------
(***************************************************************************)
(* What one SSH call promises for every deadline, grace period, limit and  *)
(* client: it returns only with the client collected and its tasks ended,  *)
(* answers only from the whole output, and holds no more than a chunk      *)
(* beyond the limit.                                                       *)
(*                                                                         *)
(* The invariant relates the tasks to the phase of the call (TaskInv), what *)
(* each reader has read to what was written and who may still write        *)
(* (ReadInv), and the client's end to the phases that rely on it           *)
(* (ClientInv).  The last section proves what can be said of the call's    *)
(* progress without fairness: something is always left to wait for, and    *)
(* every step of the loop, the clock or the caller uses up what is left.   *)
(***************************************************************************)
EXTENDS RemoteCall, TLAPS

USE CallConstants DEF CallConstants

-----------------------------------------------------------------------------
(* Types *)

LEMMA CallTypeInit == CallInit => CallTypeOK
  BY DEF CallInit, CallTypeOK, Phases, Causes, Results, Streams, Tasks

\* Every step keeps every variable of the call in its type.
LEMMA CallTypeStep ==
  CallTypeOK /\ [CallNext]_callVars => CallTypeOK'
<1> SUFFICES ASSUME CallTypeOK, [CallNext]_callVars PROVE CallTypeOK'
  OBVIOUS
<1> USE DEF CallTypeOK, Phases, Causes, Results, Streams, Tasks, clientVars
<1>1. ASSUME NEW s \in Streams, ClientWrites(s) PROVE CallTypeOK'
  BY <1>1 DEF ClientWrites
<1>2. CASE ClientForks
  BY <1>2 DEF ClientForks
<1>3. CASE ClientExits
  BY <1>3 DEF ClientExits
<1>4. CASE ChildExits
  BY <1>4 DEF ChildExits
<1>5. CASE StartClient
  BY <1>5 DEF StartClient
<1>6. CASE StartFails
  BY <1>6 DEF StartFails
<1>7. CASE Collect
  BY <1>7 DEF Collect
<1>8. ASSUME NEW s \in Streams, Read(s) PROVE CallTypeOK'
  BY <1>8 DEF Read
<1>9. ASSUME NEW s \in Streams, ReadEnd(s) PROVE CallTypeOK'
  BY <1>9 DEF ReadEnd
<1>10. CASE WaitEnds
  BY <1>10 DEF WaitEnds
<1>11. CASE GatherDone
  BY <1>11 DEF GatherDone, Answer, Decodes
<1>12. CASE Deadline
  BY <1>12 DEF Deadline, Stop, Cancelling
<1>13. CASE LimitExceeded
  BY <1>13 DEF LimitExceeded, Stop, Cancelling
<1>14. CASE Reaped
  BY <1>14 DEF Reaped
<1>15. CASE GraceOver
  BY <1>15 DEF GraceOver
<1>16. ASSUME NEW t \in Tasks, Unwind(t) PROVE CallTypeOK'
  BY <1>16 DEF Unwind
<1>17. CASE Joined
  BY <1>17 DEF Joined
<1>18. CASE Cancel
  BY <1>18 DEF Cancel, Stop, Cancelling
<1>19. CASE CancelAgain
  BY <1>19 DEF CancelAgain
<1>20. CASE Elapse
  BY <1>20 DEF Elapse
<1>21. CASE UNCHANGED callVars
  BY <1>21 DEF callVars
<1> QED
  BY <1>1, <1>2, <1>3, <1>4, <1>5, <1>6, <1>7, <1>8, <1>9, <1>10, <1>11,
     <1>12, <1>13, <1>14, <1>15, <1>16, <1>17, <1>18, <1>19, <1>20, <1>21
     DEF CallNext, ClientStep, LoopStep

\* The variables of a call keep their types (_run_bounded).
THEOREM CallTypeCorrect == CallSpec => []CallTypeOK
<1>1. CallTypeOK /\ [CallNext]_callVars => CallTypeOK'
  BY CallTypeStep
<1> QED
  BY <1>1, CallTypeInit, PTL DEF CallSpec

-----------------------------------------------------------------------------
(* The inductive invariant *)

\* Its parts beyond the types.
CallParts ==
    TaskInv /\ ReadInv /\ ClientInv /\ ResultInv /\ ReturnedIsReaped /\ AnswerIsWhole

LEMMA CallIInvInit == CallInit => CallIInv
  BY CallTypeInit
     DEF CallInit, CallIInv, TaskInv, ReadInv, ClientInv, ResultInv, ReturnedIsReaped,
         Returned, AnswerIsWhole, GroupRuns, Streams, Tasks

\* Every step of the client, of the event loop and of the caller keeps them.
LEMMA CallPartsStep ==
  CallIInv /\ [CallNext]_callVars => CallParts'
<1> SUFFICES ASSUME CallIInv, [CallNext]_callVars PROVE CallParts'
  OBVIOUS
<1> USE DEF CallParts, CallIInv, CallTypeOK, TaskInv, ReadInv, ClientInv, ResultInv,
            ReturnedIsReaped, Returned, AnswerIsWhole, GroupRuns, Phases, Causes,
            Results, Streams, Tasks, clientVars
<1>1. ASSUME NEW s \in Streams, ClientWrites(s) PROVE CallParts'
  BY <1>1 DEF ClientWrites
<1>2. CASE ClientForks
  BY <1>2 DEF ClientForks
<1>3. CASE ClientExits
  BY <1>3 DEF ClientExits
<1>4. CASE ChildExits
  BY <1>4 DEF ChildExits
<1>5. CASE StartClient
  BY <1>5 DEF StartClient
<1>6. CASE StartFails
  BY <1>6 DEF StartFails
<1>7. CASE Collect
  BY <1>7 DEF Collect
<1>8. ASSUME NEW s \in Streams, Read(s) PROVE CallParts'
  BY <1>8 DEF Read
<1>9. ASSUME NEW s \in Streams, ReadEnd(s) PROVE CallParts'
  BY <1>9 DEF ReadEnd
<1>10. CASE WaitEnds
  BY <1>10 DEF WaitEnds
<1>11. CASE GatherDone
  <2>1. result' \in {"answer", "helper_protocol_invalid", "client_failed"}
        /\ (result' = "answer" => code = "zero")
    BY <1>11 DEF GatherDone, Answer
  <2> QED
    BY <1>11, <2>1 DEF GatherDone
<1>12. CASE Deadline
  BY <1>12 DEF Deadline, Stop, Cancelling
<1>13. CASE LimitExceeded
  BY <1>13 DEF LimitExceeded, Stop, Cancelling
<1>14. CASE Reaped
  BY <1>14 DEF Reaped
<1>15. CASE GraceOver
  BY <1>15 DEF GraceOver
<1>16. ASSUME NEW t \in Tasks, Unwind(t) PROVE CallParts'
  BY <1>16 DEF Unwind
<1>17. CASE Joined
  BY <1>17 DEF Joined
<1>18. CASE Cancel
  BY <1>18 DEF Cancel, Stop, Cancelling
<1>19. CASE CancelAgain
  BY <1>19 DEF CancelAgain
<1>20. CASE Elapse
  BY <1>20 DEF Elapse
<1>21. CASE UNCHANGED callVars
  BY <1>21 DEF callVars
<1> QED
  BY <1>1, <1>2, <1>3, <1>4, <1>5, <1>6, <1>7, <1>8, <1>9, <1>10, <1>11,
     <1>12, <1>13, <1>14, <1>15, <1>16, <1>17, <1>18, <1>19, <1>20, <1>21
     DEF CallNext, ClientStep, LoopStep

\* The invariant behind the promises below.
THEOREM CallInvariant == CallSpec => []CallIInv
<1>1. CallIInv /\ [CallNext]_callVars => CallIInv'
  BY CallTypeStep, CallPartsStep DEF CallIInv, CallParts
<1> QED
  BY <1>1, CallIInvInit, PTL DEF CallSpec

-----------------------------------------------------------------------------
(* The promises *)

\* A call returns only with its client collected and its tasks ended, unless
\* the stopping itself was cancelled (_run_bounded, _stop_and_reap).
THEOREM CallsAreReaped == CallSpec => []ReturnedIsReaped
  BY CallInvariant, PTL DEF CallIInv

\* An answer rests on the whole output of a client that ended well
\* (_run_bounded, _decode_response).
THEOREM AnswersAreWhole == CallSpec => []AnswerIsWhole
  BY CallInvariant, PTL DEF CallIInv

\* No reader holds more than one chunk beyond the limit (_read_bounded).
THEOREM MemoryStaysBounded == CallSpec => []MemoryIsBounded
<1>1. CallIInv => MemoryIsBounded
  BY DEF CallIInv, CallTypeOK, ReadInv, MemoryIsBounded, Streams, Tasks
<1> QED
  BY <1>1, CallInvariant, PTL

\* A process group is signalled only while its leader is uncollected
\* (_stop_and_reap, _signal_process_group).
THEOREM SignalsStayInGroup == CallSpec => SignalsOwnGroup
<1>1. ASSUME [CallNext]_callVars
      PROVE  [signals' # signals => client # "collected"]_callVars
  <2>1. CASE Deadline \/ LimitExceeded \/ Cancel
    BY <2>1 DEF Deadline, LimitExceeded, Cancel, Stop
  <2>2. CASE GraceOver
    BY <2>2 DEF GraceOver
  <2>3. CASE UNCHANGED callVars
    BY <2>3
  <2>4. CASE ClientStep
    BY <2>4 DEF ClientStep, ClientWrites, ClientForks, ClientExits, ChildExits
  <2>5. CASE LoopStep /\ ~(Deadline \/ LimitExceeded \/ GraceOver)
    BY <2>5 DEF LoopStep, StartClient, StartFails, Collect, Read, ReadEnd, WaitEnds,
                GatherDone, Reaped, Unwind, Joined
  <2>6. CASE CancelAgain \/ Elapse
    BY <2>6 DEF CancelAgain, Elapse
  <2> QED
    BY <1>1, <2>1, <2>2, <2>3, <2>4, <2>5, <2>6 DEF CallNext
<1> QED
  BY <1>1, PTL DEF CallSpec, SignalsOwnGroup

-----------------------------------------------------------------------------
(* Progress *)

GoesOnInv == CallGoesOn /\ (phase = "idle" => clock = 0)

LEMMA GoesOnStep ==
  ASSUME CallIInv, GoesOnInv, [CallNext]_callVars
  PROVE  GoesOnInv'
<1> USE DEF CallIInv, CallTypeOK, TaskInv, ReadInv, ClientInv, ResultInv, GoesOnInv,
            CallGoesOn, Phases, Streams, Tasks, clientVars
<1>1. ASSUME NEW s \in Streams, ClientWrites(s) PROVE GoesOnInv'
  BY <1>1 DEF ClientWrites
<1>2. CASE ClientForks
  BY <1>2 DEF ClientForks
<1>3. CASE ClientExits
  BY <1>3 DEF ClientExits
<1>4. CASE ChildExits
  BY <1>4 DEF ChildExits
<1>5. CASE StartClient
  BY <1>5 DEF StartClient
<1>6. CASE StartFails
  BY <1>6 DEF StartFails
<1>7. CASE Collect
  BY <1>7 DEF Collect
<1>8. ASSUME NEW s \in Streams, Read(s) PROVE GoesOnInv'
  BY <1>8 DEF Read
<1>9. ASSUME NEW s \in Streams, ReadEnd(s) PROVE GoesOnInv'
  BY <1>9 DEF ReadEnd
<1>10. CASE WaitEnds
  BY <1>10 DEF WaitEnds
<1>11. CASE GatherDone
  BY <1>11 DEF GatherDone
<1>12. CASE Deadline \/ LimitExceeded \/ Cancel
  BY <1>12 DEF Deadline, LimitExceeded, Cancel, Stop
<1>13. CASE Reaped
  BY <1>13 DEF Reaped
<1>14. CASE GraceOver
  BY <1>14 DEF GraceOver
<1>15. ASSUME NEW t \in Tasks, Unwind(t) PROVE GoesOnInv'
  BY <1>15 DEF Unwind
<1>16. CASE Joined
  BY <1>16 DEF Joined
<1>17. CASE CancelAgain
  BY <1>17 DEF CancelAgain
<1>18. CASE Elapse
  BY <1>18 DEF Elapse
<1>19. CASE UNCHANGED callVars
  BY <1>19 DEF callVars
<1> QED
  BY <1>1, <1>2, <1>3, <1>4, <1>5, <1>6, <1>7, <1>8, <1>9, <1>10, <1>11,
     <1>12, <1>13, <1>14, <1>15, <1>16, <1>17, <1>18, <1>19
     DEF CallNext, ClientStep, LoopStep

LEMMA GoesOnInvariant == CallSpec => [](CallIInv /\ GoesOnInv)
<1>1. CallInit => GoesOnInv
  BY DEF CallInit, GoesOnInv, CallGoesOn
<1>2. CallIInv /\ GoesOnInv /\ [CallNext]_callVars => GoesOnInv'
  BY GoesOnStep
<1> QED
  BY <1>1, <1>2, CallInvariant, PTL DEF CallSpec

\* A call that has not returned is never stuck, whatever the client does.
THEOREM CallsGoOn == CallSpec => []CallGoesOn
<1>1. GoesOnInv => CallGoesOn
  BY DEF GoesOnInv
<1> QED
  BY <1>1, GoesOnInvariant, PTL

LEMMA WorkIsANumber == CallIInv /\ GoesOnInv => WorkLeft \in Nat
<1> SUFFICES ASSUME CallIInv, GoesOnInv PROVE WorkLeft \in Nat
  OBVIOUS
<1>1. StagesLeft[phase] \in Nat
  BY DEF CallIInv, CallTypeOK, Phases, StagesLeft
<1>2. TimeLeft \in Nat
  BY DEF CallIInv, CallTypeOK, GoesOnInv, CallGoesOn, TimeLeft
<1>3. ClientLeft \in Nat /\ \A t \in Tasks : TaskLeft(t) \in Nat
  BY DEF ClientLeft, TaskLeft
<1>4. \A s \in Streams : Limit + 1 - got[s] \in Nat
  BY DEF CallIInv, CallTypeOK, ReadInv
<1> QED
  BY <1>1, <1>2, <1>3, <1>4 DEF WorkLeft, Tasks, Streams

LEMMA WorkStep ==
  ASSUME CallIInv, GoesOnInv, CallIInv', GoesOnInv', [CallNext]_callVars,
         WorkLeft \in Nat, WorkLeft' \in Nat
  PROVE  WorkShrinks
<1> DEFINE Less == WorkLeft' < WorkLeft
           Same == WorkLeft' = WorkLeft
<1>0. WorkLeft \in Nat /\ WorkLeft' \in Nat
  OBVIOUS
<1> USE DEF CallIInv, CallTypeOK, TaskInv, ReadInv, ClientInv, ResultInv, GoesOnInv,
            CallGoesOn, Phases, Streams, Tasks, clientVars, WorkLeft, StagesLeft, TimeLeft,
            ClientLeft, TaskLeft
<1>1. ASSUME NEW s \in Streams, ClientWrites(s) PROVE Same
  BY <1>1 DEF ClientWrites
<1>2. ClientForks \/ ChildExits => Same
  BY DEF ClientForks, ChildExits
<1>3. ClientExits => Less
  BY DEF ClientExits
<1>5. StartClient => Less
  BY DEF StartClient
<1>6. StartFails => Less
  BY DEF StartFails
<1>7. Collect => Less
  BY DEF Collect
<1>8. ASSUME NEW s \in Streams, Read(s) PROVE Less
  <2>1. /\ UNCHANGED <<phase, client, clock>>
        /\ got' = [got EXCEPT ![s] = got[s] + 1]
        /\ \A t \in Tasks : TaskLeft(t)' <= TaskLeft(t)
    BY <1>8 DEF Read
  <2>2. \A t \in Tasks : TaskLeft(t) \in Nat /\ TaskLeft(t)' \in Nat
    OBVIOUS
  <2>3. CASE s = "stdout"
    <3>1. got'["stdout"] = got["stdout"] + 1 /\ got'["stderr"] = got["stderr"]
      BY <2>1, <2>3
    <3> HIDE DEF TaskLeft
    <3> QED
      BY <2>1, <2>2, <3>1
  <2>4. CASE s = "stderr"
    <3>1. got'["stderr"] = got["stderr"] + 1 /\ got'["stdout"] = got["stdout"]
      BY <2>1, <2>4
    <3> HIDE DEF TaskLeft
    <3> QED
      BY <2>1, <2>2, <3>1
  <2> QED
    BY <2>3, <2>4
<1>9. ASSUME NEW s \in Streams, ReadEnd(s) PROVE Less
  BY <1>9 DEF ReadEnd
<1>10. WaitEnds => Less
  BY DEF WaitEnds
<1>11. GatherDone => Less
  BY DEF GatherDone
<1>12. ASSUME NEW why, Stop(why) PROVE Less
  <2>1. /\ phase = "gather" /\ phase' = "grace" /\ clock' = 0
        /\ UNCHANGED <<client, got>>
        /\ \A t \in Tasks : TaskLeft(t)' <= TaskLeft(t)
    BY <1>12 DEF Stop, Cancelling
  <2>2. \A t \in Tasks : TaskLeft(t) \in Nat /\ TaskLeft(t)' \in Nat
    OBVIOUS
  <2>3. TimeLeft' <= TimeLeft /\ TimeLeft \in Nat /\ TimeLeft' \in Nat
    BY <2>1
  <2>4. /\ StagesLeft[phase] = 4 /\ StagesLeft[phase]' = 3 /\ ClientLeft' = ClientLeft
        /\ ClientLeft \in Nat
    BY <2>1
  <2> HIDE DEF TaskLeft, TimeLeft, StagesLeft, ClientLeft
  <2> QED
    BY <2>1, <2>2, <2>3, <2>4
<1>13. Reaped => Less
  BY DEF Reaped
<1>14. GraceOver => Less
  BY DEF GraceOver
<1>15. ASSUME NEW t \in Tasks, Unwind(t) PROVE Less
  BY <1>15 DEF Unwind
<1>16. Joined => Less
  BY DEF Joined
<1>17. CancelAgain => Less
  BY DEF CancelAgain
<1>18. ASSUME Elapse PROVE Less
  <2>1. UNCHANGED <<phase, client, got, task>> /\ clock' = clock + 1
    BY <1>18 DEF Elapse
  <2>2. TimeLeft \in Nat /\ TimeLeft' \in Nat /\ TimeLeft' < TimeLeft
    BY <1>18, <2>1 DEF Elapse
  <2>3. /\ StagesLeft[phase]' = StagesLeft[phase] /\ StagesLeft[phase] \in Nat
        /\ ClientLeft' = ClientLeft /\ ClientLeft \in Nat
        /\ \A t \in Tasks : TaskLeft(t)' = TaskLeft(t) /\ TaskLeft(t) \in Nat
    BY <2>1
  <2> HIDE DEF TaskLeft, TimeLeft, StagesLeft, ClientLeft
  <2> QED
    BY <2>1, <2>2, <2>3
<1>19. UNCHANGED callVars => Same
  BY DEF callVars
<1> HIDE DEF CallIInv, CallTypeOK, TaskInv, ReadInv, ClientInv, ResultInv, GoesOnInv,
             CallGoesOn, Phases, clientVars, WorkLeft, StagesLeft, TimeLeft, ClientLeft,
             TaskLeft
<1>20. LoopStep \/ Elapse \/ Cancel \/ CancelAgain => Less
  BY <1>5, <1>6, <1>7, <1>8, <1>9, <1>10, <1>11, <1>12, <1>13, <1>14, <1>15, <1>16,
     <1>17, <1>18
  DEF LoopStep, Deadline, LimitExceeded, Cancel
<1>21. Less \/ Same
  BY <1>1, <1>2, <1>3, <1>19, <1>20 DEF CallNext, ClientStep
<1> QED
  BY <1>0, <1>20, <1>21 DEF WorkShrinks

\* A call takes no more time than its deadline and its grace period, and no more
\* steps of the event loop than its limits allow, however much the client writes,
\* forks or ignores.
THEOREM CallsAreBounded == CallSpec => CallIsBounded
<1>1. ASSUME CallIInv, GoesOnInv, CallIInv', GoesOnInv', WorkLeft \in Nat,
             (WorkLeft \in Nat)', [CallNext]_callVars
      PROVE  [WorkShrinks]_callVars
  <2>1. WorkShrinks
    BY <1>1, WorkStep
  <2> QED
    BY <2>1
<1> QED
  BY <1>1, WorkIsANumber, GoesOnInvariant, PTL DEF CallSpec, CallIsBounded

=============================================================================
