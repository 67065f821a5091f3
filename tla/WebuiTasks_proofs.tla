------------------------- MODULE WebuiTasks_proofs --------------------------
(***************************************************************************)
(* Safety of the task server for any number of tasks, requests, chat       *)
(* queries and any capacity of the queue.                                  *)
(***************************************************************************)
EXTENDS WebuiTasks, TLAPS

\* A task that was not started has no child and cannot have succeeded.
Untouched == \A t \in Tasks : t \notin started => child[t] = "none" /\ status[t] # "succeeded"

\* A task whose POST handler has not sent it is not yet the worker's business.
NotYetQueued == \A t \in Tasks : post[t] # "done" => t # cur /\ t \notin started

\* What the worker knows of the task it holds, by where it stands.
Held ==
  /\ wpc \in {"check", "register", "build"} => cur \notin started
  /\ wpc = "spawn" => cur \in started /\ child[cur] = "none" /\ status[cur] # "succeeded"
  /\ wpc = "finish" /\ outcome = "succeeded" => child[cur] = "ok"

\* The inductive invariant behind the properties of one task.
TaskInv == QueuedOnce /\ Untouched /\ NotYetQueued /\ Held /\ SucceededIsTrue

-----------------------------------------------------------------------------
(* Each action keeps the types.                                            *)

\* The types at the start.
LEMMA InitType == Init => TypeOK
BY QueueCapAssumption, NoTaskAssumption
   DEF Init, TypeOK, Status, Terminal, PostPC, WorkerPC, InRunTask, CancelPC, StopPC, ChildPC

\* Every step keeps the types.
LEMMA NextType == TypeOK /\ [Next]_vars => TypeOK'
<1> SUFFICES ASSUME TypeOK, [Next]_vars PROVE TypeOK'
  OBVIOUS
<1> USE QueueCapAssumption, NoTaskAssumption
<1> USE DEF Status, Terminal, PostPC, WorkerPC, InRunTask, CancelPC, StopPC, ChildPC,
            workerVars, stopVars, othersVars
<1>1. ASSUME NEW t \in Tasks, PostAdd(t) PROVE TypeOK'
  BY <1>1 DEF TypeOK, PostAdd, SetStatus
<1>2. ASSUME NEW t \in Tasks, PostEnqueue(t) PROVE TypeOK'
  <2>1. queue' \in Seq(Tasks) /\ Len(queue') =< QueueCap
    <3>1. CASE HasRoom
      <4>1. queue' = Append(queue, t)
        BY <1>2, <3>1 DEF PostEnqueue
      <4> QED
        BY <3>1, <4>1 DEF TypeOK, HasRoom
    <3>2. CASE ~HasRoom
      BY <1>2, <3>2 DEF TypeOK, PostEnqueue
    <3> QED
      BY <3>1, <3>2
  <2>2. post' \in [Tasks -> PostPC]
    BY <1>2 DEF TypeOK, PostEnqueue, Sent
  <2> QED
    BY <1>2, <2>1, <2>2 DEF TypeOK, PostEnqueue
<1>3. ASSUME NEW t \in Tasks, PostReject(t) PROVE TypeOK'
  BY <1>3 DEF TypeOK, PostReject, SetStatus, Refused
<1>4. CASE WorkerPop
  BY <1>4 DEF TypeOK, WorkerPop
<1>5. CASE WorkerCheck
  BY <1>5 DEF TypeOK, WorkerCheck, Skip
<1>6. CASE WorkerRegister
  BY <1>6 DEF TypeOK, WorkerRegister
<1>7. CASE WorkerBuildFails
  BY <1>7 DEF TypeOK, WorkerBuildFails, SetStatus
<1>8. CASE WorkerBegin
  BY <1>8 DEF TypeOK, WorkerBegin, SetStatus
<1>9. CASE WorkerSpawn
  BY <1>9 DEF TypeOK, WorkerSpawn
<1>10. CASE WorkerReap
  BY <1>10 DEF TypeOK, WorkerReap
<1>11. CASE WorkerClassify
  BY <1>11 DEF TypeOK, WorkerClassify, Verdict
<1>12. CASE WorkerFinish
  BY <1>12 DEF TypeOK, WorkerFinish, SetStatus
<1>13. CASE WorkerIngest
  BY <1>13 DEF TypeOK, WorkerIngest
<1>14. CASE WorkerUnregister
  BY <1>14 DEF TypeOK, WorkerUnregister, Deregistered
<1>15. ASSUME NEW t \in Tasks, ChildExit(t) \/ ChildKill(t) PROVE TypeOK'
  BY <1>15 DEF TypeOK, ChildExit, ChildKill
<1>16. ASSUME NEW c \in Chats, ChatStart(c) \/ ChatEnd(c) PROVE TypeOK'
  BY <1>16 DEF TypeOK, ChatStart, ChatEnd
<1>17. ASSUME NEW r \in Requests, Cancel(r) PROVE TypeOK'
  <2>1. CASE CancelGet(r)
    BY <2>1 DEF TypeOK, CancelGet
  <2>2. CASE CancelCheck(r) \/ CancelBranch(r) \/ CancelLookup(r)
    BY <2>2 DEF TypeOK, CancelCheck, CancelBranch, CancelLookup, Goto, Return
  <2>3. CASE CancelKill(r)
    BY <2>3 DEF TypeOK, CancelKill, Goto
  <2>4. CASE CancelMark(r)
    BY <2>4 DEF TypeOK, CancelMark, Return, SetStatus
  <2> QED
    BY <1>17, <2>1, <2>2, <2>3, <2>4 DEF Cancel
<1>18. CASE StopSignal \/ CancelAll \/ Exit
  BY <1>18 DEF TypeOK, StopSignal, CancelAll, StopLock, StopRunning, StopList, StopPending,
               StopMark, StopUnlock, Exit, SetStatus
<1>19. CASE Rest \/ UNCHANGED vars
  BY <1>19 DEF TypeOK, Rest, vars
<1> QED
  BY <1>1, <1>2, <1>3, <1>4, <1>5, <1>6, <1>7, <1>8, <1>9, <1>10, <1>11, <1>12, <1>13,
     <1>14, <1>15, <1>16, <1>17, <1>18, <1>19 DEF Next, Worker

\* Every state of the server is type correct: the tasks, the queue within its
\* capacity, the worker and its task, the handlers, the shutdown goroutine.
THEOREM TypeCorrect == Spec => []TypeOK
BY InitType, NextType, PTL DEF Spec

-----------------------------------------------------------------------------
(* The worker and the running map.                                         *)

\* A child comes to life only where the worker is in runTask.
LEMMA NextSerial ==
  TypeOK /\ RunningIsCurrent /\ SerialChildren /\ [Next]_vars
    => RunningIsCurrent' /\ SerialChildren'
<1> SUFFICES ASSUME TypeOK, RunningIsCurrent, SerialChildren, [Next]_vars
             PROVE  RunningIsCurrent' /\ SerialChildren'
  OBVIOUS
<1> USE NoTaskAssumption DEF workerVars, stopVars, othersVars, InRunTask
<1>1. CASE UNCHANGED <<workerVars, child>>
  BY <1>1 DEF RunningIsCurrent, SerialChildren
<1>2. CASE WorkerPop \/ WorkerCheck
  BY <1>2 DEF TypeOK, RunningIsCurrent, SerialChildren, WorkerPop, WorkerCheck
<1>3. CASE WorkerRegister \/ WorkerBuildFails \/ WorkerBegin
  BY <1>3 DEF TypeOK, RunningIsCurrent, SerialChildren, WorkerRegister, WorkerBuildFails,
              WorkerBegin
<1>4. CASE WorkerSpawn
  BY <1>4 DEF TypeOK, RunningIsCurrent, SerialChildren, WorkerSpawn
<1>5. CASE WorkerReap
  BY <1>5 DEF TypeOK, RunningIsCurrent, SerialChildren, WorkerReap, ChildEnded
<1>6. CASE WorkerClassify \/ WorkerFinish \/ WorkerIngest
  BY <1>6 DEF TypeOK, RunningIsCurrent, SerialChildren, WorkerClassify, WorkerFinish,
              WorkerIngest
<1>7. CASE WorkerUnregister
  BY <1>7 DEF TypeOK, RunningIsCurrent, SerialChildren, WorkerUnregister, Deregistered
<1>8. ASSUME NEW t \in Tasks, ChildExit(t) \/ ChildKill(t)
      PROVE  RunningIsCurrent' /\ SerialChildren'
  BY <1>8 DEF TypeOK, RunningIsCurrent, SerialChildren, ChildExit, ChildKill
<1>9. CASE [Next]_vars /\ ~Worker /\ ~ \E t \in Tasks : ChildExit(t) \/ ChildKill(t)
  <2>1. UNCHANGED <<workerVars, child>>
    BY <1>9 DEF Next, PostAdd, PostEnqueue, PostReject, ChatStart, ChatEnd, Cancel, CancelGet,
                CancelCheck, CancelBranch, CancelLookup, CancelKill, CancelMark, StopSignal,
                CancelAll, StopLock, StopRunning, StopList, StopPending, StopMark, StopUnlock,
                Exit, Rest, vars
  <2> QED
    BY <2>1, <1>1
<1> QED
  BY <1>2, <1>3, <1>4, <1>5, <1>6, <1>7, <1>8, <1>9 DEF Worker

\* The children of tasks run one at a time, each with the worker waiting for it
\* and its cancel function in the running map, which holds that of the task in
\* runTask and no other.
THEOREM SerialExecution == Spec => [](RunningIsCurrent /\ SerialChildren)
<1>1. Init => RunningIsCurrent /\ SerialChildren
  BY DEF Init, RunningIsCurrent, SerialChildren, InRunTask
<1> QED
  BY <1>1, NextSerial, TypeCorrect, PTL DEF Spec

\* A cancellation that looks in the running map finds the task in runTask, or nothing.
THEOREM RunningMapIsExact == Spec => []RunningIsCurrent
BY SerialExecution, PTL

-----------------------------------------------------------------------------
(* A task from its POST to its verdict.                                    *)

\* A write of a status other than "succeeded", to any task, disturbs nothing.
LEMMA StatusWrite ==
  ASSUME TypeOK, TaskInv, NEW t \in Tasks, NEW s \in Status \ {"succeeded"},
         SetStatus(t, s), UNCHANGED <<post, queue, workerVars, child>>
  PROVE  TaskInv'
BY DEF TypeOK, TaskInv, QueuedOnce, Untouched, NotYetQueued, Held, SucceededIsTrue, SetStatus,
       workerVars

\* Every step keeps what is known of a task.
LEMMA NextTask == TypeOK /\ TaskInv /\ [Next]_vars => TaskInv'
<1> SUFFICES ASSUME TypeOK, TaskInv, [Next]_vars PROVE TaskInv'
  OBVIOUS
<1> USE NoTaskAssumption DEF workerVars, stopVars, othersVars
<1>1. CASE UNCHANGED <<status, post, queue, workerVars, child>>
  BY <1>1 DEF TaskInv, QueuedOnce, Untouched, NotYetQueued, Held, SucceededIsTrue
<1>2. ASSUME NEW t \in Tasks, PostAdd(t) PROVE TaskInv'
  BY <1>2 DEF TypeOK, TaskInv, QueuedOnce, Untouched, NotYetQueued, Held, SucceededIsTrue,
              PostAdd, SetStatus
<1>3. ASSUME NEW t \in Tasks, PostEnqueue(t) PROVE TaskInv'
  <2>1. UNCHANGED <<status, workerVars, child>>
    BY <1>3 DEF PostEnqueue
  <2>2. \A u \in Tasks : u # t => post'[u] = post[u]
    BY <1>3 DEF TypeOK, PostEnqueue
  <2>3. QueuedOnce' /\ NotYetQueued'
    <3>1. CASE HasRoom
      <4>1. queue' = Append(queue, t) /\ post'[t] = "done" /\ post[t] = "enqueue"
        BY <1>3, <3>1 DEF TypeOK, PostEnqueue, Sent
      <4>2. \A i \in 1..Len(queue) : queue'[i] = queue[i] /\ queue[i] \in Tasks /\ queue[i] # t
        BY <4>1 DEF TypeOK, TaskInv, QueuedOnce
      <4>3. Len(queue') = Len(queue) + 1 /\ queue'[Len(queue) + 1] = t /\ Len(queue) \in Nat
        BY <4>1 DEF TypeOK
      <4>4. t # cur /\ t \notin started
        BY <4>1 DEF TaskInv, NotYetQueued
      <4>5. \A i, j \in 1..Len(queue') : queue'[i] = queue'[j] => i = j
        BY <4>2, <4>3 DEF TaskInv, QueuedOnce
      <4>6. \A i \in 1..Len(queue') :
              queue'[i] # cur /\ queue'[i] \notin started /\ post'[queue'[i]] = "done"
        BY <2>2, <4>1, <4>2, <4>3, <4>4 DEF TaskInv, QueuedOnce
      <4> QED
        BY <2>1, <2>2, <4>1, <4>5, <4>6 DEF QueuedOnce, TaskInv, NotYetQueued
    <3>2. CASE ~HasRoom
      <4>1. queue' = queue /\ post[t] = "enqueue" /\ post'[t] = "reject"
        BY <1>3, <3>2 DEF TypeOK, PostEnqueue
      <4> QED
        BY <2>1, <2>2, <4>1 DEF TypeOK, TaskInv, QueuedOnce, NotYetQueued
    <3> QED
      BY <3>1, <3>2
  <2> QED
    BY <2>1, <2>3 DEF TaskInv, Untouched, Held, SucceededIsTrue
<1>4. ASSUME NEW t \in Tasks, PostReject(t) PROVE TaskInv'
  BY <1>4 DEF TypeOK, TaskInv, QueuedOnce, Untouched, NotYetQueued, Held, SucceededIsTrue,
              PostReject, SetStatus, Refused
<1>5. CASE WorkerPop
  <2>1. /\ queue # <<>> /\ cur' = queue[1] /\ queue' = Tail(queue) /\ wpc' = "check"
        /\ UNCHANGED <<status, started, child, post>>
    BY <1>5 DEF WorkerPop, TypeOK
  <2>2. /\ Len(queue') = Len(queue) - 1 /\ Len(queue) \in Nat /\ Len(queue) > 0
        /\ \A i \in 1..Len(queue') : queue'[i] = queue[i + 1]
    BY <2>1 DEF TypeOK
  <2>3. QueuedOnce'
    BY <2>1, <2>2 DEF TaskInv, QueuedOnce
  <2>4. cur' \notin started /\ post[cur'] = "done"
    BY <2>1, <2>2 DEF TaskInv, QueuedOnce
  <2> QED
    BY <2>1, <2>3, <2>4 DEF TaskInv, Untouched, NotYetQueued, Held, SucceededIsTrue
<1>6. CASE WorkerCheck \/ WorkerRegister \/ WorkerReap \/ WorkerIngest \/ WorkerUnregister
  BY <1>6 DEF TypeOK, TaskInv, QueuedOnce, Untouched, NotYetQueued, Held, SucceededIsTrue,
              WorkerCheck, WorkerRegister, WorkerReap, WorkerIngest, WorkerUnregister
<1>7. CASE WorkerBuildFails \/ WorkerBegin
  BY <1>7 DEF TypeOK, TaskInv, QueuedOnce, Untouched, NotYetQueued, Held, SucceededIsTrue,
              WorkerBuildFails, WorkerBegin, SetStatus
<1>8. CASE WorkerSpawn
  BY <1>8 DEF TypeOK, TaskInv, QueuedOnce, Untouched, NotYetQueued, Held, SucceededIsTrue,
              WorkerSpawn
<1>9. CASE WorkerClassify
  BY <1>9 DEF TypeOK, TaskInv, QueuedOnce, Untouched, NotYetQueued, Held, SucceededIsTrue,
              WorkerClassify, Verdict
<1>10. CASE WorkerFinish
  BY <1>10 DEF TypeOK, TaskInv, QueuedOnce, Untouched, NotYetQueued, Held, SucceededIsTrue,
               WorkerFinish, SetStatus
<1>11. ASSUME NEW t \in Tasks, ChildExit(t) \/ ChildKill(t) PROVE TaskInv'
  BY <1>11 DEF TypeOK, TaskInv, QueuedOnce, Untouched, NotYetQueued, Held, SucceededIsTrue,
               ChildExit, ChildKill
<1>12. ASSUME NEW r \in Requests, CancelMark(r) PROVE TaskInv'
  <2>1. req[r].task \in Tasks
    BY <1>12 DEF TypeOK, CancelMark
  <2> QED
    BY <1>12, <2>1, StatusWrite DEF CancelMark, Status, Terminal
<1>13. CASE StopRunning \/ StopMark
  BY <1>13, StatusWrite DEF TypeOK, StopRunning, StopMark, Status, Terminal
<1>14. CASE \/ \E r \in Requests : Cancel(r) /\ ~CancelMark(r)
            \/ \E c \in Chats : ChatStart(c) \/ ChatEnd(c)
            \/ StopSignal \/ (CancelAll /\ ~StopRunning /\ ~StopMark) \/ Exit
            \/ Rest \/ UNCHANGED vars
  BY <1>1, <1>14 DEF ChatStart, ChatEnd, Cancel, CancelGet, CancelCheck, CancelBranch,
     CancelLookup, CancelKill, StopSignal, CancelAll, StopLock, StopList, StopPending,
     StopUnlock, Exit, Rest, vars
<1> QED
  BY <1>2, <1>3, <1>4, <1>5, <1>6, <1>7, <1>8, <1>9, <1>10, <1>11, <1>12, <1>13, <1>14
     DEF Next, Worker

\* The invariant holds.
LEMMA TaskInvariant == Spec => []TaskInv
<1>1. Init => TaskInv
  BY NoTaskAssumption
     DEF Init, TaskInv, QueuedOnce, Untouched, NotYetQueued, Held, SucceededIsTrue
<1> QED
  BY <1>1, NextTask, TypeCorrect, PTL DEF Spec

\* A task is worked on at most once: no duplicate in the queue, none of what the
\* worker holds or has started.
THEOREM TasksQueuedOnce == Spec => []QueuedOnce
BY TaskInvariant, PTL DEF TaskInv

\* "succeeded" means that the task's child ran and exited with success.
THEOREM SuccessIsTrue == Spec => []SucceededIsTrue
BY TaskInvariant, PTL DEF TaskInv

\* A task refused with "task queue is full" never runs.
THEOREM RejectedIsFinal == Spec => []RejectedNeverRuns
<1>1. TaskInv => RejectedNeverRuns
  BY DEF TaskInv, NotYetQueued, Untouched, RejectedNeverRuns
<1> QED
  BY <1>1, TaskInvariant, PTL

\* No task is started twice.
THEOREM TasksStartedOnce == Spec => StartedOnce
<1>1. TypeOK /\ TaskInv /\ [Next]_vars
        => \A t \in Tasks : (wpc # "spawn" /\ wpc' = "spawn" /\ cur' = t) => t \notin started
  <2> SUFFICES ASSUME TypeOK, TaskInv, [Next]_vars, wpc # "spawn", wpc' = "spawn"
               PROVE  cur' \notin started
    OBVIOUS
  <2>1. WorkerBegin
    BY DEF Next, Worker, PostAdd, PostEnqueue, PostReject, WorkerPop, WorkerCheck, WorkerRegister,
           WorkerBuildFails, WorkerSpawn, WorkerReap, WorkerClassify, WorkerFinish, WorkerIngest,
           WorkerUnregister, ChildExit, ChildKill, ChatStart, ChatEnd, Cancel, CancelGet,
           CancelCheck, CancelBranch, CancelLookup, CancelKill, CancelMark, StopSignal, CancelAll,
           StopLock, StopRunning, StopList, StopPending, StopMark, StopUnlock, Exit, Rest, vars,
           workerVars
  <2> QED
    BY <2>1 DEF WorkerBegin, TaskInv, Held
<1> QED
  BY <1>1, TypeCorrect, TaskInvariant, PTL DEF Spec, StartedOnce

\* A cancellation that reaches a task before the worker has looked at it is final.
THEOREM QueuedCancelIsFinal == Spec => QueuedCancelSticks
<1>1. ASSUME TypeOK, TaskInv, [Next]_vars, NEW t \in Tasks, status[t] = "canceled", Waiting(t)
      PROVE  /\ status'[t] = "canceled"
             /\ ~(wpc' \in InRunTask \union {"register"} /\ cur' = t)
  <2> USE <1>1, NoTaskAssumption DEF workerVars, stopVars, othersVars, InRunTask
  <2>1. /\ post[t] = "done"
        /\ cur = t => wpc = "check"
    BY DEF TypeOK, TaskInv, QueuedOnce, NotYetQueued, Waiting
  <2> DEFINE Goal == /\ status'[t] = "canceled"
                     /\ ~(wpc' \in InRunTask \union {"register"} /\ cur' = t)
  <2>2. CASE UNCHANGED <<status, workerVars>>
    BY <2>1, <2>2
  <2>3. ASSUME NEW u \in Tasks, PostAdd(u) \/ PostReject(u) PROVE Goal
    BY <2>1, <2>3 DEF TypeOK, PostAdd, PostReject, SetStatus
  <2>4. CASE WorkerPop \/ WorkerCheck
    BY <2>1, <2>4 DEF TypeOK, WorkerPop, WorkerCheck, Skip
  <2>5. CASE WorkerBuildFails \/ WorkerBegin \/ WorkerFinish
    BY <2>1, <2>5 DEF TypeOK, WorkerBuildFails, WorkerBegin, WorkerFinish, SetStatus
  <2>6. CASE WorkerRegister \/ WorkerSpawn \/ WorkerReap \/ WorkerClassify \/ WorkerIngest
             \/ WorkerUnregister
    BY <2>1, <2>6 DEF TypeOK, WorkerRegister, WorkerSpawn, WorkerReap, WorkerClassify,
                      WorkerIngest, WorkerUnregister
  <2>7. ASSUME NEW r \in Requests, CancelMark(r) PROVE Goal
    BY <2>1, <2>7 DEF TypeOK, CancelMark, SetStatus
  <2>8. CASE StopRunning \/ StopMark
    BY <2>1, <2>8 DEF TypeOK, StopRunning, StopMark, SetStatus
  <2>9. CASE \/ \E u \in Tasks : PostEnqueue(u) \/ ChildExit(u) \/ ChildKill(u)
             \/ \E r \in Requests : Cancel(r) /\ ~CancelMark(r)
             \/ \E c \in Chats : ChatStart(c) \/ ChatEnd(c)
             \/ StopSignal \/ (CancelAll /\ ~StopRunning /\ ~StopMark) \/ Exit
             \/ Rest \/ UNCHANGED vars
    <3>1. UNCHANGED <<status, workerVars>>
      BY <2>9 DEF PostEnqueue, ChildExit, ChildKill, ChatStart, ChatEnd, Cancel, CancelGet,
         CancelCheck, CancelBranch, CancelLookup, CancelKill, StopSignal, CancelAll, StopLock,
         StopList, StopPending, StopUnlock, Exit, Rest, vars
    <3> QED
      BY <3>1, <2>2
  <2> QED
    BY <2>3, <2>4, <2>5, <2>6, <2>7, <2>8, <2>9 DEF Next, Worker
<1>2. TypeOK /\ TaskInv /\ [Next]_vars
        => \A t \in Tasks : status[t] = "canceled" /\ Waiting(t)
             => /\ status'[t] = "canceled"
                /\ ~(wpc' \in InRunTask \union {"register"} /\ cur' = t)
  BY <1>1
<1> QED
  BY <1>2, TypeCorrect, TaskInvariant, PTL DEF Spec, QueuedCancelSticks
=============================================================================
