----------------------------- MODULE WebuiTasks -----------------------------
(***************************************************************************)
(* The life of a task in `tdl webui` (app/webui/webui.go): the HTTP        *)
(* handlers that create and cancel tasks, the one worker goroutine that    *)
(* takes tasks from the queue and runs each as a child process, the        *)
(* `running` map through which a cancellation finds the child, the chat    *)
(* query that runs a child of its own, and the shutdown goroutine.         *)
(*                                                                         *)
(* A step is what a goroutine does between two accesses to state others    *)
(* also access.  Task.Status has no lock: handlers, worker and shutdown    *)
(* read and write it directly, so each read and each write is a step.      *)
(* Critical sections of s.mu are one step, except the one of CancelAll,    *)
(* which is long: the mutex is held while stop is in CancelAllHolds.       *)
(* Events are the subject of EventStream; publishing never blocks and      *)
(* changes nothing modelled here.                                          *)
(***************************************************************************)
EXTENDS Naturals, Sequences, FiniteSets

CONSTANTS
  Tasks,      \* the tasks clients may post; a task's POST handler bears its name
  Requests,   \* DELETE /api/tasks/{id} requests, each served by a goroutine
  Chats,      \* GET /api/chats requests
  QueueCap,   \* capacity of Server.queue (100 in New)
  NoTask

ASSUME QueueCapAssumption == QueueCap \in Nat \ {0}
ASSUME NoTaskAssumption   == NoTask \notin Tasks

VARIABLES
  status,    \* Task.Status; "none": the task is not in the Manager
  post,      \* where the POST handler of a task stands
  queue,     \* Server.queue
  wpc, cur,  \* where the worker stands, and the task it holds
  outcome,   \* the status runTask has chosen and not yet written
  running,   \* the keys of Server.running
  ctxDone,   \* tasks whose runTask context has been cancelled
  started,   \* tasks with a StartedAt
  shown,     \* tasks whose output has been ingested and published
  child,     \* the child process of a task
  req,       \* where a DELETE handler stands, and its task
  chat,      \* the child process of a chat query
  stop, todo, marking  \* the shutdown goroutine: where it stands, the tasks its
                       \* loop has left, the pending one it is about to mark

vars == <<status, post, queue, wpc, cur, outcome, running, ctxDone, started,
          shown, child, req, chat, stop, todo, marking>>
workerVars == <<wpc, cur, outcome, running, started, shown>>
stopVars   == <<stop, todo, marking>>
othersVars == <<post, ctxDone, req, chat, stopVars>>  \* what the worker leaves alone

Terminal == {"succeeded", "failed", "canceled"}
Status   == {"none", "pending", "running"} \union Terminal

CancelAllHolds == {"running", "pending"}
MuFree  == stop \notin CancelAllHolds
Serving == stop = "wait"
Alive   == stop # "exited"

\* The worker is inside runTask, between registering the cancel function and
\* the deferred delete.
InRunTask == {"build", "spawn", "wait", "classify", "finish", "ingest", "unregister"}

Init ==
  /\ status = [t \in Tasks |-> "none"]
  /\ post   = [t \in Tasks |-> "idle"]
  /\ queue  = <<>>
  /\ wpc = "pop" /\ cur = NoTask /\ outcome = "none"
  /\ running = {} /\ ctxDone = {} /\ started = {} /\ shown = {}
  /\ child = [t \in Tasks |-> "none"]
  /\ req   = [r \in Requests |-> [pc |-> "idle", task |-> NoTask]]
  /\ chat  = [c \in Chats |-> "idle"]
  /\ stop = "wait" /\ todo = {} /\ marking = {}

SetStatus(t, s) == status' = [status EXCEPT ![t] = s]

-----------------------------------------------------------------------------
(* POST /api/tasks: handleTasks.                                           *)

PostAdd(t) ==
  /\ Serving /\ post[t] = "idle"
  /\ post' = [post EXCEPT ![t] = "enqueue"]
  /\ SetStatus(t, "pending")
  /\ UNCHANGED <<queue, workerVars, ctxDone, child, req, chat, stopVars>>

\* (An operator "wrong on purpose" stands in for the next one when the properties
\* are put to the test.)
\* Wrong on purpose: an off-by-one; a send tried again after it went through.
HasRoomOffByOne == Len(queue) =< QueueCap
SentTwice       == "enqueue"
HasRoom         == Len(queue) < QueueCap
Sent            == "done"

\* The select with a default: the task enters the queue, or the handler goes on
\* to write "task queue is full".
PostEnqueue(t) ==
  /\ Alive /\ post[t] = "enqueue"
  /\ IF HasRoom
     THEN queue' = Append(queue, t) /\ post' = [post EXCEPT ![t] = Sent]
     ELSE UNCHANGED queue /\ post' = [post EXCEPT ![t] = "reject"]
  /\ UNCHANGED <<status, workerVars, ctxDone, child, req, chat, stopVars>>

\* Wrong on purpose: the refused task keeps its status.
RefusedSilently == "pending"
Refused         == "failed"

PostReject(t) ==
  /\ Alive /\ post[t] = "reject"
  /\ post' = [post EXCEPT ![t] = "rejected"]
  /\ SetStatus(t, Refused)
  /\ UNCHANGED <<queue, workerVars, ctxDone, child, req, chat, stopVars>>

-----------------------------------------------------------------------------
(* The worker goroutine: worker and runTask.                               *)

WorkerPop ==
  /\ Alive /\ wpc = "pop" /\ queue # <<>>
  /\ cur' = Head(queue) /\ queue' = Tail(queue) /\ wpc' = "check"
  /\ UNCHANGED <<status, outcome, running, started, shown, child, othersVars>>

\* Wrong on purpose: the worker does not look.
SkipNothing == FALSE
Skip        == status[cur] = "canceled"

\* The worker's read of the status: a task canceled while it was queued is dropped.
WorkerCheck ==
  /\ Alive /\ wpc = "check"
  /\ IF Skip
     THEN wpc' = "pop" /\ cur' = NoTask
     ELSE wpc' = "register" /\ UNCHANGED cur
  /\ UNCHANGED <<status, queue, outcome, running, started, shown, child, othersVars>>

WorkerRegister ==
  /\ Alive /\ wpc = "register" /\ MuFree
  /\ running' = running \union {cur} /\ wpc' = "build"
  /\ UNCHANGED <<status, queue, cur, outcome, started, shown, child, othersVars>>

\* Runner.Build refuses the task's type or arguments.
WorkerBuildFails ==
  /\ Alive /\ wpc = "build"
  /\ SetStatus(cur, "failed") /\ wpc' = "unregister"
  /\ UNCHANGED <<queue, cur, outcome, running, started, shown, child, othersVars>>

WorkerBegin ==
  /\ Alive /\ wpc = "build"
  /\ SetStatus(cur, "running") /\ started' = started \union {cur} /\ wpc' = "spawn"
  /\ UNCHANGED <<queue, cur, outcome, running, shown, child, othersVars>>

\* cmd.Run starts the child unless its context is done or the start fails.
WorkerSpawn ==
  /\ Alive /\ wpc = "spawn"
  /\ \/ /\ cur \notin ctxDone
        /\ child' = [child EXCEPT ![cur] = "alive"] /\ wpc' = "wait"
     \/ wpc' = "classify" /\ UNCHANGED child
  /\ UNCHANGED <<status, queue, cur, outcome, running, started, shown, othersVars>>

\* Wrong on purpose: cmd.Start in place of cmd.Run, the child is not waited for.
ReapAtOnce == TRUE
ChildEnded == child[cur] # "alive"

WorkerReap ==
  /\ Alive /\ wpc = "wait" /\ ChildEnded
  /\ wpc' = "classify"
  /\ UNCHANGED <<status, queue, cur, outcome, running, started, shown, child, othersVars>>

\* Wrong on purpose: the child's exit is not looked at; the context is not.
VerdictLax   == IF cur \in ctxDone THEN "canceled" ELSE "succeeded"
VerdictNoCtx == IF child[cur] = "ok" THEN "succeeded" ELSE "failed"
Verdict      == IF cur \in ctxDone THEN "canceled"
                ELSE IF child[cur] = "ok" THEN "succeeded" ELSE "failed"

\* runTask reads ctx.Err() and the child's exit, then writes the status.
WorkerClassify ==
  /\ Alive /\ wpc = "classify"
  /\ outcome' = Verdict /\ wpc' = "finish"
  /\ UNCHANGED <<status, queue, cur, running, started, shown, child, othersVars>>

WorkerFinish ==
  /\ Alive /\ wpc = "finish"
  /\ SetStatus(cur, outcome) /\ outcome' = "none" /\ wpc' = "ingest"
  /\ UNCHANGED <<queue, cur, running, started, shown, child, othersVars>>

\* ingestOutput: the QR link, the progress and the log of the whole run.
WorkerIngest ==
  /\ Alive /\ wpc = "ingest"
  /\ shown' = shown \union {cur} /\ wpc' = "unregister"
  /\ UNCHANGED <<status, queue, cur, outcome, running, started, child, othersVars>>

\* Wrong on purpose: the deferred delete is forgotten.
StillRegistered == running
Deregistered    == running \ {cur}

WorkerUnregister ==
  /\ Alive /\ wpc = "unregister" /\ MuFree
  /\ running' = Deregistered /\ cur' = NoTask /\ wpc' = "pop"
  /\ UNCHANGED <<status, queue, outcome, started, shown, child, othersVars>>

Worker ==
  \/ WorkerPop \/ WorkerCheck \/ WorkerRegister \/ WorkerBuildFails \/ WorkerBegin
  \/ WorkerSpawn \/ WorkerReap \/ WorkerClassify \/ WorkerFinish \/ WorkerIngest
  \/ WorkerUnregister

-----------------------------------------------------------------------------
(* Child processes.  exec.CommandContext kills the child once its context  *)
(* is done, as long as the server lives; a child outlives the server.      *)

ChildExit(t) ==
  /\ child[t] = "alive"
  /\ \E e \in {"ok", "error"} : child' = [child EXCEPT ![t] = e]
  /\ UNCHANGED <<status, post, queue, workerVars, ctxDone, req, chat, stopVars>>

ChildKill(t) ==
  /\ Alive /\ child[t] = "alive" /\ t \in ctxDone
  /\ child' = [child EXCEPT ![t] = "error"]
  /\ UNCHANGED <<status, post, queue, workerVars, ctxDone, req, chat, stopVars>>

(* GET /api/chats: handleChats runs `tdl chat ls` in the handler.          *)

ChatStart(c) ==
  /\ Serving /\ chat[c] = "idle" /\ chat' = [chat EXCEPT ![c] = "alive"]
  /\ UNCHANGED <<status, post, queue, workerVars, ctxDone, child, req, stopVars>>

ChatEnd(c) ==
  /\ chat[c] = "alive" /\ chat' = [chat EXCEPT ![c] = "idle"]
  /\ UNCHANGED <<status, post, queue, workerVars, ctxDone, child, req, stopVars>>

-----------------------------------------------------------------------------
(* DELETE /api/tasks/{id}: handleTask and cancelTask.                      *)

Goto(r, pc) == req' = [req EXCEPT ![r].pc = pc]
Return(r)   == req' = [req EXCEPT ![r] = [pc |-> "done", task |-> NoTask]]

\* mgr.Get finds the task, or the request is answered 404.
CancelGet(r) ==
  /\ Serving /\ req[r].pc = "idle"
  /\ \E t \in Tasks :
       /\ status[t] # "none"
       /\ req' = [req EXCEPT ![r] = [pc |-> "check", task |-> t]]
  /\ UNCHANGED <<status, post, queue, workerVars, ctxDone, child, chat, stopVars>>

\* First read of the status: a finished task is left alone.
CancelCheck(r) ==
  /\ Alive /\ req[r].pc = "check"
  /\ IF status[req[r].task] \in {"pending", "running"} THEN Goto(r, "branch") ELSE Return(r)
  /\ UNCHANGED <<status, post, queue, workerVars, ctxDone, child, chat, stopVars>>

\* Second read of the status: still queued, or not.
CancelBranch(r) ==
  /\ Alive /\ req[r].pc = "branch"
  /\ Goto(r, IF status[req[r].task] = "pending" THEN "mark" ELSE "lookup")
  /\ UNCHANGED <<status, post, queue, workerVars, ctxDone, child, chat, stopVars>>

\* The cancel function, if the task is registered.
CancelLookup(r) ==
  /\ Alive /\ req[r].pc = "lookup" /\ MuFree
  /\ Goto(r, IF req[r].task \in running THEN "kill" ELSE "mark")
  /\ UNCHANGED <<status, post, queue, workerVars, ctxDone, child, chat, stopVars>>

CancelKill(r) ==
  /\ Alive /\ req[r].pc = "kill"
  /\ ctxDone' = ctxDone \union {req[r].task}
  /\ Goto(r, "mark")
  /\ UNCHANGED <<status, post, queue, workerVars, child, chat, stopVars>>

\* Both branches of cancelTask end by writing the status.
CancelMark(r) ==
  /\ Alive /\ req[r].pc = "mark"
  /\ SetStatus(req[r].task, "canceled")
  /\ Return(r)
  /\ UNCHANGED <<post, queue, workerVars, ctxDone, child, chat, stopVars>>

Cancel(r) == \/ CancelGet(r) \/ CancelCheck(r) \/ CancelBranch(r)
             \/ CancelLookup(r) \/ CancelKill(r) \/ CancelMark(r)

-----------------------------------------------------------------------------
(* Shutdown: the goroutine in Run, CancelAll, and the return of main.      *)

\* The signal context is done; Shutdown closes the listener and waits for the
\* handlers in progress, 5 seconds at most.
StopSignal ==
  /\ stop = "wait" /\ stop' = "shutdown"
  /\ UNCHANGED <<status, post, queue, workerVars, ctxDone, child, req, chat, todo, marking>>

\* CancelAll takes s.mu and ranges over the running map ...
StopLock ==
  /\ stop = "shutdown" /\ stop' = "running" /\ todo' = running
  /\ UNCHANGED <<status, post, queue, workerVars, ctxDone, child, req, chat, marking>>

StopRunning ==
  /\ stop = "running"
  /\ \E t \in todo : /\ ctxDone' = ctxDone \union {t}
                     /\ SetStatus(t, "canceled")
                     /\ todo' = todo \ {t}
  /\ UNCHANGED <<post, queue, workerVars, child, req, chat, stop, marking>>

\* ... then over the list of tasks it finds in the Manager ...
StopList ==
  /\ stop = "running" /\ todo = {}
  /\ stop' = "pending" /\ todo' = {t \in Tasks : status[t] # "none"}
  /\ UNCHANGED <<status, post, queue, workerVars, ctxDone, child, req, chat, marking>>

StopPending ==
  /\ stop = "pending" /\ marking = {}
  /\ \E t \in todo : /\ todo' = todo \ {t}
                     /\ marking' = IF status[t] = "pending" THEN {t} ELSE {}
  /\ UNCHANGED <<status, post, queue, workerVars, ctxDone, child, req, chat, stop>>

StopMark ==
  /\ stop = "pending"
  /\ \E t \in marking : SetStatus(t, "canceled")
  /\ marking' = {}
  /\ UNCHANGED <<post, queue, workerVars, ctxDone, child, req, chat, stop, todo>>

\* Wrong on purpose: CancelAll never gets to its deferred unlock.
StopUnlockNever ==
  /\ stop = "pending" /\ todo = {} /\ marking = {} /\ UNCHANGED vars

\* ... and releases it.
StopUnlock ==
  /\ stop = "pending" /\ todo = {} /\ marking = {} /\ stop' = "done"
  /\ UNCHANGED <<status, post, queue, workerVars, ctxDone, child, req, chat, todo, marking>>

\* ListenAndServe returns as soon as Shutdown begins, then Run and main: the
\* process may be gone before CancelAll ends, or begins.
Exit ==
  /\ stop \notin {"wait", "exited"} /\ stop' = "exited"
  /\ UNCHANGED <<status, post, queue, workerVars, ctxDone, child, req, chat, todo, marking>>

CancelAll == \/ StopLock \/ StopRunning \/ StopList \/ StopPending \/ StopMark \/ StopUnlock

\* Everything asked of the server is done, or the server is gone.
Rest ==
  /\ \/ /\ stop \in {"wait", "done"} /\ wpc = "pop" /\ queue = <<>>
        /\ \A t \in Tasks : post[t] \in {"idle", "done", "rejected"}
        /\ \A r \in Requests : req[r].pc \in {"idle", "done"}
        /\ \A c \in Chats : chat[c] # "alive"
     \/ stop = "exited"
  /\ UNCHANGED vars

Next ==
  \/ \E t \in Tasks : PostAdd(t) \/ PostEnqueue(t) \/ PostReject(t)
  \/ Worker
  \/ \E t \in Tasks : ChildExit(t) \/ ChildKill(t)
  \/ \E c \in Chats : ChatStart(c) \/ ChatEnd(c)
  \/ \E r \in Requests : Cancel(r)
  \/ StopSignal \/ CancelAll \/ Exit
  \/ Rest

Spec == Init /\ [][Next]_vars

\* The scheduler runs every goroutine that can run, and exec's watcher kills the
\* child of a done context.  Clients, chat queries and signals owe nothing, and
\* neither does the exit of the process.
Scheduling ==
  /\ WF_vars(Worker)
  /\ \A t \in Tasks : WF_vars(PostEnqueue(t)) /\ WF_vars(PostReject(t)) /\ WF_vars(ChildKill(t))
  /\ \A r \in Requests : WF_vars(Cancel(r) /\ req[r].pc # "idle")
  /\ WF_vars(CancelAll)

FairSpec == Spec /\ Scheduling

\* Every child ends of its own: no code guarantees it, a property that needs it says so.
ChildrenEnd == \A t \in Tasks : WF_vars(ChildExit(t))

-----------------------------------------------------------------------------
(* Correctness.                                                            *)

PostPC   == {"idle", "enqueue", "reject", "done", "rejected"}
WorkerPC == {"pop", "check", "register"} \union InRunTask
CancelPC == {"idle", "check", "branch", "lookup", "kill", "mark", "done"}
StopPC   == {"wait", "shutdown", "running", "pending", "done", "exited"}
ChildPC  == {"none", "alive", "ok", "error"}

\* The types of the variables of Server, Task and the goroutines' locals.
TypeOK ==
  /\ status \in [Tasks -> Status]
  /\ post \in [Tasks -> PostPC]
  /\ queue \in Seq(Tasks) /\ Len(queue) =< QueueCap
  /\ wpc \in WorkerPC
  /\ cur \in Tasks \union {NoTask} /\ (cur = NoTask <=> wpc = "pop")
  /\ outcome \in Terminal \union {"none"} /\ (outcome = "none" <=> wpc # "finish")
  /\ running \subseteq Tasks /\ ctxDone \subseteq Tasks
  /\ started \subseteq Tasks /\ shown \subseteq Tasks
  /\ child \in [Tasks -> ChildPC]
  /\ req \in [Requests -> [pc : CancelPC, task : Tasks \union {NoTask}]]
  /\ \A r \in Requests : req[r].task = NoTask <=> req[r].pc \in {"idle", "done"}
  /\ chat \in [Chats -> {"idle", "alive"}]
  /\ stop \in StopPC /\ todo \subseteq Tasks /\ marking \subseteq Tasks

\* The reason for the queue (webui.go:44-45, 218-220): the children of tasks run
\* one at a time, each while the worker waits for it and while its cancel
\* function is in the running map, so that a cancellation can reach it.
SerialChildren ==
  \A t \in Tasks : child[t] = "alive" => wpc = "wait" /\ cur = t /\ t \in running

\* running holds the cancel function of the task inside runTask and no other: no
\* path out of runTask leaves one behind, whatever ran meanwhile.
RunningIsCurrent ==
  running = IF wpc \in InRunTask THEN {cur} ELSE {}

\* A task is worked on at most once: it is in the queue at most once, not while
\* the worker holds it, and not once it has been started or turned away.
QueuedOnce ==
  /\ \A i, j \in 1..Len(queue) : queue[i] = queue[j] => i = j
  /\ \A i \in 1..Len(queue) : /\ queue[i] # cur
                              /\ queue[i] \notin started
                              /\ post[queue[i]] = "done"

\* A task reported as succeeded has run, and its child exited with success.
SucceededIsTrue ==
  \A t \in Tasks : status[t] = "succeeded" => t \in started /\ child[t] = "ok"

\* A client told "task queue is full" never sees that task run afterwards.
RejectedNeverRuns ==
  \A t \in Tasks : post[t] = "rejected" => t \notin started /\ child[t] = "none"

\* The task waits in the queue, or the worker has just taken it out.
Waiting(t) == (\E i \in 1..Len(queue) : queue[i] = t) \/ (wpc = "check" /\ cur = t)

\* Canceling a task that waits is final (the skip in worker): it is neither given
\* another status nor started, by any goroutine.
QueuedCancelSticks ==
  [][\A t \in Tasks : status[t] = "canceled" /\ Waiting(t)
       => /\ status'[t] = "canceled"
          /\ ~(wpc' \in InRunTask \union {"register"} /\ cur' = t)]_vars

\* No task is started twice, whatever is posted and canceled around it.
StartedOnce ==
  [][\A t \in Tasks : (wpc # "spawn" /\ wpc' = "spawn" /\ cur' = t) => t \notin started]_vars

\* Once cancel() has been called on a living child it dies, the task ends as
\* canceled and the worker moves on, unless the server process ends first.
CancelTakesEffect ==
  \A t \in Tasks : (t \in ctxDone /\ child[t] = "alive")
    ~> (child[t] # "alive" /\ status[t] = "canceled" /\ cur # t) \/ ~Alive

\* If children end, every task a client posts gets a final status and keeps
\* having one.
TasksSettle ==
  ChildrenEnd => \A t \in Tasks : <>[](~Alive \/ status[t] \in Terminal \union {"none"})

\* A DELETE request that has been accepted is answered, also while CancelAll
\* holds the mutex.
CancelAnswered ==
  \A r \in Requests : req[r].pc # "idle" ~> req[r].pc = "done" \/ ~Alive

-----------------------------------------------------------------------------
(* What comments and documents say and the code does not do.               *)

\* webui.go:343: a task marked canceled in the "still queued" branch is skipped
\* by the worker, so no child runs under it that nobody has cancelled.
CanceledIsStopped ==
  \A t \in Tasks : status[t] = "canceled" /\ child[t] = "alive" => t \in ctxDone
=============================================================================
