----------------------------- MODULE EventStream -----------------------------
(***************************************************************************)
(* How a browser page learns about tasks: the broker (app/webui/sse.go),   *)
(* the /api/events handler, and the page (index.html).                     *)
(*                                                                         *)
(* An Event carries the *Task itself and is marshalled when the handler    *)
(* writes it, so what counts of a task is how often it was changed: its    *)
(* version (0: not in the Manager).  Every goroutine that changes a task   *)
(* publishes it afterwards (handleTasks, cancelTask, CancelAll, runTask,   *)
(* ingestOutput: a Publisher); WebuiTasks models what they change.         *)
(***************************************************************************)
EXTENDS Naturals, Sequences, FiniteSets

CONSTANTS
  Tasks, Publishers, Pages,
  ChanCap,      \* capacity of a subscriber's channel (256 in subscribe)
  MaxVersion,   \* bound: how often a task is changed
  NoTask

ASSUME ConstantsAssumption ==
  ChanCap \in Nat \ {0} /\ MaxVersion \in Nat \ {0} /\ NoTask \notin Tasks

VARIABLES
  version,     \* how often a task has been changed
  pub,         \* the task a goroutine has changed and is about to publish
  stream,      \* where the /api/events handler of a page stands
  subscribed,  \* pages whose channel is in broker.subscribers
  closed,      \* pages whose channel has been closed
  ch,          \* the channel of a page
  todo,        \* tasks of the handler's initial snapshot still to be written
  view,        \* the version of a task the page shows
  fetch,       \* where the page's GET /api/tasks stands
  answer,      \* and the answer on its way
  posting,     \* the POST of a page a goroutine serves: <<page, task>>, or <<>>
  reply,       \* the answer on its way to a page's POST of a task (0: none)
  missed,      \* tasks whose last event was dropped for a page (history)
  undone       \* tasks whose view an old answer has replaced for good (history)

streamVars == <<stream, subscribed, closed, ch, todo, view, fetch, answer, missed, undone>>
taskVars == <<version, pub, posting>>
vars == <<taskVars, reply, streamVars>>

Versions == [Tasks -> 0..MaxVersion]
Listed   == {t \in Tasks : version[t] > 0}
None     == [t \in Tasks |-> 0]

Init ==
  /\ version = None
  /\ pub = [p \in Publishers |-> NoTask]
  /\ stream = [s \in Pages |-> "away"]
  /\ subscribed = {} /\ closed = {}
  /\ ch = [s \in Pages |-> <<>>]
  /\ todo = [s \in Pages |-> {}]
  /\ view = [s \in Pages |-> None]
  /\ fetch = [s \in Pages |-> "none"] /\ answer = [s \in Pages |-> None]
  /\ posting = [p \in Publishers |-> <<>>] /\ reply = [s \in Pages |-> None]
  /\ missed = [s \in Pages |-> {}] /\ undone = [s \in Pages |-> {}]

-----------------------------------------------------------------------------
(* Goroutines that change tasks.                                           *)

\* Manager.Add for a client whose answer no page shows (the login button's, say), or
\* a write to a listed task: the goroutine of a POST writes to its own, which the
\* full queue has refused.
Change(p, t) ==
  /\ pub[p] = NoTask /\ version[t] < MaxVersion
  /\ posting[p] # <<>> => posting[p][2] = t
  /\ version' = [version EXCEPT ![t] = @ + 1]
  /\ pub' = [pub EXCEPT ![p] = t]
  /\ UNCHANGED <<posting, reply, streamVars>>

\* btn-create's POST /api/tasks: the task is made and added.
Post(p, s, t) ==
  /\ pub[p] = NoTask /\ posting[p] = <<>> /\ version[t] = 0
  /\ version' = [version EXCEPT ![t] = 1]
  /\ pub' = [pub EXCEPT ![p] = t] /\ posting' = [posting EXCEPT ![p] = <<s, t>>]
  /\ UNCHANGED <<reply, streamVars>>

\* The handler's last line marshals the task, as it is by now.
PostAnswer(p) ==
  /\ pub[p] = NoTask /\ posting[p] # <<>>
  /\ LET s == posting[p][1]
         t == posting[p][2] IN reply' = [reply EXCEPT ![s][t] = version[t]]
  /\ posting' = [posting EXCEPT ![p] = <<>>]
  /\ UNCHANGED <<version, pub, streamVars>>

\* (An operator "wrong on purpose" stands in for the next one when the properties are
\* put to the test.)
\* Wrong on purpose: one event more than the channel holds.
HasRoomOffByOne(s) == Len(ch[s]) =< ChanCap
HasRoom(s) == Len(ch[s]) < ChanCap

\* broker.publish: under broker.mu, a send to every subscriber that has room.
\* (A send to a closed channel would end the process: NoSendOnClosed.)
Publish(p) ==
  /\ pub[p] # NoTask
  /\ LET t == pub[p]
         sent == {s \in subscribed : HasRoom(s)} IN
     /\ ch' = [s \in Pages |-> IF s \in sent THEN Append(ch[s], t) ELSE ch[s]]
     /\ missed' = [s \in Pages |-> IF s \in sent THEN missed[s] \ {t}
                                   ELSE IF s \in subscribed THEN missed[s] \union {t}
                                   ELSE missed[s]]
     /\ undone' = [s \in Pages |-> IF s \in sent THEN undone[s] \ {t} ELSE undone[s]]
  /\ pub' = [pub EXCEPT ![p] = NoTask]
  /\ UNCHANGED <<version, posting, reply, stream, subscribed, closed, todo, view, fetch, answer>>

-----------------------------------------------------------------------------
(* handleEvents.                                                           *)

\* Wrong on purpose: the channel is made and not registered.
SubscribedUnregistered(s) == subscribed
SubscribedWith(s)         == subscribed \union {s}

Connect(s) ==
  /\ stream[s] = "away"
  /\ stream' = [stream EXCEPT ![s] = "list"]
  /\ subscribed' = SubscribedWith(s) /\ closed' = closed \ {s}
  /\ ch' = [ch EXCEPT ![s] = <<>>]
  /\ UNCHANGED <<taskVars, reply, todo, view, fetch, answer, missed, undone>>

\* The initial snapshot: the list first ...
List(s) ==
  /\ stream[s] = "list"
  /\ stream' = [stream EXCEPT ![s] = "snapshot"]
  /\ todo' = [todo EXCEPT ![s] = Listed]
  /\ missed' = [missed EXCEPT ![s] = {}] /\ undone' = [undone EXCEPT ![s] = {}]
  /\ UNCHANGED <<taskVars, reply, subscribed, closed, ch, view, fetch, answer>>

\* Wrong on purpose: a marshalling error is passed over and nothing is written.
ShownNothing(s, t) == view
Shown(s, t)        == [view EXCEPT ![s][t] = version[t]]

\* ... then each task, as it is when its turn comes.
WriteSnapshot(s) ==
  /\ stream[s] = "snapshot"
  /\ \/ \E t \in todo[s] : /\ todo' = [todo EXCEPT ![s] = @ \ {t}]
                           /\ view' = Shown(s, t)
                           /\ UNCHANGED stream
     \/ todo[s] = {} /\ stream' = [stream EXCEPT ![s] = "loop"] /\ UNCHANGED <<todo, view>>
  /\ UNCHANGED <<taskVars, reply, subscribed, closed, ch, fetch, answer, missed, undone>>

\* An event is received, marshalled and written.
Deliver(s) ==
  /\ stream[s] = "loop" /\ ch[s] # <<>>
  /\ ch' = [ch EXCEPT ![s] = Tail(@)]
  /\ view' = Shown(s, Head(ch[s]))
  /\ UNCHANGED <<taskVars, reply, stream, subscribed, closed, todo, fetch, answer, missed, undone>>

\* Wrong on purpose: unsubscribe closes the channel before it deletes it.
UnsubscribeClosing(s) ==
  /\ stream[s] = "loop"
  /\ stream' = [stream EXCEPT ![s] = "close"]
  /\ closed' = closed \union {s}
  /\ UNCHANGED <<taskVars, reply, subscribed, ch, todo, view, fetch, answer, missed, undone>>

\* The request's context is done; unsubscribe deletes the channel under broker.mu ...
Unsubscribe(s) ==
  /\ stream[s] = "loop"
  /\ stream' = [stream EXCEPT ![s] = "close"]
  /\ subscribed' = subscribed \ {s}
  /\ UNCHANGED <<taskVars, reply, closed, ch, todo, view, fetch, answer, missed, undone>>

\* ... and then closes it.  The page's EventSource may connect again.
Close(s) ==
  /\ stream[s] = "close"
  /\ stream' = [stream EXCEPT ![s] = "away"]
  /\ closed' = closed \union {s}
  /\ UNCHANGED <<taskVars, reply, subscribed, ch, todo, view, fetch, answer, missed, undone>>

-----------------------------------------------------------------------------
(* The page's own requests: init() calls refreshTasks and connectSSE       *)
(* without waiting for either; btn-create shows what its POST has made.    *)

OnItsWay(s, t) ==
  \/ \E p \in Publishers : pub[p] = t
  \/ \E i \in 1..Len(ch[s]) : ch[s][i] = t

\* Something is still to come that will show the task as it is.
ToCome(s, t) == OnItsWay(s, t) \/ (stream[s] = "snapshot" /\ t \in todo[s])

\* Tasks an answer has put back, with nothing to come that mends it.
PutBack(s, old) == {t \in Tasks : old[t] < version[t] /\ ~ToCome(s, t)}

\* handleTasks answers GET with the list as it is.
Fetch(s) ==
  /\ fetch[s] = "none"
  /\ fetch' = [fetch EXCEPT ![s] = "answered"] /\ answer' = [answer EXCEPT ![s] = version]
  /\ UNCHANGED <<taskVars, reply, stream, subscribed, closed, ch, todo, view, missed, undone>>

\* refreshTasks replaces the page's whole list by the answer.
Refresh(s) ==
  /\ fetch[s] = "answered"
  /\ fetch' = [fetch EXCEPT ![s] = "done"]
  /\ view' = [view EXCEPT ![s] = answer[s]]
  /\ undone' = [undone EXCEPT ![s] = @ \union PutBack(s, answer[s])]
  /\ UNCHANGED <<taskVars, reply, stream, subscribed, closed, ch, todo, answer, missed>>

\* btn-create's upsertTask: the answer replaces what the page shows of the task,
\* whatever events have shown of it since it was marshalled.
ShowReply(s, t) ==
  /\ reply[s][t] > 0
  /\ reply' = [reply EXCEPT ![s][t] = 0]
  /\ view' = [view EXCEPT ![s][t] = reply[s][t]]
  /\ undone' = [undone EXCEPT ![s] = @ \union PutBack(s, [version EXCEPT ![t] = reply[s][t]])]
  /\ UNCHANGED <<taskVars, stream, subscribed, closed, ch, todo, fetch, answer, missed>>

-----------------------------------------------------------------------------

Stream(s) == List(s) \/ WriteSnapshot(s) \/ Deliver(s) \/ Close(s)

Next ==
  \/ \E p \in Publishers : Publish(p) \/ PostAnswer(p) \/ \E t \in Tasks : Change(p, t)
  \/ \E p \in Publishers, s \in Pages, t \in Tasks : Post(p, s, t)
  \/ \E s \in Pages : \/ Connect(s) \/ Stream(s) \/ Unsubscribe(s)
                      \/ Fetch(s) \/ Refresh(s) \/ \E t \in Tasks : ShowReply(s, t)

\* Goroutines that can run do run; clients and changes come when they like.
Spec == /\ Init /\ [][Next]_vars
        /\ \A p \in Publishers : WF_vars(Publish(p) \/ PostAnswer(p))
        /\ \A s \in Pages : WF_vars(Stream(s))

-----------------------------------------------------------------------------
(* Correctness.                                                            *)

\* The types of the broker, the handlers' locals and the pages.
TypeOK ==
  /\ version \in Versions
  /\ pub \in [Publishers -> Tasks \union {NoTask}]
  /\ stream \in [Pages -> {"away", "list", "snapshot", "loop", "close"}]
  /\ subscribed \subseteq Pages /\ closed \subseteq Pages
  /\ ch \in [Pages -> Seq(Tasks)] /\ \A s \in Pages : Len(ch[s]) =< ChanCap
  /\ todo \in [Pages -> SUBSET Tasks]
  /\ view \in [Pages -> Versions]
  /\ fetch \in [Pages -> {"none", "answered", "done"}] /\ answer \in [Pages -> Versions]
  /\ posting \in [Publishers -> (Pages \X Tasks) \union {<<>>}]
  /\ reply \in [Pages -> Versions]
  /\ missed \in [Pages -> SUBSET Tasks] /\ undone \in [Pages -> SUBSET Tasks]

\* publish never meets a closed channel, whoever publishes while a page leaves or
\* comes back: a send to one would bring the server down.
NoSendOnClosed == subscribed \intersect closed = {}

\* A page whose stream is up shows every task as it is, unless an event that will
\* show it is still on its way: subscribing before the snapshot is taken leaves no
\* gap, and an event that was dropped is made good by any later one of its task.
\* Excepted are the tasks a full channel has spoiled, and those an answer to the
\* page's own GET or POST has put back after their last event had been shown.
PageCatchesUp ==
  \A s \in Pages : stream[s] = "loop" =>
    \A t \in Listed \ (missed[s] \union undone[s]) : view[s][t] = version[t] \/ OnItsWay(s, t)

\* A page that stays connected ends up with the tasks as they are, with the same
\* exceptions.
PageConverges ==
  \A s \in Pages :
    <>[](stream[s] = "loop")
      => <>[](\A t \in Listed \ (missed[s] \union undone[s]) : view[s][t] = version[t])
=============================================================================
