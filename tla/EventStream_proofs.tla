-------------------------- MODULE EventStream_proofs -------------------------
(***************************************************************************)
(* The broker and the event stream for any number of tasks, goroutines and *)
(* pages, and any capacity of the channels.                                *)
(***************************************************************************)
EXTENDS EventStream, TLAPS

\* A channel is registered from subscribe to unsubscribe, and closed after.
Registered ==
  /\ subscribed = {s \in Pages : stream[s] \in {"list", "snapshot", "loop"}}
  /\ closed \subseteq {s \in Pages : stream[s] = "away"}

\* Why nothing is lost: from the moment the snapshot is listed, a task that the
\* page does not show as it is has its turn in the snapshot or an event to come.
NoGap ==
  \A s \in Pages : stream[s] \in {"snapshot", "loop"} =>
    \A t \in Listed \ (missed[s] \union undone[s]) :
      \/ view[s][t] = version[t]
      \/ OnItsWay(s, t)
      \/ stream[s] = "snapshot" /\ t \in todo[s]

AnswersAreOld ==
  \A s \in Pages, t \in Tasks : answer[s][t] =< version[t] /\ reply[s][t] =< version[t]

StreamInv == TypeOK /\ Registered /\ AnswersAreOld /\ NoGap

-----------------------------------------------------------------------------

\* The types at the start.
LEMMA InitType == Init => TypeOK
BY ConstantsAssumption DEF Init, TypeOK, None, Versions

\* What a page shows of a task is a version.
LEMMA ShownType ==
  ASSUME TypeOK, NEW s \in Pages, NEW t \in Tasks PROVE Shown(s, t) \in [Pages -> Versions]
<1>1. [view[s] EXCEPT ![t] = version[t]] \in Versions
  BY DEF TypeOK, Versions
<1> QED
  BY <1>1 DEF TypeOK, Shown

\* Every step keeps the types.
LEMMA NextType == TypeOK /\ [Next]_vars => TypeOK'
<1> SUFFICES ASSUME TypeOK, [Next]_vars PROVE TypeOK'
  OBVIOUS
<1> USE ConstantsAssumption DEF streamVars, taskVars
<1>1. ASSUME NEW p \in Publishers, NEW t \in Tasks, Change(p, t) PROVE TypeOK'
  <2>1. version' \in Versions /\ pub' \in [Publishers -> Tasks \union {NoTask}]
    BY <1>1 DEF TypeOK, Change, Versions
  <2> QED
    BY <1>1, <2>1 DEF TypeOK, Change
<1>2. ASSUME NEW p \in Publishers, Publish(p) PROVE TypeOK'
  <2>1. pub[p] \in Tasks
    BY <1>2 DEF TypeOK, Publish
  <2>2. \A s \in Pages : /\ ch'[s] \in {ch[s], Append(ch[s], pub[p])}
                         /\ ch'[s] = Append(ch[s], pub[p]) => HasRoom(s) \/ ch'[s] = ch[s]
    BY <1>2 DEF TypeOK, Publish
  <2>3. ch' \in [Pages -> Seq(Tasks)]
    <3>1. \A s \in Pages : ch[s] \in Seq(Tasks) /\ Append(ch[s], pub[p]) \in Seq(Tasks)
      BY <2>1 DEF TypeOK
    <3>2. ch' = [s \in Pages |-> ch'[s]]
      BY <1>2 DEF Publish
    <3> QED
      BY <2>2, <3>1, <3>2
  <2>4. ASSUME NEW s \in Pages PROVE Len(ch'[s]) =< ChanCap
    <3>1. ch[s] \in Seq(Tasks) /\ Len(ch[s]) =< ChanCap
      BY DEF TypeOK
    <3>2. CASE ch'[s] = ch[s]
      BY <3>1, <3>2
    <3>3. CASE ch'[s] = Append(ch[s], pub[p]) /\ HasRoom(s)
      BY <2>1, <3>1, <3>3 DEF HasRoom
    <3> QED
      BY <2>2, <3>2, <3>3
  <2>5. missed' \in [Pages -> SUBSET Tasks] /\ undone' \in [Pages -> SUBSET Tasks]
    BY <1>2, <2>1 DEF TypeOK, Publish
  <2> QED
    BY <1>2, <2>3, <2>4, <2>5 DEF TypeOK, Publish
<1>3. ASSUME NEW s \in Pages, Connect(s) PROVE TypeOK'
  BY <1>3 DEF TypeOK, Connect, SubscribedWith
<1>4. ASSUME NEW s \in Pages, List(s) PROVE TypeOK'
  BY <1>4 DEF TypeOK, List, Listed
<1>5. ASSUME NEW s \in Pages, WriteSnapshot(s) PROVE TypeOK'
  <2>1. view' \in [Pages -> Versions]
    <3>1. CASE \E t \in todo[s] : view' = Shown(s, t)
      BY <3>1, ShownType DEF TypeOK
    <3>2. CASE view' = view
      BY <3>2 DEF TypeOK
    <3> QED
      BY <1>5, <3>1, <3>2 DEF WriteSnapshot
  <2>2. stream' \in [Pages -> {"away", "list", "snapshot", "loop", "close"}]
    <3>1. stream' \in {stream, [stream EXCEPT ![s] = "loop"]}
      BY <1>5 DEF WriteSnapshot
    <3> QED
      BY <3>1 DEF TypeOK
  <2>3. todo' \in [Pages -> SUBSET Tasks]
    <3>1. CASE UNCHANGED todo
      BY <3>1 DEF TypeOK
    <3>2. CASE \E t \in todo[s] : todo' = [todo EXCEPT ![s] = @ \ {t}]
      BY <3>2 DEF TypeOK
    <3> QED
      BY <1>5, <3>1, <3>2 DEF WriteSnapshot
  <2> QED
    BY <1>5, <2>1, <2>2, <2>3 DEF TypeOK, WriteSnapshot
<1>6. ASSUME NEW s \in Pages, Deliver(s) PROVE TypeOK'
  <2>1. Head(ch[s]) \in Tasks /\ Tail(ch[s]) \in Seq(Tasks) /\ Len(Tail(ch[s])) =< ChanCap
    BY <1>6 DEF TypeOK, Deliver
  <2> QED
    BY <1>6, <2>1, ShownType DEF TypeOK, Deliver
<1>7. ASSUME NEW s \in Pages, Unsubscribe(s) \/ Close(s) PROVE TypeOK'
  BY <1>7 DEF TypeOK, Unsubscribe, Close
<1>8. ASSUME NEW s \in Pages, Fetch(s) \/ Refresh(s) PROVE TypeOK'
  <2>1. CASE Fetch(s)
    BY <2>1 DEF TypeOK, Fetch
  <2>2. CASE Refresh(s)
    <3>1. answer[s] \in Versions /\ undone[s] \in SUBSET Tasks
      BY DEF TypeOK
    <3>2. view' = [view EXCEPT ![s] = answer[s]]
      BY <2>2 DEF Refresh
    <3>3. view' \in [Pages -> Versions]
      BY <3>1, <3>2 DEF TypeOK
    <3>4. PICK U \in SUBSET Tasks : undone' = [undone EXCEPT ![s] = undone[s] \union U]
      BY <2>2 DEF Refresh, PutBack
    <3>5. undone' \in [Pages -> SUBSET Tasks]
      BY <3>1, <3>4 DEF TypeOK
    <3>6. fetch' \in [Pages -> {"none", "answered", "done"}]
      BY <2>2 DEF TypeOK, Refresh
    <3> QED
      BY <2>2, <3>3, <3>5, <3>6 DEF TypeOK, Refresh
  <2> QED
    BY <1>8, <2>1, <2>2
<1>9. CASE UNCHANGED vars
  BY <1>9 DEF TypeOK, vars
<1>10. ASSUME NEW p \in Publishers, NEW s \in Pages, NEW t \in Tasks, Post(p, s, t) PROVE TypeOK'
  <2>1. version' \in Versions /\ pub' \in [Publishers -> Tasks \union {NoTask}]
    BY <1>10 DEF TypeOK, Post, Versions
  <2>2. posting' \in [Publishers -> (Pages \X Tasks) \union {<<>>}]
    <3>1. <<s, t>> \in (Pages \X Tasks) \union {<<>>}
      OBVIOUS
    <3> QED
      BY <1>10, <3>1 DEF TypeOK, Post
  <2> QED
    BY <1>10, <2>1, <2>2 DEF TypeOK, Post
<1>11. ASSUME NEW p \in Publishers, PostAnswer(p) PROVE TypeOK'
  <2>1. PICK s \in Pages, t \in Tasks : posting[p] = <<s, t>>
    BY <1>11 DEF TypeOK, PostAnswer
  <2>2. reply' = [reply EXCEPT ![s][t] = version[t]]
    BY <1>11, <2>1 DEF PostAnswer
  <2>3. reply' \in [Pages -> Versions]
    BY <2>2 DEF TypeOK, Versions
  <2>4. posting' \in [Publishers -> (Pages \X Tasks) \union {<<>>}]
    BY <1>11 DEF TypeOK, PostAnswer
  <2> QED
    BY <1>11, <2>3, <2>4 DEF TypeOK, PostAnswer
<1>12. ASSUME NEW s \in Pages, NEW t \in Tasks, ShowReply(s, t) PROVE TypeOK'
  <2>1. reply' \in [Pages -> Versions] /\ view' \in [Pages -> Versions]
    BY <1>12 DEF TypeOK, Versions, ShowReply
  <2>2. PICK U \in SUBSET Tasks : undone' = [undone EXCEPT ![s] = undone[s] \union U]
    BY <1>12 DEF ShowReply, PutBack
  <2>3. undone' \in [Pages -> SUBSET Tasks]
    BY <2>2 DEF TypeOK
  <2> QED
    BY <1>12, <2>1, <2>3 DEF TypeOK, ShowReply
<1> QED
  BY <1>1, <1>2, <1>3, <1>4, <1>5, <1>6, <1>7, <1>8, <1>9, <1>10, <1>11, <1>12 DEF Next, Stream

\* The broker, the handlers and the pages stay type correct; no channel holds
\* more than its capacity.
THEOREM TypeCorrect == Spec => []TypeOK
BY InitType, NextType, PTL DEF Spec

-----------------------------------------------------------------------------

\* A page past its subscription is subscribed until it leaves.
LEMMA NextRegistered == TypeOK /\ Registered /\ [Next]_vars => Registered'
<1> USE DEF taskVars, streamVars
<1> SUFFICES ASSUME TypeOK, Registered, [Next]_vars PROVE Registered'
  OBVIOUS
<1>1. CASE UNCHANGED <<stream, subscribed, closed>>
  BY <1>1 DEF Registered
<1>2. ASSUME NEW s \in Pages, Connect(s) PROVE Registered'
  BY <1>2 DEF TypeOK, Registered, Connect, SubscribedWith
<1>3. ASSUME NEW s \in Pages, List(s) \/ WriteSnapshot(s) PROVE Registered'
  BY <1>3 DEF TypeOK, Registered, List, WriteSnapshot
<1>4. ASSUME NEW s \in Pages, Unsubscribe(s) PROVE Registered'
  <2>1. stream' = [stream EXCEPT ![s] = "close"] /\ stream[s] = "loop"
        /\ subscribed' = subscribed \ {s} /\ closed' = closed
    BY <1>4 DEF Unsubscribe
  <2>2. \A q \in Pages : stream'[q] = IF q = s THEN "close" ELSE stream[q]
    BY <2>1 DEF TypeOK
  <2> QED
    BY <2>1, <2>2 DEF Registered
<1>5. ASSUME NEW s \in Pages, Close(s) PROVE Registered'
  <2>1. stream' = [stream EXCEPT ![s] = "away"] /\ stream[s] = "close"
        /\ subscribed' = subscribed /\ closed' = closed \union {s}
    BY <1>5 DEF Close
  <2>2. \A q \in Pages : stream'[q] = IF q = s THEN "away" ELSE stream[q]
    BY <2>1 DEF TypeOK
  <2> QED
    BY <2>1, <2>2 DEF Registered
<1> QED
  BY <1>1, <1>2, <1>3, <1>4, <1>5 DEF Next, Stream, Change, Post, PostAnswer, Publish, Deliver,
     Fetch, Refresh, ShowReply, vars, streamVars

\* No goroutine ever sends on a closed channel.
THEOREM NeverSendsOnClosed == Spec => []NoSendOnClosed
<1>1. Init => Registered
  BY DEF Init, Registered
<1>2. Registered => NoSendOnClosed
  BY DEF Registered, NoSendOnClosed
<1> QED
  BY <1>1, <1>2, NextRegistered, TypeCorrect, PTL DEF Spec

-----------------------------------------------------------------------------

\* An answer to a page holds no version that is not there yet.
LEMMA NextAnswers == TypeOK /\ AnswersAreOld /\ [Next]_vars => AnswersAreOld'
<1> SUFFICES ASSUME TypeOK, AnswersAreOld, [Next]_vars,
                    NEW s \in Pages, NEW u \in Tasks
             PROVE  answer'[s][u] =< version'[u] /\ reply'[s][u] =< version'[u]
  BY DEF AnswersAreOld
<1> USE ConstantsAssumption DEF streamVars, taskVars
<1> DEFINE Old == answer'[s][u] =< version'[u] /\ reply'[s][u] =< version'[u]
<1>0. /\ answer[s][u] =< version[u] /\ reply[s][u] =< version[u]
      /\ answer[s][u] \in Nat /\ reply[s][u] \in Nat /\ version[u] \in Nat
  BY DEF AnswersAreOld, TypeOK, Versions
<1>1. CASE UNCHANGED <<answer, reply, version>>
  BY <1>0, <1>1
<1>2. ASSUME NEW p \in Publishers, NEW t \in Tasks, NEW r \in Pages, Change(p, t) \/ Post(p, r, t)
      PROVE  Old
  <2>1. UNCHANGED <<answer, reply>>
    BY <1>2 DEF Change, Post
  <2>2. version'[u] \in {version[u], version[u] + 1}
    <3>1. version' = [version EXCEPT ![t] = version[t] + 1] \/ version' = [version EXCEPT ![t] = 1]
      BY <1>2 DEF Change, Post
    <3>2. version' = [version EXCEPT ![t] = 1] /\ ~Change(p, t) => version[t] = 0
      BY <1>2 DEF Post
    <3>3. version' = [version EXCEPT ![t] = version[t] + 1] \/ version[t] = 0
      BY <1>2, <3>1, <3>2 DEF Change
    <3> QED
      BY <1>0, <3>1, <3>3 DEF TypeOK, Versions
  <2> QED
    BY <1>0, <2>1, <2>2
<1>3. ASSUME NEW r \in Pages, Fetch(r) PROVE Old
  <2>1. version' = version /\ reply' = reply /\ answer'[s] \in {answer[s], version}
    BY <1>3 DEF TypeOK, Fetch
  <2> QED
    BY <1>0, <2>1
<1>4. ASSUME NEW p \in Publishers, PostAnswer(p) PROVE Old
  <2>1. PICK r \in Pages, t \in Tasks : posting[p] = <<r, t>>
    BY <1>4 DEF TypeOK, PostAnswer
  <2>2. reply' = [reply EXCEPT ![r][t] = version[t]] /\ UNCHANGED <<version, answer>>
    BY <1>4, <2>1 DEF PostAnswer
  <2>3. reply'[s][u] \in {reply[s][u], version[u]}
    BY <2>2 DEF TypeOK, Versions
  <2> QED
    BY <1>0, <2>2, <2>3
<1>5. ASSUME NEW r \in Pages, NEW t \in Tasks, ShowReply(r, t) PROVE Old
  <2>1. reply'[s][u] \in {reply[s][u], 0} /\ UNCHANGED <<version, answer>>
    BY <1>5 DEF TypeOK, Versions, ShowReply
  <2> QED
    BY <1>0, <2>1
<1>6. CASE \E r \in Pages : Connect(r) \/ Stream(r) \/ Unsubscribe(r) \/ Refresh(r)
  BY <1>1, <1>6 DEF Stream, Connect, List, WriteSnapshot, Deliver, Unsubscribe, Close, Refresh
<1>7. CASE \E p \in Publishers : Publish(p)
  BY <1>1, <1>7 DEF Publish
<1>8. CASE UNCHANGED vars
  BY <1>1, <1>8 DEF vars
<1> QED
  <2>1. \A p \in Publishers, t \in Tasks : Change(p, t) => Old
    BY <1>2
  <2> QED
    BY <2>1, <1>2, <1>3, <1>4, <1>5, <1>6, <1>7, <1>8 DEF Next

\* One page and one task at a time: what NoGap says of them.
Covered(s, t) ==
  stream[s] \in {"snapshot", "loop"} /\ version[t] > 0 /\ t \notin missed[s] \union undone[s]
    => \/ view[s][t] = version[t]
       \/ OnItsWay(s, t)
       \/ stream[s] = "snapshot" /\ t \in todo[s]

\* No gap means that each task of each page is covered.
LEMMA NoGapIsCovered == NoGap <=> \A s \in Pages, t \in Tasks : Covered(s, t)
BY DEF NoGap, Covered, Listed

\* A step that leaves the page's channel, its view and its handler alone, and
\* publishes nothing.
LEMMA Undisturbed ==
  ASSUME NEW s \in Pages, NEW t \in Tasks, Covered(s, t),
         stream'[s] = stream[s], version'[t] = version[t], view'[s] = view[s], ch'[s] = ch[s],
         todo'[s] = todo[s], missed'[s] = missed[s], undone'[s] = undone[s], pub' = pub
  PROVE  Covered(s, t)'
BY DEF Covered, OnItsWay

\* Every step leaves no gap.
LEMMA NextNoGap == TypeOK /\ Registered /\ AnswersAreOld /\ NoGap /\ [Next]_vars => NoGap'
<1> USE DEF taskVars, streamVars
<1> SUFFICES ASSUME TypeOK, Registered, AnswersAreOld, [Next]_vars,
                    NEW s \in Pages, NEW t \in Tasks, Covered(s, t)
             PROVE  Covered(s, t)'
  BY NoGapIsCovered DEF NoGap, Covered, Listed
<1>1. ASSUME NEW p \in Publishers, NEW u \in Tasks, Change(p, u) PROVE Covered(s, t)'
  <2>1. /\ UNCHANGED streamVars /\ pub[p] = NoTask /\ pub'[p] = u
        /\ \A q \in Publishers : pub[q] \in Tasks => pub'[q] = pub[q]
        /\ t # u => version'[t] = version[t]
    BY <1>1, ConstantsAssumption DEF Change, TypeOK, Versions
  <2>2. CASE t = u
    BY <2>1, <2>2 DEF Covered, OnItsWay
  <2>3. CASE t # u
    BY <2>1, <2>3 DEF Covered, OnItsWay, streamVars
  <2> QED
    BY <2>2, <2>3
<1>11. ASSUME NEW p \in Publishers, NEW u \in Tasks, NEW r \in Pages, Post(p, r, u)
       PROVE  Covered(s, t)'
  <2>1. /\ UNCHANGED streamVars /\ pub[p] = NoTask /\ pub'[p] = u
        /\ \A q \in Publishers : pub[q] \in Tasks => pub'[q] = pub[q]
        /\ t # u => version'[t] = version[t]
    BY <1>11, ConstantsAssumption DEF Post, TypeOK, Versions
  <2>2. CASE t = u
    BY <2>1, <2>2 DEF Covered, OnItsWay
  <2>3. CASE t # u
    BY <2>1, <2>3 DEF Covered, OnItsWay, streamVars
  <2> QED
    BY <2>2, <2>3
<1>12. ASSUME NEW p \in Publishers, PostAnswer(p) PROVE Covered(s, t)'
  BY <1>12, Undisturbed DEF PostAnswer, streamVars
<1>2. ASSUME NEW p \in Publishers, Publish(p) PROVE Covered(s, t)'
  <2> DEFINE u == pub[p]
  <2>1. UNCHANGED <<version, stream, todo, view>> /\ u \in Tasks /\ ch[s] \in Seq(Tasks)
    BY <1>2 DEF Publish, TypeOK
  <2>2. \A q \in Publishers : q # p => pub'[q] = pub[q]
    BY <1>2 DEF Publish, TypeOK
  <2>3. ch'[s] = ch[s] \/ ch'[s] = Append(ch[s], u)
    BY <1>2 DEF Publish
  <2>4. \A i \in 1..Len(ch[s]) : i \in 1..Len(ch'[s]) /\ ch'[s][i] = ch[s][i]
    <3>1. CASE ch'[s] = ch[s]
      BY <3>1
    <3>2. CASE ch'[s] = Append(ch[s], u)
      BY <2>1, <3>2
    <3> QED
      BY <2>3, <3>1, <3>2
  <2>5. CASE t # u
    <3>1. t \in missed[s] => t \in missed'[s]
      BY <1>2, <2>5 DEF Publish
    <3>2. t \in undone[s] => t \in undone'[s]
      BY <1>2, <2>5 DEF Publish
    <3>3. OnItsWay(s, t) => OnItsWay(s, t)'
      BY <2>2, <2>4, <2>5 DEF OnItsWay
    <3> QED
      BY <2>1, <3>1, <3>2, <3>3 DEF Covered
  <2>6. CASE t = u /\ s \in subscribed /\ HasRoom(s)
    <3>1. ch'[s] = Append(ch[s], t)
      BY <1>2, <2>6 DEF Publish
    <3>2. ch'[s][Len(ch[s]) + 1] = t /\ Len(ch[s]) + 1 \in 1..Len(ch'[s])
      BY <2>1, <3>1
    <3> QED
      BY <3>2 DEF Covered, OnItsWay
  <2>7. CASE t = u /\ s \in subscribed /\ ~HasRoom(s)
    <3>1. t \in missed'[s]
      BY <1>2, <2>7 DEF Publish, TypeOK
    <3> QED
      BY <3>1 DEF Covered
  <2>8. CASE s \notin subscribed
    BY <2>1, <2>8 DEF Covered, Registered
  <2> QED
    BY <2>5, <2>6, <2>7, <2>8
<1>3. ASSUME NEW r \in Pages, r # s,
             \/ Connect(r) \/ Stream(r) \/ Unsubscribe(r) \/ Fetch(r) \/ Refresh(r)
             \/ \E u \in Tasks : ShowReply(r, u)
      PROVE  Covered(s, t)'
  <2>1. /\ stream'[s] = stream[s] /\ version' = version /\ view'[s] = view[s] /\ ch'[s] = ch[s]
        /\ todo'[s] = todo[s] /\ missed'[s] = missed[s] /\ undone'[s] = undone[s] /\ pub' = pub
    BY <1>3 DEF TypeOK, Stream, Connect, List, WriteSnapshot, Deliver, Unsubscribe, Close,
                Fetch, Refresh, ShowReply, Shown
  <2> QED
    BY <2>1, Undisturbed
<1>4. CASE Connect(s) \/ Unsubscribe(s) \/ Close(s)
  <2>1. stream'[s] \notin {"snapshot", "loop"}
    BY <1>4 DEF TypeOK, Connect, Unsubscribe, Close
  <2> QED
    BY <2>1 DEF Covered
<1>5. CASE List(s)
  BY <1>5 DEF TypeOK, List, Listed, Covered
<1>6. CASE WriteSnapshot(s)
  <2>1. UNCHANGED <<version, pub, ch, missed, undone>> /\ stream[s] = "snapshot"
    BY <1>6 DEF WriteSnapshot
  <2>2. CASE todo[s] = {} /\ stream' = [stream EXCEPT ![s] = "loop"] /\ UNCHANGED <<todo, view>>
    BY <2>1, <2>2 DEF TypeOK, Covered, OnItsWay
  <2>3. ASSUME NEW u \in todo[s], todo' = [todo EXCEPT ![s] = @ \ {u}], view' = Shown(s, u),
               UNCHANGED stream
        PROVE  Covered(s, t)'
    <3>1. view'[s][u] = version[u] /\ (t # u => view'[s][t] = view[s][t])
      BY <2>3 DEF TypeOK, Versions, Shown
    <3>2. todo'[s] = todo[s] \ {u}
      BY <2>3 DEF TypeOK
    <3> QED
      BY <2>1, <2>3, <3>1, <3>2 DEF Covered, OnItsWay
  <2> QED
    BY <1>6, <2>2, <2>3 DEF WriteSnapshot
<1>7. CASE Deliver(s)
  <2> DEFINE u == Head(ch[s])
  <2>1. /\ UNCHANGED <<version, pub, stream, todo, missed, undone>>
        /\ ch[s] \in Seq(Tasks) /\ ch[s] # <<>> /\ ch'[s] = Tail(ch[s]) /\ u \in Tasks
    BY <1>7 DEF Deliver, TypeOK
  <2>2. view'[s][u] = version[u] /\ (t # u => view'[s][t] = view[s][t])
    BY <1>7, <2>1 DEF Deliver, TypeOK, Versions, Shown
  <2>3. CASE t = u
    BY <2>1, <2>2, <2>3 DEF Covered
  <2>4. CASE t # u
    <3>1. \A i \in 1..Len(ch[s]) : ch[s][i] = t => i - 1 \in 1..Len(ch'[s]) /\ ch'[s][i - 1] = t
      BY <2>1, <2>4
    <3>2. OnItsWay(s, t) => OnItsWay(s, t)'
      BY <2>1, <3>1 DEF OnItsWay
    <3> QED
      BY <2>1, <2>2, <2>4, <3>2 DEF Covered
  <2> QED
    BY <2>3, <2>4
<1>8. CASE Fetch(s)
  BY <1>8, Undisturbed DEF Fetch, taskVars
<1>9. CASE Refresh(s)
  <2>1. UNCHANGED <<version, pub, stream, ch, todo, missed>> /\ view'[s] = answer[s]
    BY <1>9 DEF Refresh, TypeOK
  <2>2. undone'[s] = undone[s] \union PutBack(s, answer[s])
    BY <1>9 DEF Refresh, TypeOK
  <2>3. answer[s][t] \in Nat /\ version[t] \in Nat /\ answer[s][t] =< version[t]
    BY ConstantsAssumption DEF TypeOK, Versions, AnswersAreOld
  <2> QED
    BY <2>1, <2>2, <2>3 DEF Covered, PutBack, ToCome, OnItsWay
<1>13. ASSUME NEW u \in Tasks, ShowReply(s, u) PROVE Covered(s, t)'
  <2> DEFINE old == [version EXCEPT ![u] = reply[s][u]]
  <2>1. /\ UNCHANGED <<version, pub, stream, ch, todo, missed>>
        /\ view'[s] = [view[s] EXCEPT ![u] = reply[s][u]]
    BY <1>13 DEF ShowReply, TypeOK
  <2>2. undone'[s] = undone[s] \union PutBack(s, old)
    BY <1>13 DEF ShowReply, TypeOK
  <2>3. reply[s][u] \in Nat /\ version[u] \in Nat /\ reply[s][u] =< version[u]
    BY ConstantsAssumption DEF TypeOK, Versions, AnswersAreOld
  <2>4. view'[s][u] = reply[s][u] /\ old[u] = reply[s][u] /\ (t # u => view'[s][t] = view[s][t])
    BY <2>1 DEF TypeOK, Versions
  <2>5. CASE t = u
    BY <2>1, <2>2, <2>3, <2>4, <2>5 DEF Covered, PutBack, ToCome, OnItsWay
  <2>6. CASE t # u
    BY <2>1, <2>2, <2>4, <2>6 DEF Covered, OnItsWay
  <2> QED
    BY <2>5, <2>6
<1>10. CASE UNCHANGED vars
  BY <1>10, Undisturbed DEF vars, streamVars, taskVars
<1> QED
  BY <1>1, <1>2, <1>3, <1>4, <1>5, <1>6, <1>7, <1>8, <1>9, <1>10, <1>11, <1>12, <1>13
     DEF Next, Stream

\* A page whose stream is up misses nothing but what a full channel, or a late
\* answer to its own GET or POST with nothing to come after it, has cost it.
THEOREM PagesCatchUp == Spec => []PageCatchesUp
<1>1. Init => StreamInv
  BY InitType DEF Init, StreamInv, Registered, AnswersAreOld, NoGap, None
<1>2. StreamInv /\ [Next]_vars => StreamInv'
  BY NextType, NextRegistered, NextAnswers, NextNoGap DEF StreamInv
<1>3. StreamInv => PageCatchesUp
  BY DEF StreamInv, NoGap, PageCatchesUp
<1> QED
  BY <1>1, <1>2, <1>3, PTL DEF Spec
=============================================================================
