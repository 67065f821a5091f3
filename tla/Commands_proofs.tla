---------------------------- MODULE Commands_proofs ----------------------------
(***************************************************************************)
(* Proofs about the commands of Commands, one after the other: the         *)
(* forwarding of messages, for any sources, albums, flags and failures;    *)
(* the management of extensions, for any releases, failures and kills; the *)
(* update of tdl itself; the list of chats, for any moves and errors of    *)
(* the server, and the export of messages; and at last the program.        *)
(***************************************************************************)
EXTENDS Commands, Lists_proofs

-----------------------------------------------------------------------------
(* Forward: a message arrives once.                                         *)

Request == [id : Nat, puts : SUBSET Payloads]

-----------------------------------------------------------------------------
(* The invariant.                                                          *)

Taking    == {"group", "forward", "direct", "clone", "cloned"}
Forwarded == {"forward", "direct", "clone", "cloned"}
Sending   == {"direct", "clone", "cloned"}
Waiting   == {"direct", "cloned"}

FwTyped ==
  /\ alive \subseteq Msgs /\ elem \in Msgs
  /\ nextId \in Nat /\ served \subseteq Nat /\ arrived \in [Msgs -> Nat]
  /\ req \in Request \union {NoReq}
  /\ (req # NoReq) = (fwPc \in Waiting)

\* The message exists, and its album is that of the source unless it could not be had.
Grouped ==
  /\ fwPc \in Taking => elem \in alive \ sent
  /\ fwPc \in Forwarded =>
       \/ group # {} /\ group = Album(elem) \intersect alive /\ ~flags.single
       \/ group = {} /\ (flags.single \/ elem \in apart \/ Album(elem) = {})

\* With a message all of its album is marked as sent.
SentTogether ==
  /\ ~flags.single => \A g \in sent \ apart : Album(g) \intersect alive \subseteq sent
  /\ fwPc = "start" => sent = {}

Requesting ==
  /\ \A i \in served : i < nextId
  /\ fwPc \in Waiting => req.id < nextId /\ req.puts \subseteq Batch
  /\ fwPc = "direct" => req.puts = Batch
  /\ fwPc = "direct" /\ answer \notin {"none", "ok"} /\ req.id \in served => req.puts \subseteq doubt

OnlySent ==
  \A m \in Msgs : arrived[m] > 0 => m \in sent \/ (fwPc \in Sending /\ m \in Batch)

Excusable(m) == m \in doubt \union apart

\* Before the server acts on the request, nothing it puts has arrived.
Fresh ==
  fwPc = "clone" \/ (fwPc \in Waiting /\ req.id \notin served)
    => \A m \in Batch : arrived[m] = 0 \/ Excusable(m)

FwInv ==
  FwTyped /\ Grouped /\ SentTogether /\ Requesting /\ OnlySent /\ Fresh /\ ArrivesOnce

-----------------------------------------------------------------------------
(* Albums.                                                                 *)

\* A message that has an album is in it.
LEMMA AlbumOf == ASSUME NEW m, Album(m) # {} PROVE m \in Album(m)
BY DEF Album

\* Two messages of one album have the same album.
LEMMA AlbumShared == ASSUME NEW m, NEW g \in Album(m) PROVE m \in Album(g) /\ Album(g) = Album(m)
<1>1. PICK a \in Albums : m \in a /\ g \in a
  BY DEF Album
<1>2. ASSUME NEW x \in {m, g} PROVE {b \in Albums : x \in b} = {a}
  <2>1. \A b \in Albums : x \in b => b = a
    BY <1>1, ForwardAssumption
  <2> QED BY <1>1, <2>1
<1>3. Album(m) = a /\ Album(g) = a
  BY <1>2 DEF Album
<1> QED BY <1>1, <1>3

\* The message is one of those its request puts.
LEMMA ElemInBatch == ASSUME Grouped, fwPc \in Forwarded PROVE elem \in Batch
BY AlbumOf DEF Grouped, Batch, Taking, Forwarded

\* What is forwarded has not arrived before.
LEMMA BatchIsFresh ==
  ASSUME FwInv, fwPc = "forward", NEW m \in Batch
  PROVE  m \in Msgs /\ (arrived[m] = 0 \/ m \in apart)
<1> USE DEF FwInv
<1>1. elem \in alive \ sent
  BY DEF Grouped, Taking
<1>2. CASE group = {}
  <2>1. m = elem /\ m \in Msgs
    BY <1>2 DEF Batch, FwTyped
  <2>2. ~(arrived[m] > 0)
    BY <2>1, <1>1 DEF OnlySent, Sending
  <2> QED BY <2>1, <2>2 DEF FwTyped
<1>3. CASE group # {}
  <2>1. m \in Album(elem) /\ m \in Msgs /\ ~flags.single
    BY <1>3 DEF Grouped, Forwarded, Batch, FwTyped
  <2>2. elem \in Album(m)
    BY <2>1, AlbumShared
  <2>3. m \in sent => m \in apart
    BY <2>1, <2>2, <1>1 DEF SentTogether
  <2>4. arrived[m] > 0 => m \in sent
    BY <2>1 DEF OnlySent, Sending
  <2> QED BY <2>1, <2>3, <2>4 DEF FwTyped
<1> QED BY <1>2, <1>3

-----------------------------------------------------------------------------
(* The steps: first the end of a message, then its requests.               *)

\* At the start nothing is sent, so nothing has arrived.
LEMMA FwInitially == FwInit => FwInv
<1> SUFFICES ASSUME FwInit PROVE FwInv
  OBVIOUS
<1>1. arrived = [m \in Msgs |-> 0] /\ served = {} /\ req = NoReq /\ answer = "none"
  BY DEF FwInit, InvokeInit, Msgs
<1>2. fwPc = "start" /\ sent = {} /\ alive = Msgs /\ elem \in Msgs /\ nextId = 0
  BY DEF FwInit
<1> QED BY <1>1, <1>2
       DEF FwInv, FwTyped, Grouped, SentTogether, Requesting, OnlySent, Fresh, ArrivesOnce,
           Taking, Forwarded, Sending, Waiting

\* The deferred end of a message marks its batch, of which each has arrived at most once.
LEMMA DoneKeeps ==
  ASSUME FwInv, fwPc \in Forwarded, NEW ok \in BOOLEAN, Done(ok), req' = NoReq,
         UNCHANGED <<fixed, elem, group, nextId, apart, server, doubt>>
  PROVE  FwInv'
<1> USE DEF FwInv, fixed, server
<1>1. fwPc' \in {"next", "end"} /\ sent' = sent \union Batch
  <2>1. Marked = Batch
    BY ElemInBatch DEF Marked, Batch
  <2> QED BY <2>1 DEF Done, Goes
<1>2. FwTyped'
  BY <1>1 DEF FwTyped, Waiting
<1>3. SentTogether'
  <2> SUFFICES ASSUME ~flags.single, NEW g \in sent' \ apart
               PROVE  Album(g) \intersect alive \subseteq sent'
    BY <1>1 DEF SentTogether, Album
  <2>1. CASE g \in sent
    BY <1>1, <2>1 DEF SentTogether
  <2>2. CASE g \in Batch
    <3>1. CASE group # {}
      <4>1. group = Album(elem) \intersect alive
        BY <3>1 DEF Grouped
      <4>2. Album(g) = Album(elem)
        BY <4>1, <2>2, <3>1, AlbumShared DEF Batch
      <4> QED BY <1>1, <3>1, <4>1, <4>2 DEF Batch
    <3>2. CASE group = {}
      <4>1. g = elem
        BY <2>2, <3>2 DEF Batch
      <4> QED BY <3>2, <4>1 DEF Grouped
    <3> QED BY <3>1, <3>2
  <2> QED BY <1>1, <2>1, <2>2
<1>4. OnlySent'
  BY <1>1 DEF OnlySent
<1>5. Grouped' /\ Requesting' /\ Fresh'
  BY <1>1 DEF Grouped, Requesting, Fresh, Taking, Forwarded, Waiting
<1>6. ArrivesOnce'
  BY DEF ArrivesOnce
<1> QED BY <1>2, <1>3, <1>4, <1>5, <1>6

\* A request for messages of which none has arrived may be made.
LEMMA RequestKeeps ==
  ASSUME FwInv, fwPc \in {"forward", "clone"}, \A m \in Batch : arrived[m] = 0 \/ Excusable(m),
         NEW puts \in SUBSET Batch, Requested(puts), fwPc' \in Waiting,
         fwPc' = "direct" => puts = Batch,
         UNCHANGED <<fixed, elem, group, sent, apart>>
  PROVE  FwInv'
<1> USE DEF FwInv, fixed
<1>1. req' = [id |-> nextId, puts |-> puts] /\ nextId' = nextId + 1 /\ answer' = "none"
      /\ UNCHANGED <<served, arrived, doubt>>
  BY DEF Requested, Send, server
<1>2. req' \in Request /\ req' # NoReq
  <2>1. Batch \subseteq Payloads
    BY DEF Batch, FwTyped, Grouped, Forwarded, Msgs
  <2> QED BY <1>1, <2>1, InvokeAssumption DEF FwTyped, Request
<1>3. FwTyped'
  BY <1>1, <1>2 DEF FwTyped
<1>4. Grouped' /\ SentTogether'
  BY DEF Grouped, SentTogether, Taking, Forwarded, Waiting, Album
<1>5. Requesting'
  BY <1>1 DEF Requesting, Batch, FwTyped, Waiting
<1>6. OnlySent' /\ ArrivesOnce'
  BY <1>1 DEF OnlySent, ArrivesOnce, Sending, Waiting, Batch
<1>7. Fresh'
  BY <1>1 DEF Fresh, Excusable, Batch
<1> QED BY <1>3, <1>4, <1>5, <1>6, <1>7

\* What a step of an invocation does to the chat.
LEMMA InvocationStep ==
  ASSUME Invocation, req \in Request \union {NoReq}, arrived \in [Msgs -> Nat]
  PROVE  /\ req # NoReq /\ answer = "none" /\ req' = req
         /\ \/ UNCHANGED server
            \/ /\ served' = served \union {req.id}
               /\ arrived' = [m \in Msgs |-> IF m \in req.puts /\ req.id \notin served
                                             THEN arrived[m] + 1 ELSE arrived[m]]
         /\ doubt \subseteq doubt'
         /\ answer' \notin {"none", "ok"} /\ req.id \in served' => req.puts \subseteq doubt'
<1> USE DEF Invoking, Serve, Ends, server, Msgs, ServedBefore
<1>1. CASE Answered
  BY <1>1 DEF Answered
<1>2. CASE Refused \/ Canceled
  BY <1>2 DEF Refused, Canceled
<1>3. CASE \E acted \in BOOLEAN : ConnectionLost(acted)
  BY <1>3 DEF ConnectionLost, Recovers, GivesUp
<1>4. CASE \E acted \in BOOLEAN : InternalError(acted)
  BY <1>4 DEF InternalError, LimitReached, Recovers, GivesUp
<1> QED BY <1>1, <1>2, <1>3, <1>4 DEF Invocation

\* Repeating a request, and the loss of its answer, make nothing arrive twice.
LEMMA InvocationKeeps ==
  ASSUME FwInv, Invocation,
         UNCHANGED <<fixed, fwPc, elem, group, nextId, sent, apart>>
  PROVE  FwInv'
<1> USE DEF FwInv, fixed
<1>1. /\ req # NoReq /\ answer = "none" /\ req' = req
      /\ \/ UNCHANGED server
         \/ /\ served' = served \union {req.id}
            /\ arrived' = [m \in Msgs |-> IF m \in req.puts /\ req.id \notin served
                                          THEN arrived[m] + 1 ELSE arrived[m]]
      /\ doubt \subseteq doubt'
      /\ answer' \notin {"none", "ok"} /\ req.id \in served' => req.puts \subseteq doubt'
  BY InvocationStep DEF FwTyped
<1>2. fwPc \in Waiting /\ req.puts \subseteq Batch /\ req.id \in Nat /\ req.id < nextId
  BY <1>1 DEF FwTyped, Requesting, Request
<1>3. FwTyped'
  <2>1. arrived' \in [Msgs -> Nat]
    BY <1>1 DEF FwTyped, server
  <2>2. served' \subseteq Nat
    BY <1>1, <1>2 DEF FwTyped, server
  <2> QED BY <1>1, <2>1, <2>2 DEF FwTyped
<1>4. Grouped' /\ SentTogether'
  BY DEF Grouped, SentTogether, Album
<1>5. Requesting'
  BY <1>1, <1>2 DEF Requesting, server, Batch
<1>6. OnlySent'
  BY <1>1, <1>2 DEF OnlySent, server, Sending, Waiting, FwTyped, Batch
<1>7. Fresh'
  BY <1>1, <1>2 DEF Fresh, Excusable, server, Batch, Waiting
<1>8. ArrivesOnce'
  <2> SUFFICES ASSUME NEW m \in Msgs, arrived'[m] > 1 PROVE m \in doubt \union apart
    BY <1>1 DEF ArrivesOnce
  <2>1. CASE arrived'[m] = arrived[m]
    BY <2>1 DEF ArrivesOnce
  <2>2. CASE arrived'[m] # arrived[m]
    <3>1. m \in req.puts /\ req.id \notin served /\ arrived'[m] = arrived[m] + 1
      BY <1>1, <2>2 DEF server
    <3>2. arrived[m] = 0 \/ Excusable(m)
      BY <3>1, <1>2 DEF Fresh
    <3> QED BY <3>1, <3>2 DEF Excusable
  <2> QED BY <2>1, <2>2
<1> QED BY <1>3, <1>4, <1>5, <1>6, <1>7, <1>8

\* Every step of a forward keeps the invariant.
LEMMA FwStep == FwInv /\ [FwSteps]_fwVars => FwInv'
<1> SUFFICES ASSUME FwInv, [FwSteps]_fwVars PROVE FwInv'
  OBVIOUS
<1> USE DEF fixed, invokeVars, server, Goes
<1>1. CASE UNCHANGED fwVars
  BY <1>1 DEF fwVars, fwHist, FwInv, FwTyped, Grouped, SentTogether, Requesting, OnlySent,
     Fresh, ArrivesOnce, Excusable, Album, Batch
<1>2. CASE FwStart
  <2>1. fwPc = "start" /\ sent = {} /\ fwPc' = "next" /\ alive' \subseteq Msgs
    BY <1>2 DEF FwStart, FwInv, SentTogether
  <2>2. UNCHANGED <<elem, group, nextId, sent, apart, invokeVars>>
    BY <1>2 DEF FwStart, fwHist
  <2> QED BY <2>1, <2>2 DEF FwInv, FwTyped, Grouped, SentTogether, Requesting, OnlySent, Fresh,
          ArrivesOnce, Excusable, Taking, Forwarded, Sending, Waiting
<1>3. CASE FwNextCanceled \/ FwNextEnds \/ FwPanics \/ FwNextFails \/ FwNext
  <2>1. fwPc = "next" /\ UNCHANGED <<fixed, group, nextId, sent, apart, invokeVars>>
    BY <1>3 DEF FwNextCanceled, FwNextEnds, FwPanics, FwNextFails, FwNext, Stands, fwHist
  <2>2. \/ fwPc' \in {"next", "end", "panic"} /\ elem' = elem
        \/ fwPc' = "group" /\ elem' \in alive \ sent
    BY <1>3, <2>1 DEF FwNextCanceled, FwNextEnds, FwPanics, FwNextFails, FwNext
  <2>3. FwTyped' /\ Grouped'
    BY <2>1, <2>2 DEF FwInv, FwTyped, Grouped, Taking, Forwarded, Waiting
  <2>4. SentTogether' /\ Requesting' /\ OnlySent' /\ Fresh' /\ ArrivesOnce'
    BY <2>1, <2>2 DEF FwInv, SentTogether, Requesting, OnlySent, Fresh, ArrivesOnce,
       Sending, Waiting, Album
  <2> QED BY <2>3, <2>4 DEF FwInv
<1>4. CASE FwGroup
  <2>1. fwPc = "group" /\ fwPc' = "forward" /\ apart \subseteq apart'
        /\ UNCHANGED <<fixed, elem, nextId, sent, invokeVars>>
    BY <1>4 DEF FwGroup
  <2>2. Grouped'
    <3>1. elem \in alive \ sent
      BY <2>1 DEF FwInv, Grouped, Taking
    <3>2. CASE flags.single \/ elem \in apart' \/ Album(elem) = {}
      <4>1. group' = {} \/ (~flags.single /\ group' = Album(elem) \intersect alive)
        BY <1>4 DEF FwGroup
      <4> QED BY <2>1, <3>1, <3>2, <4>1 DEF Grouped, Taking, Forwarded, Album
    <3>3. CASE ~flags.single /\ elem \notin apart' /\ Album(elem) # {}
      <4>1. group' = Album(elem) \intersect alive
        BY <1>4, <3>3 DEF FwGroup
      <4>2. elem \in group'
        BY <3>1, <3>3, <4>1, AlbumOf
      <4> QED BY <2>1, <3>1, <3>3, <4>1, <4>2 DEF Grouped, Taking, Forwarded, Album
    <3> QED BY <3>2, <3>3
  <2>3. FwTyped' /\ SentTogether' /\ Requesting' /\ OnlySent' /\ Fresh' /\ ArrivesOnce'
    BY <2>1 DEF FwInv, FwTyped, SentTogether, Requesting, OnlySent, Fresh, ArrivesOnce,
       Sending, Waiting, Album
  <2> QED BY <2>2, <2>3 DEF FwInv
<1>5. CASE FwSizesFail
  <2>1. fwPc \in Forwarded /\ req' = NoReq
    BY <1>5 DEF FwSizesFail, Forwarded, Waiting, FwInv, FwTyped
  <2> QED BY <1>5, <2>1, DoneKeeps DEF FwSizesFail, fwHist
<1>6. CASE FwToClone
  <2>1. fwPc = "forward" /\ fwPc' = "clone"
        /\ UNCHANGED <<fixed, elem, group, nextId, sent, apart, invokeVars>>
    BY <1>6 DEF FwToClone, fwHist
  <2>2. \A m \in Batch : arrived[m] = 0 \/ m \in apart
    BY <2>1, BatchIsFresh
  <2>3. Fresh'
    BY <2>1, <2>2 DEF Fresh, Excusable, Batch
  <2> QED BY <2>1, <2>3 DEF FwInv, FwTyped, Grouped, SentTogether, Requesting, OnlySent,
          ArrivesOnce, Taking, Forwarded, Sending, Waiting, Album
<1>7. CASE FwDirect
  <2>1. \A m \in Batch : arrived[m] = 0 \/ Excusable(m)
    BY <1>7, BatchIsFresh DEF FwDirect, Excusable
  <2> QED BY <1>7, <2>1, RequestKeeps DEF FwDirect, Waiting, fwHist
<1>8. CASE FwDry
  <2>1. fwPc \in Forwarded /\ req' = NoReq
    BY <1>8 DEF FwDry, Forwarded, Waiting, FwInv, FwTyped
  <2>2. \E ok \in BOOLEAN : Done(ok)
    BY <1>8 DEF FwDry
  <2> QED BY <1>8, <2>1, <2>2, DoneKeeps DEF FwDry, fwHist
<1>9. CASE FwDirected
  <2>1. fwPc = "direct" /\ req' = NoReq
        /\ UNCHANGED <<fixed, elem, group, nextId, apart, server, doubt>>
    BY <1>9 DEF FwDirected, Taken, fwHist
  <2>2. CASE answer = "ok"
    BY <1>9, <2>1, <2>2, DoneKeeps DEF FwDirected, Forwarded
  <2>3. CASE answer # "ok"
    <3>1. fwPc' = "clone" /\ sent' = sent
      BY <1>9, <2>3 DEF FwDirected
    <3>2. Fresh'
      <4>1. \A m \in Batch : arrived[m] = 0 \/ Excusable(m)
        BY <1>9, <2>1, <2>3 DEF FwInv, Requesting, Fresh, Excusable, FwDirected, Waiting
      <4> QED BY <2>1, <4>1 DEF Fresh, Excusable, Batch
    <3> QED BY <2>1, <3>1, <3>2 DEF FwInv, FwTyped, Grouped, SentTogether, Requesting, OnlySent,
            ArrivesOnce, Taking, Forwarded, Sending, Waiting, Album, Batch
  <2> QED BY <2>2, <2>3
<1>10. CASE FwClone
  <2>1. fwPc = "clone" /\ UNCHANGED <<fixed, elem, group, apart>>
    BY <1>10 DEF FwClone
  <2>2. \A m \in Batch : arrived[m] = 0 \/ Excusable(m)
    BY <2>1 DEF FwInv, Fresh
  <2>3. \/ \E puts \in SUBSET Batch : Requested(puts) /\ fwPc' = "cloned" /\ sent' = sent
        \/ Done(FALSE) /\ UNCHANGED <<nextId, invokeVars>>
    <3>1. elem \in Batch /\ Copyable \subseteq Batch
      BY <2>1, ElemInBatch DEF FwInv, Forwarded, Copyable
    <3> QED BY <1>10, <3>1 DEF FwClone
  <2>4. CASE \E puts \in SUBSET Batch : Requested(puts) /\ fwPc' = "cloned" /\ sent' = sent
    BY <2>1, <2>2, <2>4, RequestKeeps DEF Waiting
  <2>5. CASE Done(FALSE) /\ UNCHANGED <<nextId, invokeVars>>
    <3>1. fwPc \in Forwarded /\ req' = NoReq
      BY <2>1, <2>5 DEF Forwarded, Waiting, FwInv, FwTyped
    <3> QED BY <2>1, <2>5, <3>1, DoneKeeps
  <2> QED BY <2>3, <2>4, <2>5
<1>11. CASE FwCloned
  <2>1. fwPc \in Forwarded /\ req' = NoReq
        /\ UNCHANGED <<fixed, elem, group, nextId, apart, server, doubt>>
    BY <1>11 DEF FwCloned, Forwarded, Taken, fwHist
  <2> QED BY <1>11, <2>1, DoneKeeps DEF FwCloned
<1>12. CASE FwWaits
  <2>1. CASE Invocation
    BY <1>12, <2>1, InvocationKeeps DEF FwWaits, fwHist
  <2>2. CASE Interrupt
    BY <1>12, <2>2 DEF FwWaits, Interrupt, fwHist, FwInv, FwTyped, Grouped, SentTogether,
       Requesting, OnlySent, Fresh, ArrivesOnce, Excusable, Album, Batch
  <2> QED BY <1>12, <2>1, <2>2 DEF FwWaits
<1> QED BY <1>1, <1>2, <1>3, <1>4, <1>5, <1>6, <1>7, <1>8, <1>9, <1>10, <1>11, <1>12
       DEF FwSteps

\* However often a request is repeated, and though every message of an album is met again,
\* a message is put in the chat once, but where the answer to its direct forwarding was
\* lost before it was copied, or its album was once not found.
THEOREM MessagesArriveOnce == FwSpec => []ArrivesOnce
<1>1. FwInit => FwInv BY FwInitially
<1>2. FwInv /\ [FwSteps]_fwVars => FwInv' BY FwStep
<1>3. FwInv => ArrivesOnce BY DEF FwInv
<1> QED BY <1>1, <1>2, <1>3, PTL DEF FwSpec

-----------------------------------------------------------------------------
(* What is reported done.                                                  *)

\* A request answered with success has been acted on, and all it puts has arrived then.
Confirmed ==
  /\ barDone \subseteq Msgs /\ (fwPc = "start" => barDone = {})
  /\ fwPc \in Waiting =>
       /\ elem \in req.puts \union dropped
       /\ answer = "ok" => req.id \in served
       /\ req.id \in served => \A m \in req.puts : arrived[m] > 0

DoneInv == Confirmed /\ DoneHasArrived

\* A new request is neither answered nor acted on.
LEMMA RequestConfirms ==
  ASSUME FwInv, Confirmed, Requested(req'.puts), fwPc' \in Waiting, barDone' = barDone,
         elem' \in req'.puts \union dropped', served' = served
  PROVE  Confirmed'
<1>1. req' = [id |-> nextId, puts |-> req'.puts] /\ answer' = "none"
  BY DEF Requested, Send
<1>2. req'.id \notin served'
  BY <1>1 DEF FwInv, Requesting, FwTyped
<1> QED BY <1>1, <1>2 DEF Confirmed, Waiting

\* An answer of success comes only after the server has acted.
LEMMA InvocationConfirms ==
  ASSUME FwInv, Confirmed, Invocation, UNCHANGED <<fwPc, elem, barDone, dropped>>
  PROVE  Confirmed' /\ \A m \in Msgs : arrived[m] > 0 => arrived'[m] > 0
<1>1. /\ req # NoReq /\ req' = req
      /\ \/ UNCHANGED server
         \/ /\ served' = served \union {req.id}
            /\ arrived' = [m \in Msgs |-> IF m \in req.puts /\ req.id \notin served
                                          THEN arrived[m] + 1 ELSE arrived[m]]
      /\ arrived \in [Msgs -> Nat] /\ fwPc \in Waiting
  BY InvocationStep DEF FwInv, FwTyped
<1>2. req.puts \subseteq Msgs
  BY <1>1 DEF FwInv, FwTyped, Request, Msgs
<1>3. \A m \in Msgs : arrived[m] > 0 => arrived'[m] > 0
  BY <1>1 DEF server
<1>4. req.id \in served' => \A m \in req.puts : arrived'[m] > 0
  BY <1>1, <1>2, <1>3 DEF Confirmed, server
<1>5. answer' = "ok" => req.id \in served'
  <2> USE DEF Invoking, Serve, Ends
  <2>1. CASE Answered
    BY <2>1 DEF Answered
  <2>2. CASE Refused \/ Canceled
    BY <2>2 DEF Refused, Canceled
  <2>3. CASE \E acted \in BOOLEAN : ConnectionLost(acted)
    BY <2>3 DEF ConnectionLost, Recovers, GivesUp
  <2>4. CASE \E acted \in BOOLEAN : InternalError(acted)
    BY <2>4 DEF InternalError, LimitReached, Recovers, GivesUp
  <2> QED BY <2>1, <2>2, <2>3, <2>4 DEF Invocation
<1> QED BY <1>1, <1>3, <1>4, <1>5 DEF Confirmed

\* A tracker is marked as done only after such an answer.
LEMMA DoneStep == FwInv /\ DoneInv /\ [FwSteps]_fwVars => DoneInv'
<1> SUFFICES ASSUME FwInv, DoneInv, [FwSteps]_fwVars PROVE DoneInv'
  OBVIOUS
<1> USE DEF fixed, invokeVars, server, Goes, bars, fwHist
<1>0. elem \in Msgs /\ Confirmed /\ DoneHasArrived
  BY DEF FwInv, FwTyped, DoneInv
<1>1. CASE UNCHANGED fwVars
  BY <1>1 DEF fwVars, DoneInv, Confirmed, DoneHasArrived
<1>2. CASE FwStart
  BY <1>2 DEF FwStart, DoneInv, Confirmed, DoneHasArrived, Waiting
<1>3. CASE \/ FwNextCanceled \/ FwNextEnds \/ FwPanics \/ FwNextFails \/ FwNext \/ FwGroup
           \/ FwToClone
  <2>1. fwPc' \notin Waiting \union {"start"} /\ UNCHANGED <<flags, barDone, dropped, arrived>>
    BY <1>3 DEF FwNextCanceled, FwNextEnds, FwPanics, FwNextFails, FwNext, Stands, FwGroup,
       FwToClone, Waiting
  <2> QED BY <2>1 DEF DoneInv, Confirmed, DoneHasArrived
<1>4. ASSUME NEW ok \in BOOLEAN, Done(ok), UNCHANGED <<flags, dropped, arrived>>,
             fwPc # "start", fwPc \notin Waiting \/ fwPc' \notin Waiting,
             ok => flags.dry \/ arrived[elem] > 0 \/ elem \in dropped
      PROVE  DoneInv'
  <2>1. fwPc' \in {"next", "end"} /\ barDone' \in {barDone, barDone \union {elem}}
        /\ (barDone' # barDone => ok)
    BY <1>4 DEF Done
  <2> QED BY <2>1, <1>0, <1>4 DEF DoneInv, Confirmed, DoneHasArrived, Waiting
<1>5. CASE FwSizesFail
  <2>1. Done(FALSE) /\ fwPc = "forward" /\ UNCHANGED <<flags, dropped, arrived>>
    BY <1>5 DEF FwSizesFail
  <2> QED BY <2>1, <1>4 DEF Waiting
<1>6. CASE FwDry
  <2>1. fwPc \in {"forward", "clone"} /\ flags.dry /\ UNCHANGED <<flags, dropped, arrived>>
        /\ \E ok \in BOOLEAN : Done(ok)
    BY <1>6 DEF FwDry
  <2> QED BY <2>1, <1>4 DEF Waiting
<1>7. CASE FwDirect
  <2>1. Requested(Batch) /\ fwPc = "forward" /\ fwPc' = "direct"
        /\ UNCHANGED <<flags, elem, barDone, dropped>>
    BY <1>7 DEF FwDirect
  <2>2. req'.puts = Batch /\ UNCHANGED <<served, arrived>>
    BY <2>1 DEF Requested, Send
  <2>3. elem \in Batch
    BY <2>1, ElemInBatch DEF FwInv, Forwarded
  <2>4. Confirmed'
    BY <2>1, <2>2, <2>3, <1>0, RequestConfirms DEF Waiting
  <2> QED BY <2>1, <2>2, <2>4 DEF DoneInv, DoneHasArrived
<1>8. CASE FwDirected
  <2>1. fwPc = "direct" /\ UNCHANGED <<flags, elem, dropped, arrived>>
    BY <1>8 DEF FwDirected, Taken
  <2>2. CASE answer = "ok"
    <3>1. Done(TRUE) /\ fwPc' \notin Waiting
      BY <1>8, <2>2 DEF FwDirected, Done, Waiting
    <3>2. arrived[elem] > 0 \/ elem \in dropped
      BY <2>1, <2>2, <1>0 DEF Confirmed, Waiting
    <3> QED BY <2>1, <3>1, <3>2, <1>4
  <2>3. CASE answer # "ok"
    <3>1. fwPc' = "clone" /\ UNCHANGED bars
      BY <1>8, <2>3 DEF FwDirected
    <3> QED BY <2>1, <3>1, <1>0 DEF DoneInv, Confirmed, DoneHasArrived, Waiting
  <2> QED BY <2>2, <2>3
<1>9. CASE FwClone
  <2>1. fwPc = "clone" /\ UNCHANGED <<flags, elem, group>>
    BY <1>9 DEF FwClone
  <2>2. elem \in Batch
    BY <2>1, ElemInBatch DEF FwInv, Forwarded
  <2>3. \/ Done(FALSE) /\ UNCHANGED <<dropped, invokeVars>>
        \/ \E puts \in SUBSET Batch :
              /\ Requested(puts) /\ fwPc' = "cloned" /\ elem \in puts \union dropped'
              /\ dropped \subseteq dropped' /\ barDone' = barDone
    <3>1. Copyable \subseteq Batch
      BY DEF Copyable
    <3> QED BY <1>9, <2>2, <3>1 DEF FwClone
  <2>4. CASE Done(FALSE) /\ UNCHANGED <<dropped, invokeVars>>
    BY <2>1, <2>4, <1>4 DEF Waiting
  <2>5. ASSUME NEW puts \in SUBSET Batch, Requested(puts), fwPc' = "cloned",
               elem \in puts \union dropped', dropped \subseteq dropped', barDone' = barDone
        PROVE  DoneInv'
    <3>1. req'.puts = puts /\ UNCHANGED <<served, arrived>>
      BY <2>5 DEF Requested, Send
    <3>2. Confirmed'
      BY <2>1, <2>5, <3>1, <1>0, RequestConfirms DEF Waiting
    <3> QED BY <2>1, <2>5, <3>1, <3>2, <1>0 DEF DoneInv, DoneHasArrived
  <2> QED BY <2>3, <2>4, <2>5
<1>10. CASE FwCloned
  <2>1. fwPc = "cloned" /\ UNCHANGED <<flags, elem, dropped, arrived>> /\ Done(answer = "ok")
    BY <1>10 DEF FwCloned, Taken
  <2>2. fwPc' \notin Waiting
    BY <2>1 DEF Done, Waiting
  <2>3. answer = "ok" => arrived[elem] > 0 \/ elem \in dropped
    BY <2>1, <1>0 DEF Confirmed, Waiting
  <2> QED BY <2>1, <2>2, <2>3, <1>4
<1>11. CASE FwWaits
  <2>1. UNCHANGED <<flags, fwPc, elem, barDone, dropped>>
    BY <1>11 DEF FwWaits
  <2>2. CASE Invocation
    BY <2>1, <2>2, <1>0, InvocationConfirms DEF DoneInv, DoneHasArrived, Confirmed
  <2>3. CASE Interrupt
    BY <2>1, <2>3, <1>0 DEF Interrupt, DoneInv, DoneHasArrived, Confirmed
  <2> QED BY <1>11, <2>2, <2>3 DEF FwWaits
<1> QED BY <1>1, <1>2, <1>3, <1>5, <1>6, <1>7, <1>8, <1>9, <1>10, <1>11 DEF FwSteps

\* Whatever is lost on the way, a message whose progress says done is in the chat, but for
\* one left out of an album the rest of which was copied.
THEOREM DoneMeansArrived == FwSpec => []DoneHasArrived
<1>1. FwInit => FwInv /\ DoneInv
  BY FwInitially DEF FwInit, DoneInv, Confirmed, DoneHasArrived, Waiting
<1>2. FwInv /\ [FwSteps]_fwVars => FwInv'
  BY FwStep
<1>3. FwInv /\ DoneInv /\ [FwSteps]_fwVars => DoneInv'
  BY DoneStep
<1>4. DoneInv => DoneHasArrived
  BY DEF DoneInv
<1> QED BY <1>1, <1>2, <1>3, <1>4, PTL DEF FwSpec

-----------------------------------------------------------------------------
(* Forward: the types, and where the run stands.                            *)

FwTypes ==
  /\ InvokeTypeOK
  /\ flags \in Flags /\ protected \subseteq Msgs /\ alive \subseteq Msgs
  /\ fwPc \in {"start", "next", "group", "forward", "direct", "clone", "cloned", "end", "panic"}
  /\ fwDi \in Nat \ {0} /\ fwMi \in Nat \ {0} /\ fwErr \in BOOLEAN
  /\ elem \in Msgs /\ group \subseteq Msgs /\ nextId \in Nat
  /\ {sent, barDone, barErred, dropped, apart} \subseteq SUBSET Msgs

\* What the steps of a request leave of the invocation.
LEMMA RequestTypes ==
  ASSUME FwInv, FwTypes, FwInv', UNCHANGED invokeVars \/ Taken \/ Invocation \/ Interrupt
                                 \/ \E puts \in SUBSET Batch : Requested(puts)
  PROVE  InvokeTypeOK'
<1> USE InvokeAssumption DEF FwTypes, InvokeTypeOK, FwInv, FwTyped, Request, Msgs
<1>0. /\ req' \in [id : Nat, puts : SUBSET Payloads] \union {NoReq}
      /\ served' \subseteq Nat /\ arrived' \in [Payloads -> Nat]
  OBVIOUS
<1>1. CASE UNCHANGED invokeVars
  BY <1>0, <1>1 DEF invokeVars
<1>2. CASE Taken \/ Interrupt
  BY <1>0, <1>2 DEF Taken, Interrupt
<1>3. CASE \E puts \in SUBSET Batch : Requested(puts)
  BY <1>0, <1>3 DEF Requested, Send
<1>4. CASE Invocation
  <2>1. req # NoReq /\ req.puts \subseteq Payloads
    BY <1>4, InvocationStep
  <2>2. \A a : Ends(a) => answer' = a /\ doubt' \subseteq Payloads
    BY <2>1 DEF Ends
  <2>3. Recovers \/ GivesUp => /\ rounds' \in 0..MaxRounds /\ tries' \in 0..MaxTries
                               /\ answer' \in {"none", "ok", "error", "canceled"}
                               /\ doubt' \subseteq Payloads
    BY <2>2 DEF Recovers, GivesUp
  <2>4. CASE Answered
    BY <1>0, <2>2, <2>4 DEF Answered
  <2>5. CASE Refused \/ Canceled
    BY <1>0, <2>2, <2>5 DEF Refused, Canceled
  <2>6. CASE \E acted \in BOOLEAN : ConnectionLost(acted)
    BY <1>0, <2>3, <2>6 DEF ConnectionLost
  <2>7. CASE \E acted \in BOOLEAN : InternalError(acted)
    BY <1>0, <2>3, <2>7 DEF InternalError, LimitReached
  <2> QED BY <1>4, <2>4, <2>5, <2>6, <2>7 DEF Invocation
<1> QED BY <1>1, <1>2, <1>3, <1>4

\* The types at the start.
LEMMA FwTypesInitially == FwInit => FwTypes
<1> SUFFICES ASSUME FwInit PROVE FwTypes
  OBVIOUS
<1>1. InvokeTypeOK
  <2>1. InvokeInit
    BY DEF FwInit
  <2>2. 0 \in 0..MaxTries /\ 0 \in 0..MaxRounds
    BY InvokeAssumption
  <2> QED BY <2>1, <2>2 DEF InvokeInit, InvokeTypeOK
<1>2. flags \in Flags
  BY DEF FwInit, Flags
<1>3. elem \in Msgs
  BY DEF FwInit
<1>4. /\ fwPc = "start" /\ fwDi = 1 /\ fwMi = 1 /\ protected = {} /\ alive = Msgs
      /\ group = {} /\ nextId = 0
      /\ sent = {} /\ barDone = {} /\ barErred = {} /\ dropped = {} /\ apart = {}
  BY DEF FwInit
<1>5. fwErr \in BOOLEAN
  BY DEF FwInit
<1> HIDE DEF FwInit
<1> QED BY <1>1, <1>2, <1>3, <1>4, <1>5 DEF FwTypes

\* Every step of a forward keeps the types.
LEMMA FwTypesStep == FwInv /\ FwInv' /\ FwTypes /\ [FwSteps]_fwVars => FwTypes'
<1> SUFFICES ASSUME FwInv, FwInv', FwTypes, [FwSteps]_fwVars PROVE FwTypes'
  OBVIOUS
<1> USE DEF fixed, bars, fwHist, at, Goes
<1> DEFINE Others == /\ flags' \in Flags /\ protected' \subseteq Msgs
                     /\ fwPc' \in {"start", "next", "group", "forward", "direct", "clone",
                                   "cloned", "end", "panic"}
                     /\ fwDi' \in Nat \ {0} /\ fwMi' \in Nat \ {0} /\ fwErr' \in BOOLEAN
                     /\ group' \subseteq Msgs
                     /\ {sent', barDone', barErred', dropped', apart'} \subseteq SUBSET Msgs
<1>0. alive' \subseteq Msgs /\ elem' \in Msgs /\ nextId' \in Nat
  BY DEF FwInv, FwTyped
<1>1. \A ok \in BOOLEAN : Done(ok) =>
        /\ fwPc' \in {"next", "end"} /\ fwErr' \in BOOLEAN
        /\ sent' \subseteq Msgs /\ barDone' \subseteq Msgs /\ barErred' \subseteq Msgs
  BY DEF Done, Marked, FwTypes
<1>2. StepOn => fwDi' \in Nat \ {0} /\ fwMi' \in Nat \ {0}
  BY DEF StepOn, FwTypes
<1>3. Batch \subseteq Msgs /\ Copyable \subseteq Batch
  BY DEF Batch, Copyable, FwTypes
<1>4. CASE UNCHANGED fwVars
  BY <1>4, <1>0, RequestTypes DEF fwVars, FwTypes
<1>5. CASE FwStart
  BY <1>5, <1>0, RequestTypes DEF FwStart, FwTypes
<1>6. CASE FwNextCanceled \/ FwNextEnds \/ FwPanics \/ FwNextFails \/ FwNext \/ FwToClone
  <2>1. /\ UNCHANGED <<flags, protected, group, bars, sent, fwHist, invokeVars>>
        /\ UNCHANGED at \/ StepOn
        /\ fwPc' \in {fwPc, "next", "group", "clone", "end", "panic"} /\ fwErr' \in {fwErr, TRUE}
    BY <1>6 DEF FwNextCanceled, FwNextEnds, FwPanics, FwNextFails, FwNext, FwToClone, Stands
  <2>2. Others
    BY <2>1, <1>2 DEF FwTypes
  <2>3. InvokeTypeOK'
    BY <2>1, RequestTypes
  <2> QED BY <1>0, <2>2, <2>3 DEF FwTypes
<1>7. CASE FwGroup
  <2>1. InvokeTypeOK'
    BY <1>7, RequestTypes DEF FwGroup
  <2>2. Others
    BY <1>7, <1>0 DEF FwGroup, FwTypes
  <2> QED BY <1>0, <2>1, <2>2 DEF FwTypes
<1>8. CASE FwSizesFail \/ FwDry \/ FwCloned
  <2>1. /\ UNCHANGED invokeVars \/ Taken
        /\ UNCHANGED <<flags, protected, at, group, fwHist>>
        /\ \E ok \in BOOLEAN : Done(ok)
    BY <1>8 DEF FwSizesFail, FwDry, FwCloned
  <2>2. InvokeTypeOK'
    BY <2>1, RequestTypes
  <2>3. Others
    BY <2>1, <1>1 DEF FwTypes
  <2> QED BY <1>0, <2>2, <2>3 DEF FwTypes
<1>9. CASE FwDirect
  <2>1. InvokeTypeOK'
    BY <1>9, RequestTypes DEF FwDirect
  <2> QED BY <1>0, <1>9, <2>1 DEF FwDirect, FwTypes
<1>10. CASE FwDirected
  <2>1. InvokeTypeOK'
    BY <1>10, RequestTypes DEF FwDirected
  <2>2. Others
    BY <1>10, <1>1 DEF FwDirected, FwTypes
  <2> QED BY <1>0, <2>1, <2>2 DEF FwTypes
<1>11. CASE FwClone
  <2>1. /\ fwPc = "clone" /\ UNCHANGED <<flags, protected, at, group, apart>>
        /\ \/ UNCHANGED invokeVars /\ UNCHANGED dropped /\ Done(FALSE)
           \/ /\ \E puts \in SUBSET Batch : Requested(puts)
              /\ fwPc' = "cloned" /\ dropped' \subseteq dropped \union Batch
              /\ UNCHANGED <<sent, bars, fwErr>>
    <3>1. fwPc = "clone" => elem \in Batch
      BY ElemInBatch DEF FwInv, Forwarded
    <3> QED BY <1>11, <3>1, <1>3 DEF FwClone
  <2>2. InvokeTypeOK'
    BY <2>1, RequestTypes
  <2>3. Others
    BY <2>1, <1>1, <1>3 DEF FwTypes
  <2> QED BY <1>0, <2>2, <2>3 DEF FwTypes
<1>12. CASE FwWaits
  <2>1. InvokeTypeOK'
    BY <1>12, RequestTypes DEF FwWaits
  <2> QED BY <1>0, <1>12, <2>1 DEF FwWaits, FwTypes
<1> QED BY <1>4, <1>5, <1>6, <1>7, <1>8, <1>9, <1>10, <1>11, <1>12 DEF FwSteps

\* The variables of a forwarding have their types; a request is under way where the
\* goroutine waits for one, and only there.
THEOREM ForwardTypes == FwSpec => []FwTypeOK
<1>1. FwInit => FwInv /\ FwTypes
  BY FwInitially, FwTypesInitially
<1>2. FwInv /\ [FwSteps]_fwVars => FwInv'
  BY FwStep
<1>3. FwInv /\ FwInv' /\ FwTypes /\ [FwSteps]_fwVars => FwTypes'
  BY FwTypesStep
<1>4. FwInv /\ FwTypes => FwTypeOK
  BY DEF FwInv, FwTyped, FwTypes, FwTypeOK, Waiting
<1> QED BY <1>1, <1>2, <1>3, <1>4, PTL DEF FwSpec

-----------------------------------------------------------------------------
(* Forward: nothing is passed over.                                         *)

\* A function on the first numbers is a sequence.
LEMMA FirstNumbers ==
  ASSUME NEW S, NEW n \in Nat, NEW f, f = [k \in 1..n |-> f[k]], \A k \in 1..n : f[k] \in S
  PROVE  f \in Seq(S) /\ Len(f) = n
OBVIOUS

\* What is to be forwarded are sequences of messages.
LEMMA DialogsListed ==
  ASSUME NEW desc
  PROVE  /\ Dialogs(desc) \in Seq(Seq(Msgs))
         /\ Len(Dialogs(desc)) = Len(Sources) /\ Len(Sources) \in Nat
         /\ DOMAIN Dialogs(desc) = 1..Len(Sources)
<1>1. Sources \in Seq(Seq(Payloads \union Service))
  BY ForwardAssumption
<1>2. ASSUME NEW d \in DOMAIN Sources PROVE Dialogs(desc)[d] \in Seq(Msgs)
  <2> DEFINE s == Sources[d]
             I == {i \in DOMAIN s : s[i] \notin Service}
             ms == Only(s, I)
  <2>1. s \in Seq(Payloads \union Service) /\ I \in SUBSET (DOMAIN s)
    BY <1>1
  <2>2. /\ ms \in Seq(Payloads \union Service) /\ Len(ms) = Cardinality(I)
        /\ \A k \in 1..Cardinality(I) : Ascending(I)[k] \in I /\ ms[k] = s[Ascending(I)[k]]
    BY <2>1, OnlyKeeps
  <2>3. \A k \in 1..Len(ms) : ms[k] \in Msgs
    BY <2>1, <2>2 DEF Msgs
  <2>4. Collect(Sources[d], FALSE) = ms
    BY DEF Collect
  <2> HIDE DEF ms
  <2>5. ms \in Seq(Msgs)
    BY <2>2, <2>3
  <2>6. Reverse(ms) \in Seq(Msgs)
    BY <2>2, <2>3 DEF Reverse
  <2> QED BY <2>4, <2>5, <2>6 DEF Dialogs
<1>3. DOMAIN Dialogs(desc) = 1..Len(Sources) /\ Len(Sources) \in Nat
  BY <1>1 DEF Dialogs
<1>4. Dialogs(desc) = [d \in 1..Len(Sources) |-> Dialogs(desc)[d]]
  BY <1>1 DEF Dialogs
<1> HIDE DEF Dialogs
<1>5. Dialogs(desc) \in Seq(Seq(Msgs)) /\ Len(Dialogs(desc)) = Len(Sources)
  <2>1. \A d \in 1..Len(Sources) : Dialogs(desc)[d] \in Seq(Msgs)
    BY <1>1, <1>2
  <2> QED BY <1>3, <1>4, <2>1, FirstNumbers
<1> QED BY <1>3, <1>5

\* What is to be forwarded keeps the order of the sources.
LEMMA ListListed ==
  /\ List \in Seq(Seq(Msgs)) /\ Len(List) \in Nat /\ DOMAIN List = 1..Len(List)
  /\ Len(List) = Len(Sources)
  /\ \A d \in DOMAIN List : /\ List[d] \in Seq(Msgs) /\ Len(List[d]) \in Nat
                            /\ DOMAIN List[d] = 1..Len(List[d])
<1>1. /\ List \in Seq(Seq(Msgs)) /\ Len(List) = Len(Sources) /\ Len(Sources) \in Nat
      /\ DOMAIN List = 1..Len(Sources)
  BY DialogsListed DEF List
<1> HIDE DEF List
<1>2. \A d \in DOMAIN List : List[d] \in Seq(Msgs)
  BY <1>1
<1> QED BY <1>1, <1>2

\* The iterator has passed the k-th message of the d-th dialog.
Before(d, k) == d < fwDi \/ (d = fwDi /\ k < fwMi)

\* What it has passed is sent, but for the message in hand.
Passed(d, k) == List[d][k] \in sent \/ (fwPc \in Taking /\ List[d][k] = elem)

NonePassedOver ==
  /\ fwPc = "start" => fwDi = 1 /\ fwMi = 1
  /\ ~fwErr => \A d \in DOMAIN List : \A k \in DOMAIN List[d] : Before(d, k) => Passed(d, k)
  /\ fwPc = "end" /\ ~fwErr => fwDi > Len(List)

\* The iterator steps over a message only when it is marked, or takes it in hand.
LEMMA NoneStep == FwInv /\ FwTypes /\ NonePassedOver /\ [FwSteps]_fwVars => NonePassedOver'
<1> SUFFICES ASSUME FwInv, FwTypes, NonePassedOver, [FwSteps]_fwVars PROVE NonePassedOver'
  OBVIOUS
<1> USE DEF fixed, bars, at, Goes
<1>0. /\ fwDi \in Nat \ {0} /\ fwMi \in Nat \ {0} /\ elem \in Msgs
  BY DEF FwTypes
<1>1. ASSUME UNCHANGED <<flags, at, elem, sent>>, fwErr => fwErr',
             fwPc \in Taking => fwPc' \in Taking,
             fwPc' \notin {"start", "end"} \/ (fwErr' /\ fwPc' = "end") \/ fwPc' = fwPc
      PROVE  NonePassedOver'
  <2>1. List' = List
    BY <1>1 DEF List, Dialogs
  <2> QED BY <1>1, <2>1 DEF NonePassedOver, Before, Passed
<1>2. ASSUME NEW ok \in BOOLEAN, Done(ok), UNCHANGED <<flags, at, elem>>
      PROVE  NonePassedOver'
  <2>1. List' = List
    BY <1>2 DEF List, Dialogs
  <2>2. sent \subseteq sent' /\ elem \in sent'
    BY <1>2 DEF Done, Marked
  <2>3. /\ fwPc' \in {"next", "end"}
        /\ ~fwErr' => fwPc' = "next" /\ ~fwErr
    BY <1>2 DEF Done
  <2> QED BY <1>2, <2>1, <2>2, <2>3 DEF NonePassedOver, Before, Passed
<1>3. CASE UNCHANGED fwVars
  BY <1>3, <1>1 DEF fwVars
<1>4. CASE FwStart
  <2>1. fwDi' = 1 /\ fwMi' = 1 /\ fwPc' = "next"
    BY <1>4 DEF FwStart, NonePassedOver
  <2>2. \A d \in DOMAIN List' : \A k \in DOMAIN List'[d] : ~Before(d, k)'
    <3> SUFFICES ASSUME NEW d \in DOMAIN List', NEW k \in DOMAIN List'[d] PROVE ~Before(d, k)'
      OBVIOUS
    <3>1. List' \in Seq(Seq(Msgs)) /\ List'[d] \in Seq(Msgs)
      BY DialogsListed DEF List
    <3>2. d \in Nat /\ 1 =< d /\ k \in Nat /\ 1 =< k
      <4> HIDE DEF List
      <4> QED BY <3>1
    <3> QED BY <2>1, <3>2 DEF Before
  <2> QED BY <2>1, <2>2 DEF NonePassedOver
<1>5. CASE FwNextCanceled \/ FwPanics \/ FwToClone
  BY <1>5, <1>1 DEF FwNextCanceled, FwPanics, FwToClone, Stands, Taking
<1>6. CASE FwNextEnds
  <2>1. List' = List
    BY <1>6 DEF FwNextEnds, List, Dialogs
  <2> QED BY <1>6, <2>1 DEF FwNextEnds, NonePassedOver, Before, Passed, Taking
<1>7. CASE FwNextFails
  BY <1>7 DEF FwNextFails, NonePassedOver
<1>8. CASE FwNext
  <2>1. fwDi \in DOMAIN List /\ List' = List
    BY <1>8, <1>0, ListListed DEF FwNext, Stands, List, Dialogs
  <2>2. /\ fwPc = "next" /\ fwErr' = fwErr /\ sent' = sent /\ StepOn
        /\ \/ Here \in sent /\ fwPc' = "next" /\ elem' = elem
           \/ elem' = Here /\ fwPc' = "group"
    BY <1>8 DEF FwNext, Stands
  <2>3. ASSUME ~fwErr, NEW d \in DOMAIN List, NEW k \in DOMAIN List[d], Before(d, k)'
        PROVE  Passed(d, k)'
    <3>1. Before(d, k) \/ (d = fwDi /\ k = fwMi)
      <4>1. /\ d \in Nat /\ k \in Nat /\ Len(List[fwDi]) \in Nat
            /\ (d = fwDi => k =< Len(List[fwDi]))
        BY <2>1, ListListed
      <4>2. \/ fwDi' = fwDi /\ fwMi' = fwMi + 1
            \/ fwDi' = fwDi + 1 /\ fwMi' = 1 /\ ~(fwMi < Len(List[fwDi]))
        BY <2>2 DEF StepOn
      <4> QED BY <1>0, <2>3, <4>1, <4>2 DEF Before
    <3>2. CASE Before(d, k)
      <4>1. List[d][k] \in sent
        BY <2>2, <2>3, <3>2 DEF NonePassedOver, Passed, Taking
      <4> QED BY <2>1, <2>2, <4>1 DEF Passed
    <3>3. CASE d = fwDi /\ k = fwMi
      BY <2>1, <2>2, <3>3 DEF Passed, Here, Taking
    <3> QED BY <3>1, <3>2, <3>3
  <2> QED BY <2>1, <2>2, <2>3 DEF NonePassedOver
<1>9. CASE FwGroup
  BY <1>9, <1>1 DEF FwGroup, Taking
<1>10. CASE FwSizesFail \/ FwDry \/ FwCloned
  <2>1. UNCHANGED <<flags, at, elem>> /\ \E ok \in BOOLEAN : Done(ok)
    BY <1>10 DEF FwSizesFail, FwDry, FwCloned
  <2> QED BY <2>1, <1>2
<1>11. CASE FwDirect
  BY <1>11, <1>1 DEF FwDirect, Taking
<1>12. CASE FwDirected
  <2>1. CASE answer = "ok"
    BY <1>12, <2>1, <1>2 DEF FwDirected
  <2>2. CASE answer # "ok"
    BY <1>12, <2>2, <1>1 DEF FwDirected, Taking
  <2> QED BY <2>1, <2>2
<1>13. CASE FwClone
  <2>1. /\ fwPc = "clone" /\ UNCHANGED <<flags, at, elem>>
        /\ \/ Done(FALSE)
           \/ fwPc' = "cloned" /\ UNCHANGED <<sent, fwErr>>
    BY <1>13 DEF FwClone
  <2>2. CASE Done(FALSE)
    BY <2>1, <2>2, <1>2
  <2>3. CASE fwPc' = "cloned" /\ UNCHANGED <<sent, fwErr>>
    BY <2>1, <2>3, <1>1 DEF Taking
  <2> QED BY <2>1, <2>2, <2>3
<1>14. CASE FwWaits
  BY <1>14, <1>1 DEF FwWaits
<1> QED BY <1>3, <1>4, <1>5, <1>6, <1>7, <1>8, <1>9, <1>10, <1>11, <1>12, <1>13, <1>14
       DEF FwSteps

\* A run that ends without an error has come by every message of every dialog, and has
\* sent each, marked it with its album, or reported its failure.
THEOREM EveryoneIsReported == FwSpec => []AllReported
<1>1. FwInit => FwInv /\ FwTypes /\ NonePassedOver
  <2>1. FwInit => fwDi = 1 /\ fwMi = 1 /\ fwPc = "start"
    BY DEF FwInit
  <2>2. FwInit => \A d \in DOMAIN List : \A k \in DOMAIN List[d] : ~Before(d, k)
    <3> SUFFICES ASSUME FwInit, NEW d \in DOMAIN List, NEW k \in DOMAIN List[d]
                 PROVE  ~Before(d, k)
      OBVIOUS
    <3>1. d \in Nat /\ 1 =< d /\ k \in Nat /\ 1 =< k
      BY ListListed
    <3> QED BY <2>1, <3>1 DEF Before
  <2> QED BY <2>1, <2>2, FwInitially, FwTypesInitially DEF NonePassedOver
<1>2. FwInv /\ [FwSteps]_fwVars => FwInv'
  BY FwStep
<1>3. FwInv /\ FwInv' /\ FwTypes /\ [FwSteps]_fwVars => FwTypes'
  BY FwTypesStep
<1>4. FwInv /\ FwTypes /\ NonePassedOver /\ [FwSteps]_fwVars => NonePassedOver'
  BY NoneStep
<1>5. FwTypes /\ NonePassedOver => AllReported
  <2> SUFFICES ASSUME FwTypes, NonePassedOver, fwPc = "end", ~fwErr,
                      NEW d \in DOMAIN List, NEW m \in Range(List[d])
               PROVE  m \in sent
    BY DEF AllReported
  <2>1. PICK k \in DOMAIN List[d] : m = List[d][k]
    BY DEF Range
  <2>2. d \in Nat /\ d =< Len(List) /\ Len(List) \in Nat /\ fwDi \in Nat
    BY ListListed DEF FwTypes
  <2>3. Before(d, k)
    BY <2>2 DEF NonePassedOver, Before
  <2> QED BY <2>1, <2>3 DEF NonePassedOver, Passed, Taking
<1> QED BY <1>1, <1>2, <1>3, <1>4, <1>5, PTL DEF FwSpec

-----------------------------------------------------------------------------
(* Extensions: the manifest never lies.                                     *)

\* As much of the types as the argument needs; install has one target at most.
ExTyped ==
  /\ exDisk \in [ExDirs -> [Files -> Content]] /\ exDir \in ExDirs
  /\ exOp = "install" => exTodo = <<>> \/ \E t \in ExTargets : exTodo = <<t>>

\* The manifest that lies there, if any, is none a new binary could contradict.
Room == exDir \in exTorn \/ exDisk[exDir]["manifest"] \notin Releases

\* Where a command stands, and what it has found or made by then.
Standing ==
  /\ exPc \in {"check", "remove"} => exOp # "install"
  /\ exOp = "install" /\ exPc \in {"exist", "release", "make", "open", "copy", "manifest"}
     => exTodo # <<>>
  /\ exPc = "release" => ~ExLocal /\ (exDry \/ exDisk[exDir]["bin"] = "none")
  /\ exPc \in {"make", "open"} => exDisk[exDir][ExFile] = "none"
  /\ exPc = "copy" /\ ExFile = "bin" => Room
  /\ exPc \in {"make", "open", "copy"} /\ ~ExLocal => exTag \in Releases
  /\ exPc = "manifest" => exTag \in Releases /\ exDisk[exDir]["bin"] = exTag /\ Room

ExInv == ExTyped /\ Standing /\ ManifestIsTrue

-----------------------------------------------------------------------------
\* What is no release.
LEMMA NoReleases ==
  /\ "none" \notin Releases /\ "part" \notin Releases /\ "local" \notin Releases
  /\ Empty \in [Files -> Content] /\ Empty["manifest"] = "none" /\ Empty["bin"] = "none"
BY ExtensionsAssumption DEF Empty, Files, Content

\* A target names a directory and a file, which is the binary unless it is local.
LEMMA TargetFile ==
  ASSUME NEW t \in ExTargets
  PROVE  /\ t.dir \in ExDirs
         /\ t.file \in {"bin", "script"} /\ (~t.local => t.file = "bin")
BY ExtensionsAssumption DEF ExTargets

\* What is looked for and written is the binary unless the target is local.
LEMMA FileOf ==
  ASSUME ExTyped, exOp = "install" => exTodo # <<>>
  PROVE  ExFile \in {"bin", "script"} /\ (~ExLocal => ExFile = "bin")
<1>1. CASE exOp = "install"
  <2>1. PICK t \in ExTargets : exTodo = <<t>>
    BY <1>1 DEF ExTyped
  <2>2. Target = t
    BY <2>1 DEF Target
  <2> QED
    BY <1>1, <2>2, TargetFile DEF ExFile, ExLocal
<1>2. CASE exOp # "install"
  BY <1>2 DEF ExFile
<1> QED
  BY <1>1, <1>2

\* Once a target is done an install has none left.
LEMMA TargetsLeft ==
  ASSUME ExTyped, NextTarget, exOp = "install" => exTodo # <<>>, UNCHANGED exOp
  PROVE  /\ exPc' = "next"
         /\ exOp' = "install" => exTodo' = <<>>
<1>1. CASE exOp = "install"
  <2>1. PICK t \in ExTargets : exTodo = <<t>>
    BY <1>1 DEF ExTyped
  <2>2. Tail(<<t>>) = <<>>
    OBVIOUS
  <2> QED
    BY <2>1, <2>2 DEF NextTarget, ExGoes
<1> QED
  BY <1>1 DEF NextTarget, ExGoes

\* At the start there are no extensions.
LEMMA ExInitially == ExInit => ExInv
<1> SUFFICES ASSUME ExInit PROVE ExInv
  OBVIOUS
<1>1. ExtDirs[1] \in ExDirs
  BY ExtensionsAssumption
<1> QED
  BY <1>1, NoReleases DEF ExInit, ExInv, ExTyped, Standing, ManifestIsTrue

-----------------------------------------------------------------------------
\* A directory that goes, goes with its manifest; one that goes in part is marked.
LEMMA VanishKeeps ==
  ASSUME ExInv, NEW d \in ExDirs, Vanish(d) \/ VanishPartly(d)
  PROVE  /\ exDisk' \in [ExDirs -> [Files -> Content]]
         /\ ManifestIsTrue'
         /\ Vanish(d) => exDisk'[d] = Empty
<1>1. CASE Vanish(d)
  <2>1. exDisk' \in [ExDirs -> [Files -> Content]] /\ exDisk'[d] = Empty
        /\ \A e \in ExDirs \ {d} : exDisk'[e] = exDisk[e]
    BY <1>1, NoReleases DEF Vanish, ExInv, ExTyped
  <2>2. exTorn' = exTorn \ {d}
    BY <1>1 DEF Vanish
  <2> QED
    BY <2>1, <2>2, NoReleases DEF ExInv, ManifestIsTrue
<1>2. CASE VanishPartly(d) /\ ~Vanish(d)
  <2>1. PICK gone \in SUBSET Files :
          exDisk' = [exDisk EXCEPT ![d] =
                       [f \in Files |-> IF f \in gone THEN "none" ELSE exDisk[d][f]]]
    BY <1>2 DEF VanishPartly
  <2>2. [f \in Files |-> IF f \in gone THEN "none" ELSE exDisk[d][f]] \in [Files -> Content]
    BY DEF ExInv, ExTyped, Content
  <2>3. exDisk' \in [ExDirs -> [Files -> Content]] /\ \A e \in ExDirs \ {d} : exDisk'[e] = exDisk[e]
    BY <2>1, <2>2 DEF ExInv, ExTyped
  <2>4. exTorn' = exTorn \union {d}
    BY <1>2 DEF VanishPartly
  <2> QED
    BY <1>2, <2>3, <2>4 DEF ExInv, ManifestIsTrue
<1> QED
  BY <1>1, <1>2

\* A file is written in the directory at hand, and nothing else.
LEMMA WriteEffect ==
  ASSUME ExTyped, NEW f \in Files, NEW what \in Content, Write(f, what)
  PROVE  /\ exDisk' \in [ExDirs -> [Files -> Content]]
         /\ exDisk'[exDir][f] = what
         /\ \A g \in Files \ {f} : exDisk'[exDir][g] = exDisk[exDir][g]
         /\ \A d \in ExDirs \ {exDir} : exDisk'[d] = exDisk[d]
BY DEF Write, ExTyped, Files

\* The command stands between two pieces of work, or has ended.
LEMMA IdleKeeps ==
  ASSUME exDisk' \in [ExDirs -> [Files -> Content]], ManifestIsTrue', exDir' \in ExDirs,
         exPc' \in {"idle", "next", "check", "remove"},
         exPc' \in {"check", "remove"} => exOp' # "install",
         exOp' = "install" => exTodo' = <<>> \/ \E t \in ExTargets : exTodo' = <<t>>
  PROVE  ExInv'
BY DEF ExInv, ExTyped, Standing

\* It goes on to the next target.
LEMMA ExDoneKeeps ==
  ASSUME ExInv, NextTarget, exOp = "install" => exTodo # <<>>, UNCHANGED <<exOp, exDir>>,
         exDisk' \in [ExDirs -> [Files -> Content]], ManifestIsTrue'
  PROVE  ExInv'
<1>1. exPc' = "next" /\ (exOp' = "install" => exTodo' = <<>>)
  BY TargetsLeft DEF ExInv
<1> QED
  BY <1>1, IdleKeeps DEF ExInv, ExTyped

\* What the current target says, as long as it is the current one.
LEMMA SameTarget ==
  ASSUME UNCHANGED <<exOp, exTodo>>
  PROVE  ExFile' = ExFile /\ ExLocal' = ExLocal
BY DEF ExFile, ExLocal, Target

\* Each step keeps the invariant.
LEMMA ExStepwise == ExInv /\ [ExSteps]_exVars => ExInv'
<1> SUFFICES ASSUME ExInv, [ExSteps]_exVars PROVE ExInv'
  OBVIOUS
<1> USE DEF exFiles, exCmd
<1>0. /\ UNCHANGED <<exDisk, exTorn>> => exDisk' \in [ExDirs -> [Files -> Content]] /\ ManifestIsTrue'
      /\ UNCHANGED exDir => exDir' \in ExDirs
      /\ UNCHANGED <<exOp, exTodo>> =>
           (exOp' = "install" => exTodo' = <<>> \/ \E t \in ExTargets : exTodo' = <<t>>)
  BY DEF ExInv, ExTyped, ManifestIsTrue
<1>1. CASE ExStart \/ ExUpgradeAll
  <2>1. exOp' = "install" => \E t \in ExTargets : exTodo' = <<t>>
    BY <1>1 DEF ExStart, ExUpgradeAll
  <2>2. UNCHANGED <<exDisk, exTorn, exDir>> /\ exPc' = "next"
    BY <1>1 DEF ExStart, ExUpgradeAll, ExGoes
  <2> QED
    BY <1>0, <2>1, <2>2, IdleKeeps
<1>2. CASE ExEnds \/ ExNotFound \/ ExFind \/ ExCheckUpdate
  <2>1. UNCHANGED <<exDisk, exTorn, exOp>> /\ exDir' \in ExDirs
    BY <1>2 DEF ExEnds, ExNotFound, ExFind, ExCheckUpdate, ExInv, ExTyped
  <2>2. /\ exPc' \in {"idle", "next", "check", "remove"}
        /\ exPc' \in {"check", "remove"} => exOp # "install"
    BY <1>2 DEF ExEnds, ExNotFound, ExFind, ExCheckUpdate, ExGoes, NextTarget, ExInv, Standing
  <2>3. exOp = "install" => UNCHANGED exTodo
    BY <1>2 DEF ExEnds, ExNotFound, ExFind, ExCheckUpdate, ExInv, Standing
  <2> QED
    BY <1>0, <2>1, <2>2, <2>3, IdleKeeps
<1>3. CASE ExInstall
  <2>1. PICK t \in ExTargets : exTodo = <<t>>
    BY <1>3 DEF ExInstall, ExInv, ExTyped
  <2>2. exDir' \in ExDirs /\ exPc' = "exist" /\ UNCHANGED <<exDisk, exTorn, exOp, exTodo>>
    BY <1>3, <2>1, TargetFile DEF ExInstall, ExGoes, Target
  <2> QED
    BY <1>0, <2>1, <2>2 DEF ExInv, ExTyped, Standing
<1>4. CASE ExRemove
  <2>1. Stem[exDir] \in ExDirs
    BY ExtensionsAssumption DEF ExInv, ExTyped
  <2>2. exDisk' \in [ExDirs -> [Files -> Content]] /\ ManifestIsTrue'
    BY <1>0, <1>4, <2>1, VanishKeeps DEF ExRemove
  <2>3. UNCHANGED <<exOp, exDir>> /\ exOp # "install"
    BY <1>4 DEF ExRemove, ExInv, Standing
  <2>4. CASE NextTarget
    BY <2>2, <2>3, <2>4, ExDoneKeeps
  <2>5. CASE exPc' = "exist"
    BY <2>2, <2>3, <2>5 DEF ExInv, ExTyped, Standing
  <2> QED
    BY <1>4, <2>4, <2>5 DEF ExRemove, ExGoes
<1>5. CASE ExExist
  <2>1. /\ exOp = "install" => exTodo # <<>>
        /\ ExFile \in {"bin", "script"} /\ (~ExLocal => ExFile = "bin")
    BY <1>5, FileOf DEF ExExist, ExInv, Standing
  <2>2. exDisk' \in [ExDirs -> [Files -> Content]] /\ ManifestIsTrue' /\ UNCHANGED <<exOp, exDir>>
    BY <1>0, <1>5, VanishKeeps DEF ExExist, ExInv, ExTyped
  <2>3. CASE NextTarget
    BY <2>1, <2>2, <2>3, ExDoneKeeps
  <2>4. CASE ExNext /\ ~NextTarget
    <3>1. UNCHANGED <<exOp, exTodo, exDry, exDir>>
      BY <1>5, <2>4 DEF ExExist, ExNext
    <3>2. exDry \/ exDisk'[exDir][ExFile] = "none"
      <4>1. CASE exDisk[exDir][ExFile] = "none"
        BY <1>5, <2>4, <4>1 DEF ExExist
      <4>2. CASE exDisk[exDir][ExFile] # "none" /\ ~exDry
        <5>1. Vanish(exDir)
          BY <1>5, <2>4, <4>2 DEF ExExist
        <5> QED
          BY <2>1, <5>1, VanishKeeps, NoReleases DEF ExInv, ExTyped, Empty, Files
      <4> QED
        BY <4>1, <4>2
    <3>3. \/ exPc' = "release" /\ ~ExLocal
          \/ exPc' = "make" /\ ExLocal /\ ~exDry
      BY <2>4 DEF ExNext, ExGoes
    <3> QED
      BY <1>0, <2>1, <2>2, <3>1, <3>2, <3>3, SameTarget DEF ExInv, ExTyped, Standing
  <2> QED
    BY <1>5, <2>3, <2>4 DEF ExExist
<1>6. CASE ExRelease
  <2>1. /\ exOp = "install" => exTodo # <<>>
        /\ ExFile = "bin" /\ ~ExLocal /\ (exDry \/ exDisk[exDir]["bin"] = "none")
    BY <1>6, FileOf DEF ExRelease, ExInv, Standing
  <2>2. UNCHANGED <<exDisk, exTorn, exOp, exDir, exDry>>
    BY <1>6 DEF ExRelease
  <2>3. CASE NextTarget
    BY <1>0, <2>1, <2>2, <2>3, ExDoneKeeps
  <2>4. CASE ~NextTarget
    <3>1. exPc' = "make" /\ ~exDry /\ UNCHANGED exTodo /\ exTag' \in Releases
      BY <1>6, <2>4 DEF ExRelease, ExGoes
    <3> QED
      BY <1>0, <2>1, <2>2, <3>1, SameTarget DEF ExInv, ExTyped, Standing
  <2> QED
    BY <2>3, <2>4
<1>7. CASE ExMake
  <2>1. /\ UNCHANGED <<exDisk, exTorn, exOp, exTodo, exDir, exTag>>
        /\ exPc = "make" /\ exPc' = "open"
    BY <1>7 DEF ExMake, ExGoes
  <2> QED
    BY <1>0, <2>1, SameTarget DEF ExInv, ExTyped, Standing
<1>8. CASE ExOpen
  <2>1. /\ exOp = "install" => exTodo # <<>>
        /\ ExFile \in {"bin", "script"} /\ (~ExLocal => ExFile = "bin")
        /\ exDisk[exDir][ExFile] = "none" /\ (~ExLocal => exTag \in Releases)
    BY <1>8, FileOf DEF ExOpen, ExInv, Standing
  <2>2. UNCHANGED <<exTorn, exOp, exDir, exTag>>
    BY <1>8 DEF ExOpen
  <2>3. CASE NextTarget /\ UNCHANGED exDisk
    BY <1>0, <2>1, <2>2, <2>3, ExDoneKeeps
  <2>4. CASE Write(ExFile, "part") /\ exPc' = "copy" /\ UNCHANGED exTodo
    <3>1. /\ exDisk' \in [ExDirs -> [Files -> Content]]
          /\ \A g \in Files \ {ExFile} : exDisk'[exDir][g] = exDisk[exDir][g]
          /\ \A d \in ExDirs \ {exDir} : exDisk'[d] = exDisk[d]
      BY <2>1, <2>4, WriteEffect DEF ExInv, Files, Content
    <3>2. exDisk'[exDir]["manifest"] = exDisk[exDir]["manifest"]
      BY <2>1, <3>1 DEF Files
    <3>3. ExFile = "bin" => Room
      BY <2>1, NoReleases DEF ExInv, ExTyped, ManifestIsTrue, Room
    <3>4. ExFile = "script" => exDisk'[exDir]["bin"] = exDisk[exDir]["bin"]
      BY <3>1 DEF Files
    <3>5. ManifestIsTrue'
      BY <2>1, <2>2, <3>1, <3>2, <3>3, <3>4 DEF ExInv, ManifestIsTrue, Room
    <3> QED
      BY <1>0, <2>1, <2>2, <2>4, <3>1, <3>2, <3>3, <3>5, SameTarget
         DEF ExInv, ExTyped, Standing, Room
  <2> QED
    BY <1>8, <2>3, <2>4 DEF ExOpen, ExGoes
<1>9. CASE ExCopy
  <2>1. /\ exOp = "install" => exTodo # <<>>
        /\ ExFile \in {"bin", "script"} /\ (~ExLocal => ExFile = "bin")
        /\ (ExFile = "bin" => Room) /\ (~ExLocal => exTag \in Releases)
    BY <1>9, FileOf DEF ExCopy, ExInv, Standing
  <2>2. UNCHANGED <<exTorn, exOp, exDir, exTag>>
    BY <1>9 DEF ExCopy
  <2>3. CASE CopyBroken
    BY <1>0, <2>1, <2>2, <2>3, ExDoneKeeps DEF CopyBroken
  <2>4. CASE ~CopyBroken
    <3>1. PICK what \in Content : Write(ExFile, what) /\ (~ExLocal => what = exTag)
      BY <1>9, <2>1, <2>4 DEF ExCopy, Content
    <3>2. /\ exDisk' \in [ExDirs -> [Files -> Content]] /\ exDisk'[exDir][ExFile] = what
          /\ \A g \in Files \ {ExFile} : exDisk'[exDir][g] = exDisk[exDir][g]
          /\ \A d \in ExDirs \ {exDir} : exDisk'[d] = exDisk[d]
      BY <2>1, <3>1, WriteEffect DEF ExInv, Files
    <3>3. exDisk'[exDir]["manifest"] = exDisk[exDir]["manifest"]
      BY <2>1, <3>2 DEF Files
    <3>4. ExFile = "script" => exDisk'[exDir]["bin"] = exDisk[exDir]["bin"]
      BY <3>2 DEF Files
    <3>5. ManifestIsTrue'
      BY <2>1, <2>2, <3>2, <3>3, <3>4 DEF ExInv, ManifestIsTrue, Room
    <3>6. CASE NextTarget
      BY <2>1, <2>2, <3>2, <3>5, <3>6, ExDoneKeeps
    <3>7. CASE exPc' = "manifest" /\ UNCHANGED exTodo /\ ~ExLocal
      BY <1>0, <2>1, <2>2, <3>1, <3>2, <3>3, <3>5, <3>7 DEF ExInv, ExTyped, Standing, Room
    <3> QED
      BY <1>9, <2>4, <3>6, <3>7 DEF ExCopy, ExGoes
  <2> QED
    BY <2>3, <2>4
<1>10. CASE ExManifest
  <2>1. exTag \in Releases /\ exDisk[exDir]["bin"] = exTag /\ Room
    BY <1>10 DEF ExManifest, ExInv, Standing
  <2>2. PICK what \in {exDisk[exDir]["manifest"], "part", exTag} : Write("manifest", what)
    BY <1>10 DEF ExManifest
  <2>3. what \in Content
    BY <2>1, <2>2 DEF ExInv, ExTyped, Files, Content
  <2>4. /\ exDisk' \in [ExDirs -> [Files -> Content]] /\ exDisk'[exDir]["manifest"] = what
        /\ exDisk'[exDir]["bin"] = exTag
        /\ \A d \in ExDirs \ {exDir} : exDisk'[d] = exDisk[d]
    BY <2>1, <2>2, <2>3, WriteEffect DEF ExInv, Files
  <2>5. exTorn' = IF what = exTag THEN exTorn \ {exDir} ELSE exTorn
    BY <1>10, <2>4 DEF ExManifest
  <2>6. ManifestIsTrue'
    BY <2>1, <2>2, <2>4, <2>5, NoReleases DEF ExInv, ManifestIsTrue, Room
  <2>7. exOp = "install" => exTodo # <<>>
    BY <1>10 DEF ExManifest, ExInv, Standing
  <2> QED
    BY <1>10, <2>4, <2>6, <2>7, ExDoneKeeps DEF ExManifest
<1>11. CASE ExKill
  <2>1. exTodo' = <<>> /\ exPc' = "idle" /\ UNCHANGED exDir
    BY <1>11 DEF ExKill, ExGoes
  <2>2. UNCHANGED <<exDisk, exTorn>> \/ \E d \in ExDirs : VanishPartly(d)
    BY <1>11, ExtensionsAssumption DEF ExKill, ExInv, ExTyped
  <2>3. exDisk' \in [ExDirs -> [Files -> Content]] /\ ManifestIsTrue'
    BY <1>0, <2>2, VanishKeeps
  <2> QED
    BY <1>0, <2>1, <2>3, IdleKeeps
<1>12. CASE ExPublish \/ UNCHANGED exVars
  <2>1. UNCHANGED <<exDisk, exTorn, exOp, exTodo, exDir, exTag, exPc, exDry>>
    BY <1>12 DEF ExPublish, exVars
  <2> QED
    BY <1>0, <2>1, SameTarget DEF ExInv, ExTyped, Standing, Room
<1> QED
  BY <1>1, <1>2, <1>3, <1>4, <1>5, <1>6, <1>7, <1>8, <1>9, <1>10, <1>11, <1>12 DEF ExSteps

\* The invariant holds throughout.
LEMMA ExAlways == ExSpec => []ExInv
BY ExInitially, ExStepwise, PTL DEF ExSpec

-----------------------------------------------------------------------------
\* A manifest names the release whose whole binary lies beside it, at every moment of every
\* install, upgrade and removal, but for directories whose removal did not go through.
THEOREM ManifestsAreTrue == ExSpec => []ManifestIsTrue
<1>1. ExInv => ManifestIsTrue
  BY DEF ExInv
<1> QED
  BY ExAlways, <1>1, PTL

-----------------------------------------------------------------------------
(* Extensions: the types.                                                   *)

ExTypes ==
  /\ exThere \subseteq ExDirs /\ exTorn \subseteq exThere
  /\ \A d \in ExDirs \ exThere : exDisk[d] = Empty
  /\ exLatest \in [ExDirs -> Releases \union {"none"}] /\ exRuns \in 0..MaxExRuns
  /\ exPc \in {"idle", "next", "check", "remove", "exist", "release", "make", "open", "copy",
               "manifest"}
  /\ exOp \in {"install", "upgrade", "remove"} /\ exForce \in BOOLEAN /\ exDry \in BOOLEAN
  /\ exTodo \in Seq(ExTargets) /\ exFound \in [ExDirs -> SUBSET ExDirs]
  /\ exCache \in [ExDirs -> [mf : Content \union {"unread"},
                             latest : Releases \union {"unread"}]]
  /\ exTag \in Content
  /\ exPc \in {"open", "copy", "manifest"} => exDir \in exThere
  /\ exPc \notin {"idle", "next"} => exTodo # <<>>

\* The tail of a list has the elements of the list.
LEMMA TailTyped == ASSUME NEW S, NEW s \in Seq(S), s # <<>> PROVE Tail(s) \in Seq(S)
OBVIOUS

\* The types at the start.
LEMMA ExTypesInitially == ExInit => ExTypes
<1> SUFFICES ASSUME ExInit PROVE ExTypes
  OBVIOUS
<1>1. 0 \in 0..MaxExRuns
  BY ExtensionsAssumption
<1>2. exCache \in [ExDirs -> [mf : Content \union {"unread"}, latest : Releases \union {"unread"}]]
  BY DEF ExInit, Unread
<1>3. exLatest \in [ExDirs -> Releases \union {"none"}] /\ exFound \in [ExDirs -> SUBSET ExDirs]
  BY DEF ExInit
<1>4. exTag \in Content /\ exForce \in BOOLEAN /\ exDry \in BOOLEAN
  BY DEF ExInit, Content
<1> QED BY <1>1, <1>2, <1>3, <1>4 DEF ExInit, ExTypes

\* A directory that goes, in whole or in part.
LEMMA VanishTypes ==
  ASSUME ExTypes, ExTyped, NEW d \in exThere, Vanish(d) \/ VanishPartly(d)
  PROVE  /\ exThere' \subseteq ExDirs /\ exTorn' \subseteq exThere'
         /\ \A e \in ExDirs \ exThere' : exDisk'[e] = Empty
<1>1. d \in ExDirs /\ DOMAIN exDisk = ExDirs
  BY DEF ExTypes, ExTyped
<1>2. CASE Vanish(d)
  BY <1>1, <1>2 DEF ExTypes, Vanish
<1>3. CASE VanishPartly(d)
  <2>1. UNCHANGED exThere /\ exTorn' = exTorn \union {d}
        /\ \A e \in ExDirs \ {d} : exDisk'[e] = exDisk[e]
    BY <1>1, <1>3 DEF VanishPartly
  <2> QED BY <1>1, <2>1 DEF ExTypes
<1> QED BY <1>2, <1>3

\* Every step of a command on extensions keeps the types.
LEMMA ExTypesStep == ExInv /\ ExInv' /\ ExTypes /\ [ExSteps]_exVars => ExTypes'
<1> SUFFICES ASSUME ExInv, ExInv', ExTypes, [ExSteps]_exVars PROVE ExTypes'
  OBVIOUS
<1> USE DEF exFiles, exCmd, ExGoes
<1> DEFINE Kept   == /\ exThere' \subseteq ExDirs /\ exTorn' \subseteq exThere'
                     /\ \A d \in ExDirs \ exThere' : exDisk'[d] = Empty
           Called == /\ exRuns' \in 0..MaxExRuns
                     /\ exOp' \in {"install", "upgrade", "remove"}
                     /\ exForce' \in BOOLEAN /\ exDry' \in BOOLEAN
                     /\ exFound' \in [ExDirs -> SUBSET ExDirs]
           Known  == exLatest' \in [ExDirs -> Releases \union {"none"}]
           Read   == exCache' \in [ExDirs -> [mf : Content \union {"unread"},
                                              latest : Releases \union {"unread"}]]
           Left   == exTodo' \in Seq(ExTargets)
           Tagged == exTag' \in Content
           Placed == /\ exPc' \in {"idle", "next", "check", "remove", "exist", "release",
                                   "make", "open", "copy", "manifest"}
                     /\ exPc' \in {"open", "copy", "manifest"} => exDir' \in exThere'
                     /\ exPc' \notin {"idle", "next"} => exTodo' # <<>>
<1> SUFFICES Kept /\ Called /\ Known /\ Read /\ Left /\ Tagged /\ Placed
  BY DEF ExTypes
<1>0. /\ exDir \in ExDirs /\ ExDirs = DOMAIN exDisk
      /\ UNCHANGED exFiles => Kept
      /\ UNCHANGED <<exRuns, exCmd>> => Called
      /\ UNCHANGED exLatest => Known
      /\ UNCHANGED exCache => Read
      /\ UNCHANGED exTodo => Left
      /\ UNCHANGED exTag => Tagged
  BY DEF ExTypes, ExInv, ExTyped
<1>1. exTodo' = <<>> => Left
  OBVIOUS
<1>2. exTodo # <<>> /\ NextTarget => Placed /\ Left
  BY TailTyped DEF NextTarget, ExTypes
<1>3. [dir : ExDirs, file : {"bin"}, local : {FALSE}] \subseteq ExTargets
  BY DEF ExTargets
<1>4. [n \in ExDirs |-> FoundOf(n)] \in [ExDirs -> SUBSET ExDirs]
  BY ExtensionsAssumption DEF FoundOf
<1>5. CASE ExStart
  <2>1. exRuns' \in 0..MaxExRuns
    BY <1>5, ExtensionsAssumption DEF ExStart, ExTypes
  <2>2. exCache' = [d \in ExDirs |-> Unread]
    BY <1>5 DEF ExStart
  <2>3. Read
    BY <2>2 DEF Unread
  <2>4. PICK t \in ExTargets : exTodo' = <<t>>
    BY <1>5, <1>3 DEF ExStart
  <2>5. Left
    BY <2>4
  <2>6. Called
    BY <1>5, <1>4, <2>1 DEF ExStart
  <2> QED BY <1>0, <1>5, <2>3, <2>5, <2>6 DEF ExStart
<1>6. CASE ExUpgradeAll
  <2>1. exRuns' \in 0..MaxExRuns
    BY <1>6, ExtensionsAssumption DEF ExUpgradeAll, ExTypes
  <2>2. Called
    BY <1>6, <1>4, <2>1 DEF ExUpgradeAll
  <2>3. Read
    <3>1. PICK reached \in SUBSET exThere : exCache' = Populated(reached)
      BY <1>6 DEF ExUpgradeAll
    <3>2. \A d \in ExDirs : Answer(d) \in Releases \union {"unread"}
                            /\ exDisk[d]["manifest"] \in Content
      BY DEF Answer, ExInv, ExTyped, Files
    <3> QED BY <3>1, <3>2 DEF Populated, Unread
  <2>4. Left
    <3> DEFINE I == {i \in DOMAIN ExtDirs : ExtDirs[i] \in exThere}
               there == Only(ExtDirs, I)
    <3>1. there \in Seq(ExDirs)
      BY ExtensionsAssumption, OnlyKeeps
    <3>2. exTodo' = [i \in DOMAIN there |-> [NoTarget EXCEPT !.dir = Stem[there[i]]]]
      BY <1>6 DEF ExUpgradeAll
    <3> HIDE DEF there
    <3>3. \A i \in DOMAIN there : [NoTarget EXCEPT !.dir = Stem[there[i]]] \in ExTargets
      <4> SUFFICES ASSUME NEW i \in DOMAIN there
                   PROVE  [NoTarget EXCEPT !.dir = Stem[there[i]]] \in ExTargets
        OBVIOUS
      <4>1. Stem[there[i]] \in ExDirs
        BY <3>1, ExtensionsAssumption
      <4>2. NoTarget \in [dir : ExDirs, file : {"bin"}, local : {FALSE}]
        BY ExtensionsAssumption DEF NoTarget
      <4> QED BY <1>3, <4>1, <4>2
    <3>4. Len(there) \in Nat /\ DOMAIN there = 1..Len(there)
      BY <3>1
    <3> QED BY <3>2, <3>3, <3>4
  <2> QED BY <1>0, <1>6, <2>2, <2>3, <2>4 DEF ExUpgradeAll
<1>7. CASE ExEnds \/ ExInstall \/ ExNotFound \/ ExFind
  <2>1. UNCHANGED <<exFiles, exLatest, exRuns, exCmd, exCache, exTag>>
    BY <1>7 DEF ExEnds, ExInstall, ExNotFound, ExFind
  <2>2. \/ exPc' \in {"idle", "exist", "check", "remove"} /\ UNCHANGED exTodo
        \/ NextTarget
    BY <1>7 DEF ExEnds, ExInstall, ExNotFound, ExFind
  <2>3. exTodo # <<>> \/ (exPc' = "idle" /\ UNCHANGED exTodo)
    BY <1>7 DEF ExEnds, ExInstall, ExNotFound, ExFind
  <2> QED BY <1>0, <1>2, <2>1, <2>2, <2>3
<1>8. CASE ExCheckUpdate
  <2>1. /\ UNCHANGED <<exFiles, exLatest, exRuns, exCmd, exDir, exTag>>
        /\ (exPc' = "remove" /\ UNCHANGED exTodo) \/ NextTarget
    BY <1>8 DEF ExCheckUpdate
  <2>2. Read
    <3>1. PICK mf, latest :
            /\ exCache' = [exCache EXCEPT ![exDir] = [mf |-> mf, latest |-> latest]]
            /\ mf \in {exCache[exDir].mf, exDisk[exDir]["manifest"]}
            /\ latest \in {exCache[exDir].latest, Answer(exDir), "unread"}
      BY <1>8 DEF ExCheckUpdate
    <3>2. mf \in Content \union {"unread"} /\ latest \in Releases \union {"unread"}
      BY <1>0, <3>1 DEF ExTypes, ExInv, ExTyped, Answer, Files
    <3> QED BY <1>0, <3>1, <3>2 DEF ExTypes
  <2>9. exTodo # <<>>
    BY <1>8 DEF ExCheckUpdate, ExTypes
  <2> QED BY <1>0, <1>2, <2>1, <2>2, <2>9
<1>9. CASE ExRemove
  <2>1. UNCHANGED <<exLatest, exRuns, exCmd, exCache, exDir, exTag>>
    BY <1>9 DEF ExRemove
  <2>2. \/ UNCHANGED exFiles
        \/ Stem[exDir] \in exThere /\ (Vanish(Stem[exDir]) \/ VanishPartly(Stem[exDir]))
    BY <1>9 DEF ExRemove
  <2>3. Kept
    BY <1>0, <2>2, VanishTypes DEF ExInv
  <2>4. (exPc' = "exist" /\ UNCHANGED exTodo) \/ NextTarget
    BY <1>9 DEF ExRemove
  <2>9. exTodo # <<>>
    BY <1>9 DEF ExRemove, ExTypes
  <2> QED BY <1>0, <1>2, <2>1, <2>3, <2>4, <2>9
<1>10. CASE ExExist
  <2>1. UNCHANGED <<exLatest, exRuns, exCmd, exCache, exDir, exTag>>
    BY <1>10 DEF ExExist
  <2>2. exDisk[exDir][ExFile] # "none" => exDir \in exThere
    <3>1. ExFile \in {"bin", "script"}
      BY <1>10, FileOf DEF ExExist, ExInv, Standing
    <3> QED BY <1>0, <3>1 DEF ExTypes, Empty, Files
  <2>3. Kept
    BY <1>0, <1>10, <2>2, VanishTypes DEF ExExist, ExInv
  <2>4. (exPc' \in {"release", "make"} /\ UNCHANGED exTodo) \/ NextTarget
    BY <1>10 DEF ExExist, ExNext
  <2>9. exTodo # <<>>
    BY <1>10 DEF ExExist, ExTypes
  <2> QED BY <1>0, <1>2, <2>1, <2>3, <2>4, <2>9
<1>11. CASE ExRelease
  <2>1. /\ UNCHANGED <<exFiles, exLatest, exRuns, exCmd, exCache, exDir>>
        /\ exTag' = exLatest[exDir]
        /\ (exPc' = "make" /\ UNCHANGED exTodo) \/ NextTarget
    BY <1>11 DEF ExRelease
  <2>2. Tagged
    BY <1>0, <2>1 DEF ExTypes, Content
  <2>9. exTodo # <<>>
    BY <1>11 DEF ExRelease, ExTypes
  <2> QED BY <1>0, <1>2, <2>1, <2>2, <2>9
<1>12. CASE ExMake
  <2>1. /\ exThere' = exThere \union {exDir} /\ exPc' = "open"
        /\ UNCHANGED <<exDisk, exTorn, exLatest, exRuns, exCmd, exTodo, exCache, exDir, exTag>>
        /\ exTodo # <<>>
    BY <1>12 DEF ExMake, ExTypes
  <2>2. Kept
    BY <1>0, <2>1 DEF ExTypes
  <2> QED BY <1>0, <2>1, <2>2
<1>13. ASSUME NEW f, NEW what, Write(f, what) \/ UNCHANGED exDisk, exDir \in exThere,
              UNCHANGED exThere, exTorn' \subseteq exTorn
       PROVE  Kept
  <2>1. \A d \in ExDirs \ {exDir} : exDisk'[d] = exDisk[d]
    BY <1>0, <1>13 DEF Write
  <2> QED BY <1>13, <2>1 DEF ExTypes
<1>14. CASE ExOpen
  <2>1. /\ exDir \in exThere
        /\ UNCHANGED <<exThere, exTorn, exLatest, exRuns, exCmd, exCache, exDir, exTag>>
    BY <1>14 DEF ExOpen, ExTypes
  <2>2. Kept
    BY <1>14, <1>13, <2>1 DEF ExOpen
  <2>3. (exPc' = "copy" /\ UNCHANGED exTodo) \/ NextTarget
    BY <1>14 DEF ExOpen
  <2>9. exTodo # <<>>
    BY <1>14 DEF ExOpen, ExTypes
  <2> QED BY <1>0, <1>2, <2>1, <2>2, <2>3, <2>9
<1>15. CASE ExCopy
  <2>1. /\ exDir \in exThere
        /\ UNCHANGED <<exThere, exTorn, exLatest, exRuns, exCmd, exCache, exDir, exTag>>
    BY <1>15 DEF ExCopy, ExTypes
  <2>2. Kept
    BY <1>15, <1>13, <2>1 DEF ExCopy, CopyBroken
  <2>3. (exPc' = "manifest" /\ UNCHANGED exTodo) \/ NextTarget
    BY <1>15 DEF ExCopy, CopyBroken
  <2>9. exTodo # <<>>
    BY <1>15 DEF ExCopy, ExTypes
  <2> QED BY <1>0, <1>2, <2>1, <2>2, <2>3, <2>9
<1>16. CASE ExManifest
  <2>1. /\ exDir \in exThere /\ exTorn' \subseteq exTorn /\ NextTarget
        /\ UNCHANGED <<exThere, exLatest, exRuns, exCmd, exCache, exDir, exTag>>
        /\ \E what : Write("manifest", what)
    BY <1>16 DEF ExManifest, ExTypes
  <2>2. Kept
    BY <1>13, <2>1
  <2>9. exTodo # <<>>
    BY <1>16 DEF ExManifest, ExTypes
  <2> QED BY <1>0, <1>2, <2>1, <2>2, <2>9
<1>17. CASE ExKill
  <2>1. /\ UNCHANGED <<exLatest, exRuns, exCmd, exCache, exDir, exTag>>
        /\ exPc' = "idle" /\ exTodo' = <<>>
    BY <1>17 DEF ExKill
  <2>2. Kept
    BY <1>0, <1>17, VanishTypes DEF ExKill, ExInv
  <2> QED BY <1>0, <1>1, <2>1, <2>2
<1>18. CASE ExPublish
  <2>1. Known
    BY <1>18 DEF ExPublish, ExTypes
  <2> QED BY <1>0, <1>18, <2>1 DEF ExPublish, ExTypes
<1>19. CASE UNCHANGED exVars
  BY <1>0, <1>19 DEF exVars, ExTypes
<1> QED BY <1>5, <1>6, <1>7, <1>8, <1>9, <1>10, <1>11, <1>12, <1>14, <1>15, <1>16, <1>17,
           <1>18, <1>19 DEF ExSteps

\* The variables of the management of extensions have their types; a directory that is not
\* there has no files, and only one that is there can have gone in part.
THEOREM ExtensionTypes == ExSpec => []ExTypeOK
<1>1. ExInv /\ ExInv' /\ ExTypes /\ [ExSteps]_exVars => ExTypes'
  BY ExTypesStep
<1>2. ExInv /\ ExTypes => ExTypeOK
  BY DEF ExInv, ExTyped, ExTypes, ExTypeOK
<1> QED BY ExInitially, ExStepwise, ExTypesInitially, <1>1, <1>2, PTL DEF ExSpec

-----------------------------------------------------------------------------
(* SelfUpdate: a working executable is kept.                                *)

Programs == Built \union {Absent, Broken}

\* The type invariant, one file at a time.
SuTyped ==
  /\ suOS \in {"windows", "unix"} /\ suRuns \in 0..MaxUpdates
  /\ suExe \in Programs /\ suBak \in Programs /\ suStaged \in Programs /\ suArchive \in Programs
  /\ suPc \in {"idle", "fetch", "download", "verify", "extract", "stage", "copy",
               "replace", "place", "clean"}
  /\ suFlags \in SuFlags /\ suTag \in 0..MaxVersion

\* What has been verified, staged and set aside is whole by the time it is needed.
Ready ==
  /\ suPc \in {"extract", "stage", "copy", "replace", "place"} => suArchive \in Built
  /\ suPc \in {"replace", "place"} => suStaged \in Built
  /\ suPc \notin {"idle", "place"} => suExe \in Built
  /\ suPc = "place" => suOS = "windows" /\ suExe = Absent /\ suBak \in Built

SuInv == SuTyped /\ Ready /\ ExecutableKept

-----------------------------------------------------------------------------
\* All of a version that exists is a build.
LEMMA WholeIsBuilt == ASSUME NEW v \in 0..MaxVersion PROVE All(v) \in Built
BY DEF Built

\* A release that is fetched has a version within the bound.
LEMMA ReleaseInRange == suFlags \in SuFlags => Releasable \subseteq 0..MaxVersion
BY SelfUpdateAssumption DEF SuFlags, Releasable

\* At the start the executable is the one that was installed.
LEMMA SuInitially == SuInit => SuInv
<1> SUFFICES ASSUME SuInit PROVE SuInv
  OBVIOUS
<1>1. 0 \in 0..MaxVersion /\ 0 \in 0..MaxUpdates
  BY SelfUpdateAssumption
<1>2. [dry |-> FALSE, force |-> FALSE, target |-> 0] \in SuFlags
  BY <1>1 DEF SuFlags
<1>3. SuTyped
  BY <1>1, <1>2 DEF SuInit, SuTyped, Programs
<1> QED
  BY <1>3 DEF SuInit, SuInv, Ready, ExecutableKept

-----------------------------------------------------------------------------
\* Each step keeps the invariant.
LEMMA SuStepwise == SuInv /\ [SuSteps]_suVars => SuInv'
<1> SUFFICES ASSUME SuInv, [SuSteps]_suVars PROVE SuInv'
  OBVIOUS
<1> USE DEF SuInv, SuTyped, Ready, ExecutableKept, SuGoes, SuReturns, Programs, suDisk
<1>1. CASE SuStart
  BY <1>1, SelfUpdateAssumption DEF SuStart
<1>2. CASE SuFetch
  <2>1. suTag' \in 0..MaxVersion
    BY <1>2, ReleaseInRange DEF SuFetch
  <2> QED
    BY <1>2, <2>1 DEF SuFetch
<1>3. CASE SuDownload
  <2>1. All(suTag) \in Built
    BY WholeIsBuilt
  <2> QED
    BY <1>3, <2>1 DEF SuDownload
<1>4. CASE SuVerify
  <2>1. All(suTag) \in Built
    BY WholeIsBuilt
  <2> QED
    BY <1>4, <2>1 DEF SuVerify, Verified
<1>5. CASE SuExtract
  BY <1>5 DEF SuExtract
<1>6. CASE SuStage
  BY <1>6 DEF SuStage
<1>7. CASE SuCopy
  BY <1>7 DEF SuCopy
<1>8. CASE SuRename
  BY <1>8 DEF SuRename, MayGo
<1>9. CASE SuBackup
  BY <1>9 DEF SuBackup, MayGo
<1>10. CASE SuPlace
  <2>1. CASE suExe' = suStaged /\ suStaged' = Absent
             /\ suPc' = "clean" /\ UNCHANGED <<suBak, suArchive>>
    BY <1>10, <2>1 DEF SuPlace
  <2>2. CASE RolledBack /\ SuReturns /\ UNCHANGED suStaged
    BY <1>10, <2>2 DEF SuPlace, RolledBack
  <2> QED
    BY <1>10, <2>1, <2>2 DEF SuPlace
<1>11. CASE SuClean
  BY <1>11 DEF SuClean, MayGo
<1>12. CASE SuKill
  BY <1>12 DEF SuKill
<1>13. CASE UNCHANGED suVars
  BY <1>13 DEF suVars
<1> QED
  BY <1>1, <1>2, <1>3, <1>4, <1>5, <1>6, <1>7, <1>8, <1>9, <1>10, <1>11, <1>12, <1>13
     DEF SuSteps

\* The invariant holds throughout.
LEMMA SuAlways == SuSpec => []SuInv
BY SuInitially, SuStepwise, PTL DEF SuSpec

-----------------------------------------------------------------------------
\* The executable is all of one version, or, on Windows, its backup is: there is no moment
\* of replaceBinary at which a failure or the end of the process loses both.
THEOREM UpdateKeepsExecutable == SuSpec => []ExecutableKept
<1>1. SuInv => ExecutableKept
  BY DEF SuInv
<1> QED
  BY SuAlways, <1>1, PTL

\* The variables of an update have their types.
THEOREM UpdateTypes == SuSpec => []SuTypeOK
<1>1. SuInv => SuTypeOK
  BY DEF SuInv, SuTyped, SuTypeOK, Programs
<1> QED BY SuAlways, <1>1, PTL

-----------------------------------------------------------------------------
(* ChatTools: a page of the list.                                           *)

ClTyped ==
  /\ clDate \in [Chats -> 0..MaxDate] /\ clMoved \subseteq Chats /\ clOffset \in 0..(MaxDate + 1)
  /\ clSeen \subseteq Nat /\ clElems \in Seq(Chats) /\ clCut \in BOOLEAN
  /\ clTodo \in Seq(Chats) /\ clOut \in Seq(Chats) /\ clNoTopics \subseteq Chats
  /\ ctOp = "ls" /\ ctPc # "start" => IsInjective(clDate)
  /\ ctPc = "topics" => ctOp = "ls" /\ clTodo # <<>>

\* A page lists the newest entries below the offset, newest first.
LEMMA PageListed ==
  ASSUME clDate \in [Chats -> 0..MaxDate], IsInjective(clDate)
  PROVE  /\ Page \in Seq(Chats) /\ Len(Page) \in Nat /\ DOMAIN Page = 1..Len(Page)
         /\ \A k \in 1..Len(Page) : Page[k] \in Chats /\ clDate[Page[k]] < clOffset
         /\ \A k, l \in 1..Len(Page) : k < l => clDate[Page[k]] > clDate[Page[l]]
         /\ \A c \in Chats : clDate[c] < clOffset =>
              \/ \E k \in 1..Len(Page) : Page[k] = c
              \/ /\ FullPage(Page) /\ Page # <<>> /\ clDate[c] < clDate[Page[Len(Page)]]
<1> DEFINE below == {c \in Chats : clDate[c] < clOffset}
           S     == {clDate[c] : c \in below}
           dates == Descending(S)
           size  == IF Len(dates) < ChatBatch THEN Len(dates) ELSE ChatBatch
<1>0. ChatBatch \in Nat \ {0} /\ IsFiniteSet(Chats) /\ MaxDate \in Nat
  BY ChatToolsAssumption
<1>1. \A c \in Chats : clDate[c] \in Nat
  BY <1>0
<1>2. S \in SUBSET Nat /\ IsFiniteSet(S)
  <2> DEFINE f == [c \in below |-> clDate[c]]
  <2>1. IsFiniteSet(below)
    <3>1. below \in SUBSET Chats
      OBVIOUS
    <3> QED BY <1>0, <3>1, FS_Subset
  <2>2. f \in Surjection(below, S)
    BY DEF Surjection
  <2>3. IsFiniteSet(S)
    BY <2>1, <2>2, FS_Surjection
  <2> QED BY <1>1, <2>3
<1>3. /\ dates \in Seq(S) /\ Len(dates) \in Nat /\ Len(dates) = Cardinality(S)
      /\ \A k, l \in 1..Len(dates) : k < l => dates[k] > dates[l]
      /\ \A i \in S : \E k \in 1..Len(dates) : dates[k] = i
  BY <1>2, DescendingLists
<1>4. Page = [i \in 1..size |-> CHOOSE c \in below : clDate[c] = dates[i]]
  BY DEF Page
<1> HIDE DEF dates
<1>5. /\ size \in Nat /\ size =< Len(dates)
      /\ size = Len(dates) \/ (size = ChatBatch /\ size \in 1..size /\ size < Len(dates))
  BY <1>0, <1>3
<1>6. ASSUME NEW k \in 1..size PROVE Page[k] \in below /\ clDate[Page[k]] = dates[k]
  <2>1. dates[k] \in S
    BY <1>3, <1>5
  <2>2. \E c \in below : clDate[c] = dates[k]
    BY <2>1
  <2> QED BY <1>4, <2>2
<1> HIDE DEF size, S
<1>7. Page \in Seq(Chats) /\ Len(Page) = size /\ DOMAIN Page = 1..size
  <2>1. Page = [k \in 1..size |-> Page[k]]
    BY <1>4
  <2>2. \A k \in 1..size : Page[k] \in Chats
    BY <1>6
  <2> HIDE DEF Page
  <2> QED BY <1>5, <2>1, <2>2
<1>8. ASSUME NEW k \in 1..size, NEW l \in 1..size, k < l
      PROVE  clDate[Page[k]] > clDate[Page[l]]
  <2>1. k \in 1..Len(dates) /\ l \in 1..Len(dates)
    BY <1>3, <1>5
  <2> QED BY <1>3, <1>6, <1>8, <2>1
<1>9. ASSUME NEW c \in below, ~\E k \in 1..size : Page[k] = c
      PROVE  size = ChatBatch /\ size \in 1..size /\ clDate[c] < clDate[Page[size]]
  <2>1. PICK k \in 1..Len(dates) : dates[k] = clDate[c]
    BY <1>3 DEF S
  <2>2. k \notin 1..size
    <3> SUFFICES ASSUME k \in 1..size PROVE FALSE
      OBVIOUS
    <3>1. clDate[Page[k]] = clDate[c] /\ Page[k] \in Chats
      BY <1>6, <2>1
    <3>2. Page[k] = c
      BY <3>1 DEF IsInjective
    <3> QED BY <1>9, <3>2
  <2>3. size < k /\ size = ChatBatch /\ size \in 1..size
    BY <1>3, <1>5, <2>2
  <2>4. size \in 1..Len(dates)
    BY <1>3, <1>5, <2>3
  <2>5. dates[size] > dates[k]
    BY <1>3, <2>3, <2>4
  <2>6. clDate[Page[size]] = dates[size] /\ Page[size] \in Chats
    BY <1>6, <2>3
  <2>7. clDate[c] \in Nat /\ clDate[Page[size]] \in Nat
    BY <1>1, <2>6
  <2> QED BY <2>1, <2>3, <2>5, <2>6, <2>7
<1>10. ASSUME NEW c \in Chats, clDate[c] < clOffset
       PROVE  \/ \E k \in 1..Len(Page) : Page[k] = c
              \/ FullPage(Page) /\ Page # <<>> /\ clDate[c] < clDate[Page[Len(Page)]]
  <2>1. c \in below
    BY <1>10
  <2>2. 0 \notin 1..0
    OBVIOUS
  <2>3. size \in 1..size => Page # <<>>
    BY <1>7
  <2> HIDE DEF below, Page
  <2> QED BY <1>7, <1>9, <2>1, <2>3 DEF FullPage
<1> QED BY <1>5, <1>6, <1>7, <1>8, <1>10

-----------------------------------------------------------------------------
(* ChatTools: ls fetches every dialog.                                      *)

\* The dialogs that stay where they are and share their id with no other.
Wanted == {c \in Chats \ (clMoved \union Folders \union Lost) :
             \A k \in Chats \ {c} : BareId[k] # BareId[c]}

ClListed ==
  /\ ctPc = "start" => clOffset = MaxDate + 1 /\ clSeen = {} /\ clElems = <<>>
  /\ \A k, l \in DOMAIN clElems : BareId[clElems[k]] = BareId[clElems[l]] => k = l
  /\ \A c \in Range(clElems) : BareId[c] \in clSeen
  /\ \A c \in Wanted : BareId[c] \in clSeen => c \in Range(clElems)
  /\ ctOp = "ls" /\ ctPc = "fetch" =>
       \A c \in Wanted : clDate[c] >= clOffset => c \in Range(clElems)
  /\ ctOp = "ls" /\ ctPc \in {"blocked", "process", "topics", "end"} /\ ~clCut =>
       Wanted \subseteq Range(clElems)

\* A page adds what it lists to the elements, and moves the offset to its last entry.
LEMMA PageKeeps ==
  ASSUME ClTyped, ClListed, ClPage
  PROVE  ClTyped' /\ ClListed'
<1> DEFINE first(i) == \A j \in 1..(i - 1) : Page[j] \in Folders \/ BareId[Page[j]] # BareId[Page[i]]
           kept == {i \in DOMAIN Page : /\ Page[i] \notin Folders \union Lost
                                        /\ BareId[Page[i]] \notin clSeen /\ first(i)}
           last == Page[Len(Page)]
           new  == Only(Page, kept)
<1>0. /\ BareId \in [Chats -> Nat] /\ MaxDate \in Nat /\ IsInjective(clDate)
      /\ clDate \in [Chats -> 0..MaxDate]
  BY ChatToolsAssumption DEF ClTyped, ClPage, CtIs
<1>1. /\ Page \in Seq(Chats) /\ Len(Page) \in Nat /\ DOMAIN Page = 1..Len(Page)
      /\ \A k \in 1..Len(Page) : Page[k] \in Chats /\ clDate[Page[k]] < clOffset
      /\ \A k, l \in 1..Len(Page) : k < l => clDate[Page[k]] > clDate[Page[l]]
      /\ \A c \in Chats : clDate[c] < clOffset =>
           \/ \E k \in 1..Len(Page) : Page[k] = c
           \/ FullPage(Page) /\ Page # <<>> /\ clDate[c] < clDate[Page[Len(Page)]]
  BY <1>0, PageListed
<1>2. /\ ctOp = "ls" /\ ctPc = "fetch" /\ Page # <<>>
      /\ clSeen' = clSeen \union {BareId[c] : c \in Range(Page) \ Folders}
      /\ clElems' = clElems \o new
      /\ clOffset' = (IF last \in Folders \union Lost THEN clOffset ELSE clDate[last])
      /\ clCut' = (last \in Lost)
      /\ ctPc' = (IF last \notin Lost /\ FullPage(Page) THEN "fetch" ELSE "blocked")
      /\ UNCHANGED <<ctOp, clDate, clMoved, clTodo, clOut, clNoTopics>>
  BY DEF ClPage, CtIs, CtGoes
<1>3. /\ new \in Seq(Chats) /\ Len(new) = Cardinality(kept) /\ Len(new) \in Nat
      /\ \A k \in 1..Len(new) : Ascending(kept)[k] \in kept /\ new[k] = Page[Ascending(kept)[k]]
      /\ \A k, l \in 1..Len(new) : k < l => Ascending(kept)[k] < Ascending(kept)[l]
      /\ \A i \in kept : \E k \in 1..Len(new) : Ascending(kept)[k] = i
  <2>1. kept \in SUBSET DOMAIN Page
    OBVIOUS
  <2> HIDE DEF kept, Page
  <2>2. /\ new \in Seq(Chats) /\ Len(new) = Cardinality(kept) /\ Cardinality(kept) \in Nat
        /\ \A k \in 1..Cardinality(kept) :
             Ascending(kept)[k] \in kept /\ new[k] = Page[Ascending(kept)[k]]
        /\ \A k, l \in 1..Cardinality(kept) : k < l => Ascending(kept)[k] < Ascending(kept)[l]
        /\ \A i \in kept : \E k \in 1..Cardinality(kept) : Ascending(kept)[k] = i
    BY <1>1, <2>1, OnlyKeeps
  <2> HIDE DEF new
  <2> QED BY <2>2
<1> HIDE DEF new, Page
<1>4. Range(new) = {Page[i] : i \in kept}
  <2>1. DOMAIN new = 1..Len(new)
    BY <1>3
  <2> HIDE DEF kept
  <2> QED BY <1>3, <2>1 DEF Range
<1>5. ASSUME NEW i \in kept, NEW j \in kept, i < j PROVE BareId[Page[i]] # BareId[Page[j]]
  <2>1. i \in 1..(j - 1)
    BY <1>1, <1>5
  <2>2. first(j) /\ Page[i] \notin Folders
    OBVIOUS
  <2> QED BY <2>1, <2>2
<1>6. /\ clElems' \in Seq(Chats) /\ Range(clElems') = Range(clElems) \union Range(new)
      /\ DOMAIN clElems' = 1..Len(clElems) + Len(new)
      /\ \A k \in 1..Len(clElems) : clElems'[k] = clElems[k]
      /\ \A k \in 1..Len(clElems) + Len(new) :
           \/ k \in 1..Len(clElems)
           \/ k - Len(clElems) \in 1..Len(new) /\ clElems'[k] = new[k - Len(clElems)]
  <2> DEFINE u == clElems \o new
  <2>1. clElems \in Seq(Chats) /\ new \in Seq(Chats)
    BY <1>3 DEF ClTyped
  <2>2. /\ u \in Seq(Chats) /\ Range(u) = Range(clElems) \union Range(new)
        /\ DOMAIN u = 1..Len(clElems) + Len(new)
        /\ \A k \in 1..Len(clElems) : u[k] = clElems[k]
        /\ \A k \in 1..Len(clElems) + Len(new) :
             \/ k \in 1..Len(clElems)
             \/ k - Len(clElems) \in 1..Len(new) /\ u[k] = new[k - Len(clElems)]
    BY <2>1, ConcatListed
  <2>3. clElems' = u
    BY <1>2
  <2> QED BY <2>2, <2>3
<1>7. \A c \in Range(clElems') : BareId[c] \in clSeen'
  <2>1. \A c \in Range(new) : c \in Range(Page) \ Folders
    BY <1>1, <1>4 DEF Range
  <2> QED BY <1>2, <1>6, <2>1 DEF ClListed
<1>8. ASSUME NEW k \in DOMAIN clElems', NEW l \in DOMAIN clElems',
             BareId[clElems'[k]] = BareId[clElems'[l]]
      PROVE  k = l
  <2>0. /\ Len(clElems) \in Nat /\ DOMAIN clElems = 1..Len(clElems)
        /\ k \in 1..Len(clElems) + Len(new) /\ l \in 1..Len(clElems) + Len(new)
    BY <1>6 DEF ClTyped
  <2>1. \A i \in 1..Len(clElems) : BareId[clElems'[i]] \in clSeen
    BY <1>6, <2>0 DEF ClListed, Range
  <2>2. ASSUME NEW i \in 1..Len(clElems) + Len(new), i \notin 1..Len(clElems)
        PROVE  /\ i - Len(clElems) \in 1..Len(new)
               /\ Ascending(kept)[i - Len(clElems)] \in kept
               /\ clElems'[i] = Page[Ascending(kept)[i - Len(clElems)]]
               /\ BareId[clElems'[i]] \notin clSeen
    <3>1. i - Len(clElems) \in 1..Len(new) /\ clElems'[i] = new[i - Len(clElems)]
      BY <1>6, <2>2
    <3>2. /\ Ascending(kept)[i - Len(clElems)] \in kept
          /\ clElems'[i] = Page[Ascending(kept)[i - Len(clElems)]]
      BY <1>3, <3>1
    <3>3. \A m \in kept : BareId[Page[m]] \notin clSeen
      OBVIOUS
    <3> QED BY <3>1, <3>2, <3>3
  <2>3. CASE k \in 1..Len(clElems) /\ l \in 1..Len(clElems)
    BY <1>6, <1>8, <2>0, <2>3 DEF ClListed
  <2>4. CASE k \notin 1..Len(clElems) /\ l \notin 1..Len(clElems)
    <3> DEFINE a == k - Len(clElems)
               b == l - Len(clElems)
    <3>1. /\ a \in 1..Len(new) /\ b \in 1..Len(new)
          /\ Ascending(kept)[a] \in kept /\ Ascending(kept)[b] \in kept
          /\ BareId[Page[Ascending(kept)[a]]] = BareId[Page[Ascending(kept)[b]]]
      BY <1>8, <2>0, <2>2, <2>4
    <3>2. ~(Ascending(kept)[a] < Ascending(kept)[b]) /\ ~(Ascending(kept)[b] < Ascending(kept)[a])
      BY <1>5, <3>1
    <3>3. ~(a < b) /\ ~(b < a)
      BY <1>3, <3>1, <3>2
    <3> QED BY <2>0, <3>3
  <2>5. CASE k \in 1..Len(clElems) /\ l \notin 1..Len(clElems)
    BY <1>8, <2>0, <2>1, <2>2, <2>5
  <2>6. CASE k \notin 1..Len(clElems) /\ l \in 1..Len(clElems)
    BY <1>8, <2>0, <2>1, <2>2, <2>6
  <2> QED BY <2>3, <2>4, <2>5, <2>6
<1>9. Wanted' = Wanted
  BY <1>2 DEF Wanted
<1>10. ASSUME NEW c \in Wanted, NEW i \in 1..Len(Page), Page[i] = c PROVE c \in Range(clElems')
  <2>1. CASE BareId[c] \in clSeen
    BY <1>6, <2>1 DEF ClListed
  <2>2. CASE BareId[c] \notin clSeen
    <3>1. ASSUME NEW j \in 1..(i - 1) PROVE BareId[Page[j]] # BareId[Page[i]]
      <4>1. j \in 1..Len(Page) /\ j < i
        BY <1>1
      <4>2. clDate[Page[j]] > clDate[Page[i]] /\ Page[j] \in Chats /\ Page[i] \in Chats
        BY <1>1, <4>1
      <4>3. clDate[Page[j]] \in Nat /\ clDate[Page[i]] \in Nat
        BY <1>0, <4>2
      <4>4. Page[j] # Page[i]
        BY <4>2, <4>3
      <4> QED BY <1>10, <4>2, <4>4 DEF Wanted
    <3>2. i \in kept
      BY <1>1, <1>10, <2>2, <3>1 DEF Wanted
    <3> QED BY <1>4, <1>6, <1>10, <3>2
  <2> QED BY <2>1, <2>2
<1>11. ASSUME NEW c \in Wanted, BareId[c] \in clSeen' PROVE c \in Range(clElems')
  <2>1. CASE BareId[c] \in clSeen
    BY <1>6, <2>1 DEF ClListed
  <2>2. CASE BareId[c] \notin clSeen
    <3>1. PICK d \in Range(Page) \ Folders : BareId[d] = BareId[c]
      BY <1>2, <1>11, <2>2
    <3>2. PICK i \in 1..Len(Page) : Page[i] = d
      BY <1>1, <3>1 DEF Range
    <3>3. d = c
      BY <1>1, <3>1, <3>2 DEF Wanted
    <3> QED BY <1>10, <3>2, <3>3
  <2> QED BY <2>1, <2>2
<1>12. /\ Len(Page) \in 1..Len(Page) /\ last \in Chats
       /\ clOffset \in Nat /\ \A c \in Chats : clDate[c] \in Nat
  <2>1. Len(Page) # 0
    BY <1>1, <1>2
  <2>2. Len(Page) \in 1..Len(Page)
    BY <1>1, <2>1
  <2> QED BY <1>0, <1>1, <2>2 DEF ClTyped
<1>13. ASSUME NEW c \in Wanted, clDate[c] >= clOffset PROVE c \in Range(clElems')
  BY <1>2, <1>6, <1>13 DEF ClListed
<1>14. ASSUME NEW c \in Wanted, clDate[c] < clOffset, c \notin Range(clElems')
       PROVE  FullPage(Page) /\ clDate[c] < clDate[last]
  <2>1. c \in Chats
    BY DEF Wanted
  <2> QED BY <1>1, <1>10, <1>14, <2>1
<1>15. ctPc' = "fetch" => \A c \in Wanted : clDate[c] >= clOffset' => c \in Range(clElems')
  <2> SUFFICES ASSUME ctPc' = "fetch", NEW c \in Wanted, clDate[c] >= clOffset',
                      c \notin Range(clElems')
               PROVE  FALSE
    OBVIOUS
  <2>1. c \in Chats /\ ~(clDate[c] >= clOffset)
    BY <1>13 DEF Wanted
  <2>2. clDate[c] < clOffset
    BY <1>12, <2>1
  <2>3. clDate[c] < clDate[last]
    BY <1>14, <2>2
  <2>4. clOffset' \in {clOffset, clDate[last]}
    BY <1>2
  <2> QED BY <1>12, <2>1, <2>2, <2>3, <2>4
<1>16. ctPc' # "fetch" /\ ~clCut' => Wanted \subseteq Range(clElems')
  <2> SUFFICES ASSUME ctPc' # "fetch", ~clCut', NEW c \in Wanted, c \notin Range(clElems')
               PROVE  FALSE
    OBVIOUS
  <2>1. last \notin Lost
    BY <1>2
  <2>2. ~FullPage(Page)
    BY <1>2, <2>1
  <2>3. c \in Chats /\ ~(clDate[c] >= clOffset)
    BY <1>13 DEF Wanted
  <2>4. clDate[c] < clOffset
    BY <1>12, <2>3
  <2> QED BY <1>14, <2>2, <2>4
<1>17. ClListed'
  <2>1. ctPc' \in {"fetch", "blocked"} /\ UNCHANGED <<ctOp, clDate>>
    BY <1>2
  <2> QED BY <1>7, <1>8, <1>9, <1>11, <1>15, <1>16, <2>1 DEF ClListed
<1>18. ClTyped'
  <2>1. clOffset' \in 0..(MaxDate + 1)
    <3>1. clDate[last] \in 0..(MaxDate + 1)
      BY <1>0, <1>12
    <3> QED BY <1>2, <3>1 DEF ClTyped
  <2>2. clSeen' \subseteq Nat
    <3>1. \A c \in Range(Page) : c \in Chats
      BY <1>1 DEF Range
    <3> QED BY <1>0, <1>2, <3>1 DEF ClTyped
  <2>3. clCut' \in BOOLEAN
    BY <1>2
  <2>4. ctPc' # "topics" /\ UNCHANGED <<ctOp, clDate, clMoved, clTodo, clOut, clNoTopics>>
    BY <1>2
  <2> QED BY <1>0, <1>6, <2>1, <2>2, <2>3, <2>4 DEF ClTyped
<1> QED BY <1>17, <1>18

\* What has been fetched is left to process, is listed, or was left out for a reason.
ClProcessed ==
  /\ IsInjective(clTodo) /\ IsInjective(clOut) /\ Range(clTodo) \intersect Range(clOut) = {}
  /\ ctPc \in {"start", "fetch", "blocked"} => clOut = <<>>
  /\ ctOp = "ls" /\ ctPc = "end" => clTodo = <<>>
  /\ ctOp = "ls" /\ ctPc \in {"process", "topics", "end"} =>
       \A c \in Range(clElems) :
         \/ c \in Range(clTodo) \union Range(clOut) \union Unwanted \union clNoTopics
         \/ BareId[c] \in Blocked

\* An element is taken from those left, and listed or left out for a reason.
LEMMA HeadKeeps ==
  ASSUME ClTyped, ClProcessed, clTodo # <<>>, ctOp = "ls", ctPc \in {"process", "topics"},
         UNCHANGED <<ctOp, clElems>>, clNoTopics \subseteq clNoTopics',
         ctPc' = "process", clTodo' = Tail(clTodo),
         \/ /\ clOut' = clOut
            /\ \/ Head(clTodo) \in Unwanted \union clNoTopics'
               \/ BareId[Head(clTodo)] \in Blocked
         \/ clOut' = Append(clOut, Head(clTodo))
  PROVE  ClProcessed' /\ clTodo' \in Seq(Chats) /\ clOut' \in Seq(Chats)
<1> DEFINE h == Head(clTodo)
           t == Tail(clTodo)
<1>1. /\ h \in Range(clTodo) /\ h \in Chats /\ t \in Seq(Chats)
      /\ Range(clTodo) = {h} \union Range(t)
      /\ IsInjective(t) /\ h \notin Range(t)
  BY TailListed DEF ClTyped, ClProcessed
<1>2. h \notin Range(clOut)
  BY <1>1 DEF ClProcessed
<1> HIDE DEF h, t
<1>3. /\ Append(clOut, h) \in Seq(Chats) /\ Range(Append(clOut, h)) = Range(clOut) \union {h}
      /\ IsInjective(Append(clOut, h))
  BY <1>1, <1>2, AppendListed DEF ClTyped, ClProcessed
<1>4. \/ /\ clOut' = clOut
         /\ h \in Unwanted \union clNoTopics' \/ BareId[h] \in Blocked
      \/ clOut' = Append(clOut, h)
  BY DEF h
<1>5. clOut' \in Seq(Chats) /\ IsInjective(clOut') /\ clTodo' \in Seq(Chats) /\ clTodo' = t
  BY <1>1, <1>3, <1>4 DEF ClTyped, ClProcessed, t
<1>6. Range(t) \intersect Range(clOut') = {}
  <2>1. Range(clOut') \subseteq Range(clOut) \union {h}
    BY <1>3, <1>4
  <2>2. Range(t) \intersect Range(clOut) = {}
    BY <1>1 DEF ClProcessed
  <2> QED BY <1>1, <2>1, <2>2
<1>7. ASSUME NEW c \in Range(clElems)
      PROVE  \/ c \in Range(t) \union Range(clOut') \union Unwanted \union clNoTopics'
             \/ BareId[c] \in Blocked
  <2>1. \/ c \in Range(clTodo) \union Range(clOut) \union Unwanted \union clNoTopics
        \/ BareId[c] \in Blocked
    BY DEF ClProcessed
  <2>2. CASE clOut' = clOut
    BY <1>1, <1>3, <1>4, <2>1, <2>2
  <2>3. CASE clOut' = Append(clOut, h)
    BY <1>1, <1>3, <2>1, <2>3
  <2> QED BY <1>4, <2>2, <2>3
<1> QED BY <1>1, <1>5, <1>6, <1>7 DEF ClProcessed

ClInv == ClTyped /\ ClListed /\ ClProcessed

\* At the start nothing has been fetched.
LEMMA ClInitially == CtInit => ClInv
<1> SUFFICES ASSUME CtInit PROVE ClInv
  OBVIOUS
<1>1. /\ ctPc = "start" /\ clDate = [c \in Chats |-> 0] /\ clMoved = {} /\ clOffset = MaxDate + 1
      /\ clSeen = {} /\ clElems = <<>> /\ clTodo = <<>> /\ clOut = <<>> /\ clNoTopics = {}
      /\ MaxDate \in Nat
  BY ChatToolsAssumption DEF CtInit
<1>2. clCut \in BOOLEAN
  BY DEF CtInit
<1>3. ClTyped
  BY <1>1, <1>2 DEF ClTyped
<1>4. DOMAIN <<>> = {} /\ Range(<<>>) = {} /\ IsInjective(<<>>)
  BY DEF Range, IsInjective
<1>5. ClListed /\ ClProcessed
  BY <1>1, <1>4 DEF ClListed, ClProcessed
<1> QED BY <1>3, <1>5 DEF ClInv

\* Every step of the chat tools keeps the invariant of ls.
LEMMA ClStepwise == ClInv /\ [CtSteps]_ctVars => ClInv'
<1> SUFFICES ASSUME ClInv, [CtSteps]_ctVars PROVE ClInv'
  OBVIOUS
<1> USE DEF ClInv, CtIs, CtGoes, clVars
<1>0. MaxDate \in Nat
  BY ChatToolsAssumption
<1>1. CASE ClStart
  <2>1. /\ ctOp = "ls" /\ ctPc = "start" /\ ctPc' = "fetch"
        /\ clDate' \in [Chats -> 1..MaxDate] /\ IsInjective(clDate')
        /\ UNCHANGED <<ctOp, clMoved, clOffset, clSeen, clElems, clCut, clTodo, clOut, clNoTopics>>
    BY <1>1 DEF ClStart
  <2>2. clDate' \in [Chats -> 0..MaxDate]
    <3>1. \A d \in 1..MaxDate : d \in 0..MaxDate
      OBVIOUS
    <3> QED BY <2>1, <3>1
  <2>3. \A c \in Wanted' : ~(clDate'[c] >= clOffset')
    <3>1. \A c \in Chats : clDate'[c] \in 0..MaxDate
      BY <2>2
    <3> QED BY <1>0, <2>1, <3>1 DEF Wanted, ClListed
  <2>4. Wanted' = Wanted
    BY <2>1 DEF Wanted
  <2>5. ClTyped'
    BY <2>1, <2>2 DEF ClTyped
  <2>6. ClListed' /\ ClProcessed'
    BY <2>1, <2>3, <2>4 DEF ClListed, ClProcessed
  <2> QED BY <2>5, <2>6
<1>2. CASE ClMove
  <2>1. /\ ctOp = "ls" /\ ctPc = "fetch"
        /\ UNCHANGED <<ctOp, ctPc, clOffset, clSeen, clElems, clCut, clTodo, clOut, clNoTopics>>
    BY <1>2 DEF ClMove
  <2>2. PICK c \in Chats \ Folders : \E d \in 1..MaxDate :
          /\ \A k \in Chats : clDate[k] # d
          /\ clDate' = [clDate EXCEPT ![c] = d] /\ clMoved' = clMoved \union {c}
    BY <1>2 DEF ClMove
  <2>3. PICK d \in 1..MaxDate :
          /\ \A k \in Chats : clDate[k] # d
          /\ clDate' = [clDate EXCEPT ![c] = d] /\ clMoved' = clMoved \union {c}
    BY <2>2
  <2>4. /\ clDate \in [Chats -> 0..MaxDate] /\ d \in 0..MaxDate
        /\ \A i, j \in Chats : clDate[i] = clDate[j] => i = j
    BY <2>1, <2>3 DEF ClTyped, IsInjective
  <2>5. clDate' \in [Chats -> 0..MaxDate] /\ \A k \in Chats \ {c} : clDate'[k] = clDate[k]
    BY <2>3, <2>4
  <2>6. IsInjective(clDate')
    <3>1. clDate'[c] = d /\ DOMAIN clDate' = Chats
      BY <2>3, <2>4
    <3> QED BY <2>3, <2>4, <2>5, <3>1 DEF IsInjective
  <2>7. Wanted' \subseteq Wanted \ {c} /\ Wanted' \subseteq Chats
    BY <2>3 DEF Wanted
  <2>8. ClTyped'
    BY <2>1, <2>3, <2>5, <2>6 DEF ClTyped
  <2>9. ClListed'
    BY <2>1, <2>5, <2>7 DEF ClListed
  <2>10. ClProcessed'
    BY <2>1 DEF ClProcessed
  <2> QED BY <2>8, <2>9, <2>10
<1>3. CASE ClPage
  <2>1. /\ ctPc = "fetch" /\ ctPc' \in {"fetch", "blocked"}
        /\ UNCHANGED <<ctOp, clTodo, clOut, clNoTopics>>
    BY <1>3 DEF ClPage
  <2>2. ClProcessed'
    BY <2>1 DEF ClProcessed
  <2> QED BY <1>3, <2>2, PageKeeps
<1>4. CASE ClPageEnds
  <2>1. /\ ctOp = "ls" /\ ctPc = "fetch" /\ ctPc' = "blocked" /\ clCut' \in BOOLEAN
        /\ UNCHANGED <<ctOp, clDate, clMoved, clOffset, clSeen, clElems, clTodo, clOut, clNoTopics>>
        /\ ~clCut' => Page = <<>>
    BY <1>4 DEF ClPageEnds, ClTyped
  <2>2. ASSUME Page = <<>>, NEW c \in Wanted PROVE c \in Range(clElems)
    <3>1. clDate \in [Chats -> 0..MaxDate] /\ IsInjective(clDate) /\ c \in Chats
      BY <2>1 DEF ClTyped, Wanted
    <3>2. Len(Page) = 0
      BY <2>2
    <3>3. ~(clDate[c] < clOffset)
      BY <2>2, <3>1, <3>2, PageListed
    <3>4. clDate[c] >= clOffset
      BY <1>0, <3>1, <3>3 DEF ClTyped
    <3> QED BY <2>1, <3>4 DEF ClListed
  <2>3. Wanted' = Wanted
    BY <2>1 DEF Wanted
  <2>4. ClTyped'
    BY <2>1 DEF ClTyped
  <2>5. ClListed'
    BY <2>1, <2>2, <2>3 DEF ClListed
  <2>6. ClProcessed'
    BY <2>1 DEF ClProcessed
  <2> QED BY <2>4, <2>5, <2>6
<1>5. ASSUME UNCHANGED <<ctOp, clDate, clMoved, clOffset, clSeen, clElems, clCut>>,
             ctOp = "ls" => ctPc \in {"blocked", "process", "topics"} \/ ctPc' = ctPc,
             ctPc' \in {"process", "topics", "write", "end", "failed"} \/ ctPc' = ctPc
      PROVE  ClListed'
  <2>1. Wanted' = Wanted
    BY <1>5 DEF Wanted
  <2> QED BY <1>5, <2>1 DEF ClListed
<1>6. CASE ClBlocked
  <2>1. /\ ctOp = "ls" /\ ctPc = "blocked" /\ ctPc' \in {"process", "failed"}
        /\ ctPc' = "process" => clTodo' = clElems
        /\ ctPc' = "failed" => clTodo' = clTodo
        /\ UNCHANGED <<ctOp, clDate, clMoved, clOffset, clSeen, clElems, clCut, clOut, clNoTopics>>
    BY <1>6 DEF ClBlocked
  <2>2. ClTyped'
    BY <2>1 DEF ClTyped
  <2>3. ClProcessed'
    <3>1. clOut = <<>> /\ Range(clOut) = {}
      BY <2>1 DEF ClProcessed, Range
    <3>2. IsInjective(clElems)
      BY DEF ClListed, IsInjective
    <3> QED BY <2>1, <3>1, <3>2 DEF ClProcessed
  <2> QED BY <1>5, <2>1, <2>2, <2>3
<1>7. ASSUME clTodo # <<>>, ctOp = "ls", ctPc \in {"process", "topics"},
             UNCHANGED <<ctOp, clDate, clMoved, clOffset, clSeen, clElems, clCut>>,
             clNoTopics \subseteq clNoTopics', clNoTopics' \subseteq Chats,
             \/ ClFilter
             \/ /\ ClSkip
                /\ \/ Head(clTodo) \in Unwanted \union clNoTopics'
                   \/ BareId[Head(clTodo)] \in Blocked
             \/ ctPc' = "topics" /\ UNCHANGED <<clTodo, clOut>>
      PROVE  ClInv'
  <2>1. CASE \/ ClSkip /\ (Head(clTodo) \in Unwanted \union clNoTopics' \/ BareId[Head(clTodo)] \in Blocked)
             \/ ClFilter /\ ctPc' = "process"
    <3>1. /\ ctPc' = "process" /\ clTodo' = Tail(clTodo)
          /\ \/ /\ clOut' = clOut
                /\ \/ Head(clTodo) \in Unwanted \union clNoTopics'
                   \/ BareId[Head(clTodo)] \in Blocked
             \/ clOut' = Append(clOut, Head(clTodo))
      BY <2>1 DEF ClSkip, ClFilter
    <3>2. ClProcessed' /\ clTodo' \in Seq(Chats) /\ clOut' \in Seq(Chats)
      BY <1>7, <3>1, HeadKeeps
    <3>3. ClTyped'
      BY <1>7, <3>1, <3>2 DEF ClTyped
    <3> QED BY <1>5, <1>7, <3>1, <3>2, <3>3
  <2>2. CASE ctPc' \in {"topics", "failed"} /\ UNCHANGED <<clTodo, clOut>>
    <3>1. ClTyped'
      BY <1>7, <2>2 DEF ClTyped
    <3>2. ClProcessed'
      BY <1>7, <2>2 DEF ClProcessed
    <3> QED BY <1>5, <1>7, <2>2, <3>1, <3>2
  <2>3. ClFilter => ctPc' = "process" \/ (ctPc' = "failed" /\ UNCHANGED <<clTodo, clOut>>)
    BY DEF ClFilter, ClSkip
  <2> QED BY <1>7, <2>1, <2>2, <2>3
<1>8. CASE ClProcess
  <2>1. UNCHANGED <<ctOp, clDate, clMoved, clOffset, clSeen, clElems, clCut, clNoTopics>>
    BY <1>8 DEF ClProcess
  <2> QED BY <1>7, <1>8, <2>1 DEF ClProcess, ClTyped
<1>9. CASE ClTopicsPage
  <2>1. UNCHANGED <<ctOp, clDate, clMoved, clOffset, clSeen, clElems, clCut, clNoTopics>>
        /\ clTodo # <<>>
    BY <1>9 DEF ClTopicsPage, ClTyped
  <2> QED BY <1>7, <1>9, <2>1 DEF ClTopicsPage, ClTyped
<1>10. CASE ClTopicsEnd
  <2>1. UNCHANGED <<ctOp, clDate, clMoved, clOffset, clSeen, clElems, clCut>>
        /\ clTodo # <<>>
    BY <1>10 DEF ClTopicsEnd, ClTyped
  <2>2. Head(clTodo) \in Chats
    BY <2>1, TailListed DEF ClTyped
  <2> QED BY <1>7, <1>10, <2>1, <2>2 DEF ClTopicsEnd, ClTyped
<1>11. CASE ClPrint
  <2>1. /\ ctOp = "ls" /\ ctPc = "process" /\ clTodo = <<>> /\ ctPc' = "end"
        /\ UNCHANGED <<ctOp, clVars>>
    BY <1>11 DEF ClPrint
  <2>2. ClTyped' /\ ClProcessed'
    BY <2>1 DEF ClTyped, ClProcessed
  <2> QED BY <1>5, <2>1, <2>2
<1>12. CASE XpSteps \/ UsSteps
  <2>1. /\ ctOp \in {"export", "users"} /\ UNCHANGED <<ctOp, clVars>>
        /\ ctPc' \in {"write", "end", "failed"} \/ ctPc' = ctPc
    BY <1>12 DEF XpSteps, XpStart, XpMessage, XpEnd, UsSteps, UsKind, UsFail, UsEnd
  <2>2. ClTyped' /\ ClProcessed'
    BY <2>1 DEF ClTyped, ClProcessed
  <2> QED BY <1>5, <2>1, <2>2
<1>13. CASE UNCHANGED ctVars
  <2>1. UNCHANGED <<ctOp, ctPc, clVars>>
    BY <1>13 DEF ctVars
  <2>2. ClTyped' /\ ClProcessed'
    BY <2>1 DEF ClTyped, ClProcessed
  <2> QED BY <1>5, <2>1, <2>2
<1> QED BY <1>1, <1>2, <1>3, <1>4, <1>6, <1>8, <1>9, <1>10, <1>11, <1>12, <1>13
       DEF CtSteps, ClSteps

\* The list of chats is whole, page by page, though the server reorders its dialogs while
\* they are fetched: see ListIsComplete for what may be missing.
THEOREM ChatsAreListed == CtSpec => []ListIsComplete
<1>1. ClInv => ListIsComplete
  <2> SUFFICES ASSUME ClInv, ctOp = "ls", ctPc = "end" PROVE ListIsComplete
    BY DEF ListIsComplete
  <2>1. clTodo = <<>> /\ Range(clTodo) = {} /\ IsInjective(clOut)
    BY DEF ClInv, ClProcessed, Range
  <2>2. ASSUME ~clCut,
               NEW c \in Chats \ (clMoved \union Folders \union Lost \union Unwanted \union clNoTopics),
               BareId[c] \notin Blocked, \A k \in Chats \ {c} : BareId[k] # BareId[c]
        PROVE  c \in Range(clOut)
    <3>1. c \in Wanted
      BY <2>2 DEF Wanted
    <3>2. c \in Range(clElems)
      BY <2>2, <3>1 DEF ClInv, ClListed
    <3> QED BY <2>1, <2>2, <3>2 DEF ClInv, ClProcessed
  <2> QED BY <2>1, <2>2 DEF ListIsComplete
<1> QED BY ClInitially, ClStepwise, <1>1, PTL DEF CtSpec

-----------------------------------------------------------------------------
(* ChatTools: the types, and the export.                                    *)

XpTypes ==
  /\ ctOp \in {"ls", "export", "users"}
  /\ ctPc \in {"start", "fetch", "blocked", "process", "topics", "write", "end", "failed"}
  /\ tpOffset \in Topics \union {0} /\ tpSeen \subseteq Topics \union {0}
  /\ tpReqs = Cardinality(tpSeen)
  /\ xpType \in {"time", "id", "last"} /\ xpInput \in Ints \X Ints
  /\ xpAll \in BOOLEAN /\ xpPos \in 0..Half /\ xpOut \in Seq(Ids)
  /\ usLeft \subseteq Kinds /\ usBars \subseteq Kinds

\* Ids and dates are numbers of 31 bits, and what is sent of the largest int is 0.
LEMMA IdsListed ==
  /\ Ids \in SUBSET Nat /\ IsFiniteSet(Ids)
  /\ {MaxInt, Half} \subseteq Nat \ {0} /\ (MaxInt + 1) % Wrap = 0
  /\ \A i \in Ids : i \in Nat /\ 1 =< i /\ i =< Half - 1 /\ History[i] \in 0..(Half - 1)
<1>1. /\ {MaxInt, Half} \subseteq Nat \ {0} /\ (MaxInt + 1) % Wrap = 0
      /\ History \in Seq(0..(Half - 1)) /\ Ids \subseteq 1..(Half - 1)
  BY ChatToolsAssumption
<1>2. IsFiniteSet(1..(Half - 1))
  BY <1>1, FS_Interval
<1>3. IsFiniteSet(Ids)
  BY <1>1, <1>2, FS_Subset
<1>4. \A i \in Ids : History[i] \in 0..(Half - 1)
  BY <1>1 DEF Ids
<1> HIDE DEF Ids
<1> QED BY <1>1, <1>3, <1>4

\* The greatest element of a set of numbers, as Max gives it.
LEMMA MaxIsGreatest ==
  ASSUME NEW S \in SUBSET Nat, IsFiniteSet(S), S # {}
  PROVE  Max(S) \in S /\ \A i \in S : i =< Max(S)
<1>1. \E m \in S : \A i \in S : i =< m
  BY HasGreatest
<1>2. \E m \in S : \A i \in S : m >= i
  BY <1>1
<1>3. Max(S) \in S /\ \A i \in S : Max(S) >= i
  BY <1>2 DEF Max
<1> QED BY <1>3

\* The messages to come.
LEMMA ComingListed ==
  /\ Coming \in SUBSET Nat /\ IsFiniteSet(Coming) /\ Coming \subseteq Ids
  /\ Coming # {} => Max(Coming) \in Coming /\ \A i \in Coming : i =< Max(Coming)
<1>1. Coming \in SUBSET Ids
  BY DEF Coming
<1>2. Coming \in SUBSET Nat /\ IsFiniteSet(Coming)
  BY <1>1, IdsListed, FS_Subset
<1> QED BY <1>1, <1>2, MaxIsGreatest

\* The offset that is sent: 32 bits of what follows the end.
LEMMA UpperEnd ==
  ASSUME NEW hi \in Ints
  PROVE  /\ XpUpper(hi) \in Int
         /\ hi = MaxInt => XpUpper(hi) = 0
         /\ hi \in 0..(Half - 2) => XpUpper(hi) = hi + 1
<1>1. MaxInt \in Nat /\ Half \in Nat /\ Half > 0 /\ (MaxInt + 1) % Wrap = 0 /\ hi \in Int
  BY IdsListed DEF Ints
<1>2. Wrap \in Nat /\ Wrap > Half /\ Wrap > 0
  BY <1>1 DEF Wrap
<1>3. (hi + 1) % Wrap \in Int
  BY <1>1, <1>2
<1>4. hi \in 0..(Half - 2) => (hi + 1) % Wrap = hi + 1
  BY <1>1, <1>2
<1> HIDE DEF Wrap
<1> QED BY <1>1, <1>2, <1>3, <1>4 DEF XpUpper

\* The largest int is at least 2^32 - 1.
LEMMA LargestIsLarge == MaxInt >= Half
<1>1. MaxInt \in Nat /\ Half \in Nat /\ Half > 0 /\ (MaxInt + 1) % Wrap = 0
  BY IdsListed
<1>2. Wrap \in Nat /\ Wrap > Half
  BY <1>1 DEF Wrap
<1>3. MaxInt + 1 < Wrap => (MaxInt + 1) % Wrap = MaxInt + 1
  BY <1>1, <1>2
<1> HIDE DEF Wrap
<1> QED BY <1>1, <1>2, <1>3

\* The messages up to the end of the range.
UpTo(type, hi) ==
  {i \in Ids : \/ type = "last" \/ hi = MaxInt
               \/ type = "id" /\ i =< hi
               \/ type = "time" /\ History[i] =< hi}

\* An end that fits is where the server starts.
LEMMA FromEnd ==
  ASSUME NEW type \in {"time", "id", "last"}, NEW input \in Ints \X Ints,
         type = "last" \/ input[2] \in 0..(Half - 2) \union {MaxInt}
  PROVE  XpFroms(type, input) = {UpTo(type, input[2])}
<1> DEFINE hi == input[2]
           o == XpUpper(hi)
<1>1. hi \in Ints
  OBVIOUS
<1>2. /\ o \in Int /\ (hi = MaxInt => o = 0) /\ (hi \in 0..(Half - 2) => o = hi + 1)
  BY <1>1, UpperEnd
<1>3. \A i \in Ids : i \in Nat /\ History[i] \in Nat
  BY IdsListed
<1>4. /\ MaxInt \in Nat /\ Half \in Nat
      /\ (hi = MaxInt => hi \notin 0..(Half - 2) \/ MaxInt + 1 = 0)
  BY <1>2, IdsListed
<1>0. type = "last" \/ hi \in 0..(Half - 2) \union {MaxInt}
  OBVIOUS
<1>5. XpFroms(type, input) =
        IF type = "last" \/ o = 0 THEN {Ids}
        ELSE IF o < 0 THEN {Ids, {}}
        ELSE {{i \in Ids : IF type = "id" THEN i < o ELSE History[i] < o}}
  BY DEF XpFroms
<1> HIDE DEF o, hi, Ids
<1>6. ASSUME type = "last" \/ hi = MaxInt PROVE XpFroms(type, input) = {UpTo(type, hi)}
  <2>1. UpTo(type, hi) = Ids
    BY <1>6 DEF UpTo
  <2> QED BY <1>2, <1>5, <1>6, <2>1
<1>7. ASSUME type # "last", hi # MaxInt PROVE XpFroms(type, input) = {UpTo(type, hi)}
  <2>1. hi \in 0..(Half - 2) /\ o = hi + 1 /\ o > 0 /\ hi \in Nat
    BY <1>0, <1>2, <1>4, <1>7
  <2>2. {i \in Ids : IF type = "id" THEN i < o ELSE History[i] < o} = UpTo(type, hi)
    <3>1. \A i \in Ids : (i < o <=> i =< hi) /\ (History[i] < o <=> History[i] =< hi)
      BY <1>3, <2>1
    <3> QED BY <1>7, <3>1 DEF UpTo
  <2> DEFINE S == {i \in Ids : IF type = "id" THEN i < o ELSE History[i] < o}
  <2>3. ~(type = "last" \/ o = 0) /\ ~(o < 0)
    BY <1>7, <2>1
  <2>4. XpFroms(type, input) = {S}
    BY <1>5, <2>3
  <2>5. S = UpTo(type, hi)
    BY <2>2
  <2> QED BY <2>4, <2>5
<1> QED BY <1>6, <1>7 DEF hi

\* The start of an export: all that is below its first position is to be exported.
LEMMA FromListed ==
  ASSUME NEW type \in {"time", "id", "last"}, NEW input \in Ints \X Ints,
         NEW F \in XpFroms(type, input), NEW pos, pos = Max(F \union {0}) + 1
  PROVE  /\ pos \in 0..Half
         /\ \A i \in Ids : i < pos <=> i \in F
<1> DEFINE o == XpUpper(input[2])
           m == Max(F \union {0})
<1>1. F \subseteq Ids
  BY DEF XpFroms
<1>2. \A i, j \in Ids : i < j /\ j \in F => i \in F
  <2> SUFFICES ASSUME NEW i \in Ids, NEW j \in Ids, i < j, j \in F PROVE i \in F
    OBVIOUS
  <2>1. History[i] =< History[j]
    BY ChatToolsAssumption
  <2>2. o \in Int
    <3>1. input[2] \in Ints
      OBVIOUS
    <3> QED BY <3>1, UpperEnd
  <2>3. i \in Nat /\ j \in Nat /\ History[i] \in Nat /\ History[j] \in Nat
    BY IdsListed
  <2> HIDE DEF o
  <2>4. \/ F = Ids \/ F = {}
        \/ F = {k \in Ids : IF type = "id" THEN k < o ELSE History[k] < o}
    BY DEF XpFroms, o
  <2>5. CASE F = Ids \/ F = {}
    BY <2>4, <2>5
  <2>6. CASE F = {k \in Ids : k < o}
    BY <2>2, <2>3, <2>6
  <2>7. CASE F = {k \in Ids : History[k] < o}
    BY <2>1, <2>2, <2>3, <2>7
  <2>8. CASE F = {k \in Ids : IF type = "id" THEN k < o ELSE History[k] < o}
    <3>1. type = "id" => F = {k \in Ids : k < o}
      BY <2>8
    <3>2. type # "id" => F = {k \in Ids : History[k] < o}
      BY <2>8
    <3> QED BY <2>6, <2>7, <3>1, <3>2
  <2> QED BY <2>4, <2>5, <2>8
<1> HIDE DEF o
<1>3. F \union {0} \in SUBSET Nat /\ IsFiniteSet(F \union {0}) /\ F \union {0} # {}
  <2>1. IsFiniteSet(F)
    BY <1>1, IdsListed, FS_Subset
  <2>2. IsFiniteSet(F \union {0})
    BY <2>1, FS_AddElement
  <2>3. \A i \in F : i \in Nat
    BY <1>1, IdsListed
  <2> QED BY <2>2, <2>3
<1>4. m \in F \union {0} /\ \A i \in F \union {0} : i =< m
  BY <1>3, MaxIsGreatest
<1> HIDE DEF m
<1>5. pos = m + 1
  BY DEF m
<1>6. \A i \in Ids : i \in Nat /\ 1 =< i /\ i =< Half - 1 /\ Half \in Nat
  BY IdsListed
<1>7. m \in Nat /\ m =< Half - 1
  <2>1. Half \in Nat /\ 0 =< Half - 1
    BY IdsListed
  <2>2. m = 0 \/ m \in Ids
    BY <1>1, <1>4
  <2> QED BY <1>6, <2>1, <2>2
<1>8. pos \in 0..Half
  BY <1>5, <1>7, IdsListed
<1>9. ASSUME NEW i \in Ids PROVE i < pos <=> i \in F
  <2>1. i < pos <=> i =< m
    BY <1>5, <1>6, <1>7
  <2>2. CASE i \in F
    BY <1>4, <2>1, <2>2
  <2>3. CASE i \notin F
    <3>1. m = 0 => ~(i =< m)
      BY <1>6
    <3>2. ASSUME m # 0 PROVE ~(i =< m)
      <4>1. m \in F /\ m \in Ids
        BY <1>1, <1>4, <3>2
      <4>2. ~(i < m) /\ i # m
        BY <1>2, <2>3, <4>1
      <4> QED BY <1>6, <1>7, <4>2
    <3> QED BY <2>1, <2>3, <3>1, <3>2
  <2> QED BY <2>2, <2>3
<1> QED BY <1>8, <1>9

\* The types at the start.
LEMMA XpInitially == CtInit => XpTypes
<1> SUFFICES ASSUME CtInit PROVE XpTypes
  OBVIOUS
<1>1. /\ ctOp \in {"ls", "export", "users"} /\ ctPc = "start" /\ tpOffset = 0 /\ tpSeen = {}
      /\ tpReqs = 0 /\ xpType = "last" /\ xpInput = <<0, 0>> /\ xpAll = FALSE /\ xpPos = 0
      /\ xpOut = <<>> /\ usLeft = Kinds /\ usBars = {} /\ MaxInt \in Nat /\ Half \in Nat
  BY IdsListed DEF CtInit
<1>2. Cardinality({}) = 0
  BY FS_EmptySet
<1>3. 0 \in 0..Half /\ <<0, 0>> \in Ints \X Ints /\ <<>> \in Seq(Ids)
  <2>1. 0 \in Ints
    BY <1>1 DEF Ints
  <2> QED BY <1>1, <2>1
<1> QED BY <1>1, <1>2, <1>3 DEF XpTypes

\* A forum is asked once for each offset.
LEMMA TopicTypes ==
  ASSUME XpTypes, ClTopicsPage
  PROVE  /\ tpOffset' \in Topics \union {0} /\ tpSeen' \subseteq Topics \union {0}
         /\ tpReqs' = Cardinality(tpSeen')
<1>1. IsFiniteSet(Topics \union {0})
  BY ChatToolsAssumption, FS_AddElement
<1>2. IsFiniteSet(tpSeen)
  BY <1>1, FS_Subset DEF XpTypes
<1>3. tpOffset \notin tpSeen /\ tpSeen' = tpSeen \union {tpOffset} /\ tpReqs' = tpReqs + 1
      /\ tpOffset' \in Topics \union {tpOffset}
  BY DEF ClTopicsPage, TopicsCycle
<1>4. Cardinality(tpSeen \union {tpOffset}) = Cardinality(tpSeen) + 1
  BY <1>2, <1>3, FS_AddElement
<1> QED BY <1>3, <1>4 DEF XpTypes

\* Every step of the chat tools keeps the types.
LEMMA XpStepwise == XpTypes /\ [CtSteps]_ctVars => XpTypes'
<1> SUFFICES ASSUME XpTypes, [CtSteps]_ctVars PROVE XpTypes'
  OBVIOUS
<1> USE DEF CtIs, CtGoes
<1>1. CASE ClStart \/ ClMove \/ ClPage \/ ClPageEnds \/ ClBlocked \/ ClPrint
  <2>1. /\ ctPc' \in {"fetch", "blocked", "process", "failed", "end"} /\ ctOp' = ctOp
        /\ UNCHANGED <<tpVars, xpVars, usVars>>
    <3>1. CASE ClStart BY <3>1 DEF ClStart
    <3>2. CASE ClMove BY <3>2 DEF ClMove
    <3>3. CASE ClPage BY <3>3 DEF ClPage
    <3>4. CASE ClPageEnds BY <3>4 DEF ClPageEnds
    <3>5. CASE ClBlocked BY <3>5 DEF ClBlocked
    <3>6. CASE ClPrint BY <3>6 DEF ClPrint
    <3> QED BY <1>1, <3>1, <3>2, <3>3, <3>4, <3>5, <3>6
  <2> QED BY <2>1 DEF XpTypes, tpVars, xpVars, usVars
<1>2. CASE ClProcess
  <2>1. /\ ctOp' = ctOp /\ ctPc' \in {"process", "topics", "failed"} /\ UNCHANGED <<xpVars, usVars>>
        /\ \/ UNCHANGED tpVars
           \/ tpOffset' = 0 /\ tpSeen' = {} /\ tpReqs' = 0
    BY <1>2 DEF ClProcess, ClSkip, ClFilter
  <2>2. Cardinality({}) = 0
    BY FS_EmptySet
  <2> QED BY <2>1, <2>2 DEF XpTypes, tpVars, xpVars, usVars
<1>3. CASE ClTopicsPage
  <2>1. /\ ctOp' = ctOp /\ ctPc' \in {"process", "topics", "failed"} /\ UNCHANGED <<xpVars, usVars>>
    BY <1>3 DEF ClTopicsPage, ClSkip, ClFilter
  <2>2. /\ tpOffset' \in Topics \union {0} /\ tpSeen' \subseteq Topics \union {0}
        /\ tpReqs' = Cardinality(tpSeen')
    BY <1>3, TopicTypes
  <2> QED BY <2>1, <2>2 DEF XpTypes, xpVars, usVars
<1>4. CASE ClTopicsEnd
  <2>1. /\ ctOp' = ctOp /\ ctPc' \in {"process", "failed"} /\ UNCHANGED <<tpVars, xpVars, usVars>>
    BY <1>4 DEF ClTopicsEnd, ClSkip, ClFilter
  <2> QED BY <2>1 DEF XpTypes, tpVars, xpVars, usVars
<1>5. CASE XpStart
  <2>1. /\ ctOp' = ctOp /\ ctPc' \in {"write", "failed"} /\ UNCHANGED <<tpVars, xpOut, usVars>>
        /\ xpType' \in {"time", "id", "last"} /\ xpAll' \in BOOLEAN /\ xpInput' \in XpInputs(xpType')
        /\ \/ \E from \in XpFroms(xpType', xpInput') : xpPos' = Max(from \union {0}) + 1
           \/ xpPos' = xpPos
    BY <1>5 DEF XpStart
  <2>2. xpInput' \in Ints \X Ints
    <3>1. 0 \in Ints
      BY IdsListed DEF Ints
    <3> QED BY <2>1, <3>1 DEF XpInputs
  <2>3. xpPos' \in 0..Half
    BY <2>1, <2>2, FromListed DEF XpTypes
  <2> QED BY <2>1, <2>2, <2>3 DEF XpTypes, tpVars, usVars
<1>6. CASE XpMessage
  <2>1. /\ UNCHANGED <<ctOp, ctPc, tpVars, xpType, xpInput, xpAll, usVars>>
        /\ Coming # {} /\ xpPos' = Max(Coming)
        /\ xpOut' = (IF XpTaken(Max(Coming)) THEN Append(xpOut, Max(Coming)) ELSE xpOut)
    BY <1>6 DEF XpMessage
  <2>2. Max(Coming) \in Ids /\ Max(Coming) \in 0..Half
    <3>1. Max(Coming) \in Ids
      BY <2>1, ComingListed
    <3>2. \A i \in Ids : i \in 0..Half
      BY IdsListed
    <3> QED BY <3>1, <3>2
  <2>3. xpOut' \in Seq(Ids)
    <3> HIDE DEF Ids
    <3> QED BY <2>1, <2>2 DEF XpTypes
  <2> QED BY <2>1, <2>2, <2>3 DEF XpTypes, tpVars, usVars
<1>7. CASE XpEnd
  <2>1. ctOp' = ctOp /\ ctPc' \in {"end", "failed"} /\ UNCHANGED <<tpVars, xpVars, usVars>>
    BY <1>7 DEF XpEnd
  <2> QED BY <2>1 DEF XpTypes, tpVars, xpVars, usVars
<1>8. CASE UsSteps
  <2>1. /\ ctOp' = ctOp /\ ctPc' \in {"start", "end", "failed"} /\ UNCHANGED <<tpVars, xpVars>>
        /\ usLeft' \subseteq Kinds /\ usBars' \subseteq Kinds
    BY <1>8 DEF UsSteps, UsKind, UsFail, UsEnd, XpTypes, usVars
  <2> QED BY <2>1 DEF XpTypes, tpVars, xpVars
<1>9. CASE UNCHANGED ctVars
  BY <1>9 DEF XpTypes, ctVars, tpVars, xpVars, usVars
<1> QED BY <1>1, <1>2, <1>3, <1>4, <1>5, <1>6, <1>7, <1>8, <1>9 DEF CtSteps, ClSteps, XpSteps

\* The chat tools keep the types of their variables: among them, fetchTopics asks at most once
\* for each offset there is, and a position of an export is never above 2^31.
THEOREM ChatTypes == CtSpec => []CtTypeOK
<1>1. ClInv /\ XpTypes => CtTypeOK
  <2> SUFFICES ASSUME ClInv, XpTypes PROVE CtTypeOK
    OBVIOUS
  <2>1. IsFiniteSet(Topics) /\ IsFiniteSet(Topics \union {0})
    BY ChatToolsAssumption, FS_AddElement
  <2>2. /\ Cardinality(tpSeen) \in Nat /\ Cardinality(Topics) \in Nat
        /\ Cardinality(tpSeen) =< Cardinality(Topics \union {0})
    BY <2>1, FS_Subset, FS_CardinalityType DEF XpTypes
  <2>3. Cardinality(Topics \union {0}) =< Cardinality(Topics) + 1
    BY <2>1, <2>2, FS_AddElement
  <2>4. tpReqs \in 0..(Cardinality(Topics) + 1)
    <3>1. Cardinality(Topics \union {0}) \in Nat
      BY <2>1, FS_CardinalityType
    <3> QED BY <2>2, <2>3, <3>1 DEF XpTypes
  <2> QED BY <2>4 DEF CtTypeOK, ClInv, ClTyped, XpTypes
<1> QED BY ClInitially, ClStepwise, XpInitially, XpStepwise, <1>1, PTL DEF CtSpec

\* Where a range begins.
FromLower(i) == \/ xpType = "time" /\ History[i] >= xpInput[1]
                \/ xpType = "id" /\ i >= xpInput[1]
                \/ xpType = "last"

\* What has been passed of the range is written, if it is taken, newest first; and what is to
\* come is below the upper end of it.
XpWritten ==
  /\ \A k, l \in 1..Len(xpOut) : k < l => xpOut[k] > xpOut[l]
  /\ \A k \in 1..Len(xpOut) : xpOut[k] \in UpTo(xpType, xpInput[2]) /\ xpOut[k] >= xpPos
                              /\ XpTaken(xpOut[k]) /\ FromLower(xpOut[k])
  /\ \A i \in Ids : i \in UpTo(xpType, xpInput[2]) /\ i >= xpPos /\ XpTaken(i)
                    => \E k \in 1..Len(xpOut) : xpOut[k] = i
  /\ \A i \in Ids : i < xpPos => i \in UpTo(xpType, xpInput[2])
  /\ xpType = "last" => Len(xpOut) = 0 \/ Len(xpOut) =< xpInput[1]

XpOver == Coming = {} \/ XpBeyond(Max(Coming))

XpInv ==
  ctOp = "export" =>
    /\ ctPc = "start" => xpOut = <<>>
    /\ ctPc \in {"write", "end"} /\ EndFits => XpWritten
    /\ ctPc = "end" => XpOver

\* The messages of the range are those up to its end, down to its lower one.
LEMMA RangeSplit ==
  ASSUME XpTypes, EndFits, NEW i \in Ids
  PROVE  InRange(i) <=> i \in UpTo(xpType, xpInput[2]) /\ FromLower(i)
<1> DEFINE hi == xpInput[2]
           lo == xpInput[1]
<1>1. /\ hi \in Int /\ lo \in Int /\ xpType \in {"time", "id", "last"}
      /\ MaxInt \in Nat /\ Half \in Nat
  BY IdsListed DEF XpTypes, Ints
<1>2. i \in Nat /\ i =< Half - 1 /\ History[i] \in 0..(Half - 1)
  BY IdsListed
<1>3. hi = MaxInt => i =< hi /\ History[i] =< hi
  BY <1>1, <1>2, LargestIsLarge
<1>4. i \in UpTo(xpType, hi) <=>
        \/ xpType = "last" \/ hi = MaxInt
        \/ xpType = "id" /\ i =< hi
        \/ xpType = "time" /\ History[i] =< hi
  BY DEF UpTo
<1>5. InRange(i) <=> \/ xpType = "time" /\ lo =< History[i] /\ History[i] =< hi
                     \/ xpType = "id" /\ lo =< i /\ i =< hi
                     \/ xpType = "last"
  BY <1>1, <1>2 DEF InRange
<1>6. FromLower(i) <=> \/ xpType = "time" /\ History[i] >= lo
                       \/ xpType = "id" /\ i >= lo
                       \/ xpType = "last"
  BY DEF FromLower
<1> HIDE DEF hi, lo, Ids
<1>7. InRange(i) <=> i \in UpTo(xpType, hi) /\ FromLower(i)
  BY <1>1, <1>2, <1>3, <1>4, <1>5, <1>6
<1> QED BY <1>7 DEF hi

\* The next message is the newest that has not been passed.
LEMMA MessageWritten ==
  ASSUME XpTypes, XpWritten, XpMessage
  PROVE  XpWritten'
<1> DEFINE m == Max(Coming)
           F == UpTo(xpType, xpInput[2])
           n == Len(xpOut)
<1>1. /\ UNCHANGED <<xpType, xpInput, xpAll>> /\ Coming # {} /\ ~XpBeyond(m) /\ xpPos' = m
      /\ xpOut' = (IF XpTaken(m) THEN Append(xpOut, m) ELSE xpOut)
  BY DEF XpMessage
<1>2. m \in Coming /\ \A i \in Coming : i =< m
  BY <1>1, ComingListed
<1>3. m \in Ids /\ m < xpPos
  BY <1>2 DEF Coming
<1>4. m \in F
  BY <1>3 DEF XpWritten
<1>5. \A i \in Ids : i \in Nat /\ History[i] \in Nat
  BY IdsListed
<1>6. /\ n \in Nat /\ xpPos \in Nat /\ xpInput[1] \in Int /\ xpType \in {"time", "id", "last"}
      /\ \A k \in 1..n : xpOut[k] \in Ids
  <2>1. xpOut \in Seq(Ids)
    BY DEF XpTypes
  <2> HIDE DEF Ids
  <2>2. \A k \in 1..n : xpOut[k] \in Ids
    BY <2>1
  <2> QED BY <2>1, <2>2, IdsListed DEF XpTypes, Ints
<1>7. FromLower(m)
  BY <1>1, <1>3, <1>5, <1>6 DEF FromLower, XpBeyond
<1>8. \A i \in Ids : i < xpPos => i =< m
  BY <1>2 DEF Coming
<1>9. UpTo(xpType, xpInput[2])' = F /\ \A i : XpTaken(i)' = XpTaken(i) /\ FromLower(i)' = FromLower(i)
  BY <1>1 DEF UpTo, XpTaken, FromLower
<1> HIDE DEF m, F, Ids
<1>10. \A i \in Ids : (i < m => i < xpPos) /\ (i >= xpPos => i >= m) /\ (i >= m => i = m \/ i >= xpPos)
  BY <1>3, <1>5, <1>6, <1>8
<1>11. \A i \in Ids : i < m => i \in F
  BY <1>10 DEF XpWritten, F
<1>12. CASE ~XpTaken(m)
  <2>1. xpOut' = xpOut
    BY <1>1, <1>12
  <2>2. \A i \in Ids : i \in F /\ i >= m /\ XpTaken(i) => \E k \in 1..n : xpOut[k] = i
    BY <1>10, <1>12 DEF XpWritten, F
  <2>3. \A k \in 1..n : xpOut[k] \in F /\ xpOut[k] >= m /\ XpTaken(xpOut[k]) /\ FromLower(xpOut[k])
    BY <1>6, <1>10 DEF XpWritten, F
  <2> QED BY <1>1, <1>9, <1>11, <2>1, <2>2, <2>3 DEF XpWritten
<1>13. CASE XpTaken(m)
  <2>1. xpOut' = Append(xpOut, m)
    BY <1>1, <1>13
  <2>2. /\ Len(xpOut') = n + 1 /\ xpOut'[n + 1] = m
        /\ \A k \in 1..n : xpOut'[k] = xpOut[k]
    <3>1. xpOut \in Seq(Ids)
      BY DEF XpTypes
    <3> QED BY <1>3, <2>1, <3>1
  <2>3. \A k \in 1..n + 1 : k \in 1..n \/ k = n + 1
    BY <1>6
  <2>4. \A k \in 1..n : k \in 1..n + 1 /\ k < n + 1
    BY <1>6
  <2>5. n + 1 \in 1..n + 1
    BY <1>6
  <2> HIDE DEF n
  <2>6. \A k \in 1..n : xpOut[k] > m
    <3> SUFFICES ASSUME NEW k \in 1..n PROVE xpOut[k] > m
      OBVIOUS
    <3>1. xpOut[k] >= xpPos /\ xpOut[k] \in Ids
      BY <1>6 DEF XpWritten, n
    <3> QED BY <1>3, <1>5, <1>6, <3>1
  <2>7. \A k, l \in 1..n + 1 : k < l => xpOut'[k] > xpOut'[l]
    <3> SUFFICES ASSUME NEW k \in 1..n + 1, NEW l \in 1..n + 1, k < l
                 PROVE  xpOut'[k] > xpOut'[l]
      OBVIOUS
    <3>1. k \in 1..n
      BY <1>6
    <3>2. CASE l = n + 1
      BY <2>2, <2>6, <3>1, <3>2
    <3>3. CASE l \in 1..n
      BY <2>2, <3>1, <3>3 DEF XpWritten, n
    <3> QED BY <2>3, <3>2, <3>3
  <2>8. \A k \in 1..n + 1 : xpOut'[k] \in F /\ xpOut'[k] >= m /\ XpTaken(xpOut'[k])
                            /\ FromLower(xpOut'[k])
    <3> SUFFICES ASSUME NEW k \in 1..n + 1
                 PROVE  xpOut'[k] \in F /\ xpOut'[k] >= m /\ XpTaken(xpOut'[k])
                        /\ FromLower(xpOut'[k])
      OBVIOUS
    <3>1. CASE k = n + 1
      <4>1. m >= m
        BY <1>3, <1>5
      <4> QED BY <1>4, <1>7, <1>13, <2>2, <3>1, <4>1
    <3>2. CASE k \in 1..n
      BY <1>6, <1>10, <2>2, <3>2 DEF XpWritten, F, n
    <3> QED BY <2>3, <3>1, <3>2
  <2>9. \A i \in Ids : i \in F /\ i >= m /\ XpTaken(i) => \E k \in 1..n + 1 : xpOut'[k] = i
    <3> SUFFICES ASSUME NEW i \in Ids, i \in F, i >= m, XpTaken(i)
                 PROVE  \E k \in 1..n + 1 : xpOut'[k] = i
      OBVIOUS
    <3>1. CASE i = m
      BY <2>2, <2>5, <3>1
    <3>2. CASE i >= xpPos
      <4>1. PICK k \in 1..n : xpOut[k] = i
        BY <3>2 DEF XpWritten, F, n
      <4> QED BY <2>2, <2>4, <4>1
    <3> QED BY <1>10, <3>1, <3>2
  <2>10. xpType = "last" => n + 1 =< xpInput[1]
    BY <1>1, <1>6 DEF XpBeyond, n
  <2> QED BY <1>1, <1>9, <1>11, <2>2, <2>7, <2>8, <2>9, <2>10 DEF XpWritten
<1> QED BY <1>12, <1>13

\* Every step of the chat tools keeps the invariant of export.
LEMMA ExportStepwise == XpTypes /\ XpInv /\ [CtSteps]_ctVars => XpInv'
<1> SUFFICES ASSUME XpTypes, XpInv, [CtSteps]_ctVars PROVE XpInv'
  OBVIOUS
<1> USE DEF CtIs, CtGoes
<1>1. CASE ClSteps \/ UsSteps
  <2>1. ctOp \in {"ls", "users"} /\ ctOp' = ctOp
    <3>1. ClSteps => ctOp = "ls" /\ ctOp' = ctOp
      BY DEF ClSteps, ClStart, ClMove, ClPage, ClPageEnds, ClBlocked, ClProcess, ClTopicsPage,
             ClTopicsEnd, ClPrint
    <3>2. UsSteps => ctOp = "users" /\ ctOp' = ctOp
      BY DEF UsSteps, UsKind, UsFail, UsEnd
    <3> QED BY <1>1, <3>1, <3>2
  <2> QED BY <2>1 DEF XpInv
<1>2. CASE XpStart
  <2>1. /\ ctOp = "export" /\ ctPc = "start" /\ ctOp' = ctOp /\ ctPc' \in {"write", "failed"}
        /\ xpOut' = xpOut /\ xpType' \in {"time", "id", "last"} /\ xpInput' \in XpInputs(xpType')
        /\ ctPc' = "write" =>
             \E from \in XpFroms(xpType', xpInput') : xpPos' = Max(from \union {0}) + 1
    BY <1>2 DEF XpStart
  <2>2. xpOut = <<>> /\ Len(xpOut) = 0
    BY <2>1 DEF XpInv
  <2>3. ASSUME ctPc' = "write", EndFits' PROVE XpWritten'
    <3> DEFINE F == UpTo(xpType', xpInput'[2])
    <3>1. xpInput' \in Ints \X Ints
      <4>1. 0 \in Ints
        BY IdsListed DEF Ints
      <4> QED BY <2>1, <4>1 DEF XpInputs
    <3>2. xpType' = "last" \/ xpInput'[2] \in 0..(Half - 2) \union {MaxInt}
      BY <2>3 DEF EndFits
    <3>3. XpFroms(xpType', xpInput') = {F}
      BY <2>1, <3>1, <3>2, FromEnd
    <3>4. PICK G \in XpFroms(xpType', xpInput') : xpPos' = Max(G \union {0}) + 1
      BY <2>1, <2>3
    <3>5. xpPos' \in 0..Half /\ \A i \in Ids : i < xpPos' <=> i \in F
      BY <2>1, <3>1, <3>3, <3>4, FromListed
    <3>6. \A i \in Ids : ~(i \in F /\ i >= xpPos')
      <4>1. \A i \in Ids : i \in Nat /\ Half \in Nat
        BY IdsListed
      <4> HIDE DEF F, Ids
      <4> QED BY <3>5, <4>1
    <3>7. 1..0 = {}
      OBVIOUS
    <3>8. UpTo(xpType, xpInput[2])' = F
      BY DEF UpTo
    <3> HIDE DEF F, Ids
    <3> QED BY <2>1, <2>2, <3>5, <3>6, <3>7, <3>8 DEF XpWritten
  <2> QED BY <2>1, <2>3 DEF XpInv
<1>3. CASE XpMessage
  <2>1. ctOp = "export" /\ ctPc = "write" /\ ctOp' = ctOp /\ ctPc' = ctPc
    BY <1>3 DEF XpMessage
  <2>2. EndFits' => EndFits
    BY <1>3 DEF XpMessage, EndFits
  <2>3. EndFits => XpWritten'
    BY <1>3, <2>1, MessageWritten DEF XpInv
  <2> QED BY <2>1, <2>2, <2>3 DEF XpInv
<1>4. CASE XpEnd
  <2>1. /\ ctOp = "export" /\ ctPc = "write" /\ ctOp' = ctOp /\ ctPc' \in {"end", "failed"}
        /\ UNCHANGED xpVars /\ (ctPc' = "end" => XpOver)
    BY <1>4 DEF XpEnd, XpOver
  <2>2. EndFits' => XpWritten'
    <3>1. EndFits' => XpWritten
      BY <2>1 DEF XpInv, EndFits, xpVars
    <3> QED BY <2>1, <3>1 DEF XpWritten, xpVars, UpTo, XpTaken, FromLower
  <2>3. XpOver => XpOver'
    BY <2>1 DEF XpOver, xpVars, Coming, XpBeyond
  <2> QED BY <2>1, <2>2, <2>3 DEF XpInv
<1>5. CASE UNCHANGED ctVars
  BY <1>5 DEF XpInv, ctVars, xpVars, XpWritten, XpOver, UpTo, XpTaken, FromLower, Coming, XpBeyond,
             EndFits
<1> QED BY <1>1, <1>2, <1>3, <1>4, <1>5 DEF CtSteps, XpSteps

\* What is written when the export is over: all of the range, or the newest of it.
LEMMA ExportIsExact ==
  ASSUME XpTypes, EndFits, XpWritten, XpOver
  PROVE  xpOut = Exported
<1> DEFINE A == {i \in Ids : InRange(i) /\ XpTaken(i)}
           W == {i \in A : i >= xpPos}
           F == UpTo(xpType, xpInput[2])
           n == Len(xpOut)
           D == Descending(A)
<1>1. \A i \in Ids : i \in Nat /\ History[i] \in Nat
  BY IdsListed
<1>2. /\ n \in Nat /\ xpPos \in Nat /\ xpInput[1] \in Int /\ xpType \in {"time", "id", "last"}
      /\ \A k \in 1..n : xpOut[k] \in Ids
      /\ xpOut \in Seq(Ids)
  <2>1. xpOut \in Seq(Ids)
    BY DEF XpTypes
  <2> HIDE DEF Ids
  <2>2. \A k \in 1..n : xpOut[k] \in Ids
    BY <2>1
  <2> QED BY <2>1, <2>2, IdsListed DEF XpTypes, Ints
<1>3. A \in SUBSET Nat /\ IsFiniteSet(A)
  <2>1. A \in SUBSET Ids
    OBVIOUS
  <2> QED BY <2>1, IdsListed, FS_Subset
<1>4. \A i \in Ids : InRange(i) <=> i \in F /\ FromLower(i)
  BY RangeSplit
<1>5. \A k \in 1..n : xpOut[k] \in W
  BY <1>2, <1>4 DEF XpWritten
<1>6. xpOut \in Seq(W)
  <2>1. xpOut = [k \in 1..n |-> xpOut[k]]
    BY <1>2
  <2> HIDE DEF W
  <2> QED BY <1>2, <1>5, <2>1
<1>7. \A i \in W : \A j \in A : j >= i => j \in W
  BY <1>1, <1>2
<1>8. \A i \in W : \E k \in 1..n : xpOut[k] = i
  BY <1>4 DEF XpWritten
<1>9. /\ n =< Cardinality(A) /\ Cardinality(A) \in Nat /\ n = Cardinality(W)
      /\ xpOut = SubSeq(D, 1, n) /\ (n = Cardinality(A) => W = A)
  <2>1. \A k, l \in 1..n : k < l => xpOut[k] > xpOut[l]
    BY DEF XpWritten
  <2>2. W \in SUBSET A
    OBVIOUS
  <2> HIDE DEF A, W, D
  <2> QED BY <1>3, <1>6, <1>7, <1>8, <2>1, <2>2, Greatest DEF D
<1>10. D \in Seq(A) /\ Len(D) = Cardinality(A)
  BY <1>3, DescendingLists
<1>11. n = Cardinality(A) => xpOut = D
  <2> HIDE DEF D, A
  <2>1. SubSeq(D, 1, Len(D)) = D
    BY <1>10, SubSeqFull
  <2> QED BY <1>9, <1>10, <2>1
<1>12. ASSUME ~(xpType = "last" /\ xpInput[1] =< n) PROVE W = A
  <2> SUFFICES ASSUME NEW i \in A, i \notin W PROVE FALSE
    OBVIOUS
  <2>1. i \in Ids /\ i < xpPos /\ FromLower(i)
    BY <1>1, <1>2, <1>4
  <2>2. i \in Coming
    BY <2>1 DEF Coming
  <2> DEFINE m == Max(Coming)
  <2>3. m \in Ids /\ i =< m /\ XpBeyond(m)
    BY <2>2, ComingListed DEF XpOver
  <2> HIDE DEF m
  <2>4. History[i] =< History[m]
    <3>1. i = m \/ i < m
      BY <1>1, <2>1, <2>3
    <3> QED BY <1>1, <2>1, <2>3, <3>1, ChatToolsAssumption
  <2>5. History[i] \in Nat /\ History[m] \in Nat /\ i \in Nat /\ m \in Nat
    BY <1>1, <2>1, <2>3
  <2>6. CASE xpType = "time"
    BY <1>2, <2>1, <2>3, <2>4, <2>5, <2>6 DEF XpBeyond, FromLower
  <2>7. CASE xpType = "id"
    BY <1>2, <2>1, <2>3, <2>5, <2>7 DEF XpBeyond, FromLower
  <2>8. CASE xpType = "last"
    BY <1>2, <1>12, <2>3, <2>8 DEF XpBeyond
  <2> QED BY <1>2, <2>6, <2>7, <2>8
<1>13. xpType = "last" => n = 0 \/ n =< xpInput[1]
  BY DEF XpWritten
<1> HIDE DEF A, W, D, n
<1>14. Exported = IF xpType = "last" /\ xpInput[1] < Cardinality(A) THEN SubSeq(D, 1, xpInput[1])
                  ELSE D
  BY <1>10 DEF Exported, D, A
<1>15. CASE xpType = "last" /\ xpInput[1] < Cardinality(A)
  <2>1. n # Cardinality(A) \/ (n = 0 /\ xpInput[1] < 0)
    BY <1>2, <1>9, <1>13, <1>15
  <2>2. CASE n = 0 /\ xpInput[1] < 0
    <3>1. SubSeq(D, 1, xpInput[1]) = <<>>
      BY <1>2, <1>10, <2>2
    <3>2. xpOut = <<>>
      BY <1>2, <2>2 DEF n
    <3> QED BY <1>14, <1>15, <3>1, <3>2
  <2>3. CASE n # Cardinality(A)
    <3>1. xpInput[1] =< n
      BY <1>9, <1>12, <2>3
    <3>2. n = xpInput[1] \/ (n = 0 /\ xpInput[1] < 0)
      BY <1>2, <1>13, <1>15, <3>1
    <3> QED BY <1>9, <1>14, <1>15, <2>2, <3>2
  <2> QED BY <2>1, <2>2, <2>3
<1>16. CASE ~(xpType = "last" /\ xpInput[1] < Cardinality(A))
  <2>1. n = Cardinality(A)
    BY <1>2, <1>9, <1>12, <1>16
  <2> QED BY <1>11, <1>14, <1>16, <2>1
<1> QED BY <1>15, <1>16

\* An export that ends without an error has the messages of its range: see ExportExact.
THEOREM ExportsAreExact == CtSpec => []ExportExact
<1>1. CtInit => XpInv
  BY DEF CtInit, XpInv
<1>2. XpTypes /\ XpInv => ExportExact
  <2> SUFFICES ASSUME XpTypes, XpInv, ctOp = "export", ctPc = "end", EndFits PROVE xpOut = Exported
    BY DEF ExportExact
  <2>1. XpWritten /\ XpOver
    BY DEF XpInv
  <2> QED BY <2>1, ExportIsExact
<1> QED BY XpInitially, XpStepwise, ExportStepwise, <1>1, <1>2, PTL DEF CtSpec

-----------------------------------------------------------------------------
(* The program is one of its commands.                                      *)

\* What is not called stands still.
LEMMA OneCommand ==
  /\ Spec => FwSpec
  /\ Spec => CtSpec
  /\ Spec => ExSpec
  /\ Spec => SuSpec
<1> DEFINE vars == <<command, fwVars, ctVars, exVars, suVars>>
<1>1. Init => FwInit /\ CtInit /\ ExInit /\ SuInit
  BY DEF Init
<1>2. [Next]_vars => [FwSteps]_fwVars /\ [CtSteps]_ctVars /\ [ExSteps]_exVars /\ [SuSteps]_suVars
  BY DEF Next
<1> QED BY <1>1, <1>2, PTL DEF Spec, FwSpec, CtSpec, ExSpec, SuSpec

\* The variables of every command have their types.
THEOREM TypeCorrect == Spec => []TypeOK
<1> DEFINE Called == command \in {"forward", "chat", "extension", "update"}
<1>1. Init => Called
  BY DEF Init
<1>2. Called /\ [Next]_<<command, fwVars, ctVars, exVars, suVars>> => Called'
  BY DEF Next
<1>3. Called /\ FwTypeOK /\ CtTypeOK /\ ExTypeOK /\ SuTypeOK => TypeOK
  BY DEF TypeOK
<1> HIDE DEF Called
<1> QED BY <1>1, <1>2, <1>3, OneCommand, ForwardTypes, ChatTypes, ExtensionTypes, UpdateTypes, PTL
       DEF Spec

\* What is proved of a command is so of the program: see the properties.
THEOREM CommandsAreSafe ==
  Spec => [](/\ ArrivesOnce /\ DoneHasArrived /\ AllReported
             /\ ListIsComplete /\ ExportExact /\ ManifestIsTrue /\ ExecutableKept)
BY OneCommand, MessagesArriveOnce, DoneMeansArrived, EveryoneIsReported, ChatsAreListed,
   ExportsAreExact, ManifestsAreTrue, UpdateKeepsExecutable, PTL
===============================================================================
